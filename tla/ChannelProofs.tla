----------------------------- MODULE ChannelProofs -----------------------------
(***************************************************************************)
(* Proofs about Channel, for any number of attempts, lectures, edits and   *)
(* disturbances: the state shown tells where the one attempt under way is, *)
(* nobody else runs, and the relay pushes while the channel is live.       *)
(***************************************************************************)
EXTENDS Channel, SequenceTheorems, FiniteSetTheorems, TLAPS

RecordType == [state : {"off", "preflight", "starting", "on", "stopping", "failed"},
               consumer : 0..MaxLaunches, session : 0..MaxLectures,
               disableRequested : BOOLEAN, restarts : 0..RestartLimit]
Phase == {"none", "preflight", "backoff", "calling", "called", "refused", "racing", "timedout", "done"}
EventType == [kind : {"running", "exited"}, n : Attempts]
ReloadType == [op : {"activate", "deactivate", "refresh"}, n : Nat,
               at : {"sent", "applied"}, digest : 0..(MaxEdits + 1)]

ControlTypes ==
  /\ record \in RecordType /\ launches \in 0..MaxLaunches
  /\ attempt \in [Attempts -> Phase] /\ disabling \subseteq Disables

WorldTypes ==
  /\ channel \in {"meeting", "streaming"}
  /\ consumer \in [Attempts -> {"none", "up", "down"}]
  /\ events \in Seq(EventType)
  /\ lecture \in [last : 0..MaxLectures, on : BOOLEAN]
  /\ open \in [Lectures -> Nat]
  /\ irregular \subseteq {"hasty", "overlap", "fault"} /\ disturbances \in 0..MaxDisturbances

RelayTypes ==
  /\ configured \in BOOLEAN /\ edition \in 0..MaxEdits
  /\ lastDigest \in 0..Never /\ pushed \in 0..Never
  /\ reloads \subseteq ReloadType

Types == ControlTypes /\ WorldTypes /\ RelayTypes

-----------------------------------------------------------------------------
(* Types                                                                   *)

LEMMA Constants ==
  /\ RestartLimit \in Nat /\ MaxDisturbances \in Nat /\ MaxEdits \in Nat
  /\ MaxLaunches \in Nat \ {0} /\ MaxLectures \in Nat \ {0}
  BY ChannelAssumption, EditsAssumption

LEMMA TypesAreTypeOK == Types <=> TypeOK
  BY DEF Types, TypeOK, ControlTypes, WorldTypes, RelayTypes, RecordType, Phase, EventType, ReloadType

(* The relay: what each of its operations does to the requests under way.  *)
LEMMA ReloadTypes ==
  ASSUME RelayTypes, NEW op \in {"activate", "deactivate", "refresh"}, NEW n \in Nat,
         NEW d \in 0..(MaxEdits + 1), Reload(op, n, d)
  PROVE  reloads' \subseteq ReloadType
  BY DEF RelayTypes, Reload, ReloadType

LEMMA RelayStepTypes ==
  ASSUME RelayTypes
  PROVE  /\ \A n \in Nat : Activate(n) \/ Deactivate(n) => RelayTypes'
         /\ EditTargets => RelayTypes'
         /\ \A r \in reloads : HelperApplies(r) \/ ReloadAnswered(r) \/ ReloadFails(r) => RelayTypes'
         /\ UNCHANGED relay => RelayTypes'
  <1>1. ASSUME NEW n \in Nat, Activate(n) PROVE RelayTypes'
    <2>1. Digest(TRUE, edition) \in 0..(MaxEdits + 1)
      BY Constants DEF Digest, RelayTypes
    <2> QED  BY <1>1, <2>1, ReloadTypes DEF Activate, RelayTypes
  <1>2. ASSUME NEW n \in Nat, Deactivate(n) PROVE RelayTypes'
    <2>1. Empty \in 0..(MaxEdits + 1)
      BY Constants DEF Empty
    <2> QED  BY <1>2, <2>1, ReloadTypes DEF Deactivate, RelayTypes
  <1>3. ASSUME EditTargets PROVE RelayTypes'
    <2>1. edition' \in 0..MaxEdits /\ edition' \in Nat /\ Digest(TRUE, edition') \in 0..(MaxEdits + 1)
      BY <1>3, Constants DEF EditTargets, Digest, RelayTypes
    <2>2. reloads' \subseteq ReloadType
      <3>1. CASE configured
        BY <1>3, <2>1, <3>1, ReloadTypes DEF EditTargets
      <3>2. CASE ~configured
        BY <1>3, <3>2 DEF EditTargets, RelayTypes
      <3> QED  BY <3>1, <3>2
    <2> QED  BY <1>3, <2>1, <2>2 DEF EditTargets, RelayTypes
  <1>4. ASSUME NEW r \in reloads, HelperApplies(r) \/ ReloadAnswered(r) \/ ReloadFails(r) PROVE RelayTypes'
    <2>1. /\ r \in ReloadType /\ r.digest \in 0..Never
          /\ [r EXCEPT !.at = "applied"] \in ReloadType
      BY Constants DEF RelayTypes, ReloadType, Never
    <2> QED  BY <1>4, <2>1 DEF HelperApplies, ReloadAnswered, ReloadFails, RelayTypes
  <1>5. ASSUME UNCHANGED relay PROVE RelayTypes'
    BY <1>5 DEF relay, RelayTypes
  <1> QED  BY <1>1, <1>2, <1>3, <1>4, <1>5

LEMMA DisturbanceTypes ==
  ASSUME WorldTypes
  PROVE  /\ Disturbance => disturbances' \in 0..MaxDisturbances
         /\ \A kind \in {"hasty", "overlap", "fault"} :
              Irregularity(kind) => /\ disturbances' \in 0..MaxDisturbances
                                    /\ irregular' = irregular \cup {kind}
                                    /\ irregular' \subseteq {"hasty", "overlap", "fault"}
         /\ NoteOverlap => irregular' \subseteq {"hasty", "overlap", "fault"}
  <1>1. Disturbance => disturbances' \in 0..MaxDisturbances
    BY Constants DEF WorldTypes, Disturbance
  <1>2. irregular \subseteq {"hasty", "overlap", "fault"}
    BY DEF WorldTypes
  <1> QED  BY <1>1, <1>2 DEF Irregularity, NoteOverlap

LEMMA HeadAndTail ==
  ASSUME WorldTypes, events # <<>>
  PROVE  /\ Head(events) \in EventType /\ Head(events).n \in Attempts /\ Tail(events) \in Seq(EventType)
         /\ Head(events) = events[1] /\ 1 \in 1..Len(events)
         /\ Len(events) \in Nat /\ Len(Tail(events)) = Len(events) - 1
         /\ \A i \in 1..Len(Tail(events)) : i + 1 \in 1..Len(events) /\ Tail(events)[i] = events[i + 1]
  <1>1. events \in Seq(EventType) /\ Len(events) \in Nat \ {0}
    BY EmptySeq, LenProperties DEF WorldTypes
  <1>2. Head(events) = events[1]
    BY <1>1
  <1>3. /\ Head(events) \in EventType /\ Tail(events) \in Seq(EventType)
        /\ Len(Tail(events)) = Len(events) - 1
        /\ \A i \in 1..Len(Tail(events)) : Tail(events)[i] = events[i + 1]
    BY <1>1, HeadTailProperties DEF WorldTypes
  <1>4. Head(events).n \in Attempts
    BY <1>3 DEF EventType
  <1> QED  BY <1>1, <1>2, <1>3, <1>4

LEMMA NewAttempt ==
  ASSUME ControlTypes, launches < MaxLaunches, launches' = launches + 1
  PROVE  launches' \in Attempts /\ launches' \in 0..MaxLaunches
  BY Constants DEF ControlTypes, Attempts

(* The fields of the record, and the zeroes they are reset to.             *)
LEMMA RecordFields ==
  ASSUME ControlTypes
  PROVE  /\ record \in RecordType
         /\ record.state \in {"off", "preflight", "starting", "on", "stopping", "failed"}
         /\ record.consumer \in 0..MaxLaunches /\ record.session \in 0..MaxLectures
         /\ record.disableRequested \in BOOLEAN /\ record.restarts \in 0..RestartLimit
  BY DEF ControlTypes, RecordType

LEMMA Zeroes == 0 \in 0..MaxLaunches /\ 0 \in 0..MaxLectures /\ 0 \in 0..RestartLimit
  BY Constants

LEMMA EnableTypes ==
  ASSUME Types, Enable
  PROVE  Types'
  <1>1. /\ launches' \in Attempts /\ launches' \in 0..MaxLaunches /\ launches' \in Nat
        /\ UNCHANGED <<disabling, channel, consumer, events, lecture, disturbances, open>>
    BY NewAttempt, Constants DEF Types, Enable, Room, world, Attempts
  <1>2. record' \in RecordType
    <2>1. lecture.last \in 0..MaxLectures /\ 0 \in 0..RestartLimit
      BY Constants DEF Types, WorldTypes
    <2> QED  BY <2>1 DEF Types, ControlTypes, RecordType, Enable
  <1>3. attempt' \in [Attempts -> Phase]
    BY <1>1 DEF Types, ControlTypes, Enable, Phase
  <1>4. RelayTypes' /\ irregular' \subseteq {"hasty", "overlap", "fault"}
    <2>1. RelayTypes /\ irregular \subseteq {"hasty", "overlap", "fault"}
      BY DEF Types, WorldTypes
    <2>2. UNCHANGED <<relay, irregular>> \/ (Activate(launches') /\ NoteOverlap)
      BY DEF Enable
    <2> QED  BY <1>1, <2>1, <2>2, RelayStepTypes, DisturbanceTypes DEF Types
  <1> QED  BY <1>1, <1>2, <1>3, <1>4 DEF Types, ControlTypes, WorldTypes

LEMMA DisableTypes ==
  ASSUME Types, Disable
  PROVE  Types'
  <1>1. UNCHANGED <<relay, launches, attempt, channel, consumer, events, lecture, open>>
    BY DEF Disable
  <1>2. irregular' \subseteq {"hasty", "overlap", "fault"} /\ disturbances' \in 0..MaxDisturbances
    <2>1. UNCHANGED <<irregular, disturbances>> \/ Irregularity("hasty")
      BY DEF Disable
    <2> QED  BY <2>1, DisturbanceTypes DEF Types, WorldTypes
  <1>3. record' \in RecordType
    <2>1. record \in RecordType
      BY RecordFields DEF Types
    <2>2. CASE record' = [record EXCEPT !.state = "off", !.consumer = 0, !.session = 0]
      BY <2>1, <2>2, Zeroes DEF RecordType
    <2>3. CASE record' = [record EXCEPT !.state = "off", !.session = 0]
      BY <2>1, <2>3, Zeroes DEF RecordType
    <2>4. CASE record' = [record EXCEPT !.state = "stopping", !.disableRequested = TRUE]
      BY <2>1, <2>4 DEF RecordType
    <2> QED  BY <2>2, <2>3, <2>4 DEF Disable
  <1>4. disabling' \subseteq Disables
    BY RecordFields DEF Types, ControlTypes, Disable, Disables
  <1> QED  BY <1>1, <1>2, <1>3, <1>4, RelayStepTypes DEF Types, ControlTypes, WorldTypes

LEMMA AttemptTypes ==
  ASSUME Types, NEW n \in Attempts, AttemptStep(n)
  PROVE  Types'
  <1>1. UNCHANGED <<relay, launches, disabling, channel, lecture, open>>
    BY DEF AttemptStep, PreflightPasses, AttemptFails, Launched, RaceTimesOut, Relaunch, ConsumerStarts,
           ConsumerRefused, AnswerLost, world
  <1>2. \E phase \in Phase : attempt' = [attempt EXCEPT ![n] = phase]
    BY DEF AttemptStep, PreflightPasses, AttemptFails, Launched, RaceTimesOut, Relaunch, ConsumerStarts,
           ConsumerRefused, AnswerLost, Phase
  <1>3. record' \in RecordType
    <2>1. record \in RecordType /\ n \in 0..MaxLaunches /\ 0 \in 0..MaxLaunches
      BY Constants DEF Types, ControlTypes, Attempts
    <2> QED  BY <2>1 DEF RecordType, AttemptStep, PreflightPasses, AttemptFails, Launched, RaceTimesOut, Relaunch,
                         ConsumerStarts, ConsumerRefused, AnswerLost, FailChannel
  <1>4. WorldTypes'
    <2>1. CASE ConsumerStarts(n)
      <3>1. [kind |-> "running", n |-> n] \in EventType
        BY DEF EventType
      <3>2. events' \in Seq(EventType)
        BY <2>1, <3>1, AppendProperties DEF ConsumerStarts, Types, WorldTypes
      <3> QED  BY <2>1, <3>2 DEF ConsumerStarts, Types, WorldTypes
    <2>2. CASE AnswerLost(n)
      BY <2>2, DisturbanceTypes DEF AnswerLost, Fault, Types, WorldTypes
    <2>3. CASE UNCHANGED <<world, open, irregular>>
      BY <2>3 DEF world, Types, WorldTypes
    <2> QED  BY <2>1, <2>2, <2>3 DEF AttemptStep, PreflightPasses, AttemptFails, Launched, RaceTimesOut, Relaunch,
                                     ConsumerRefused
  <1>5. attempt' \in [Attempts -> Phase]
    BY <1>2 DEF Types, ControlTypes
  <1> QED  BY <1>1, <1>3, <1>4, <1>5, RelayStepTypes DEF Types, ControlTypes

LEMMA HearTypes ==
  ASSUME Types, HearEvent
  PROVE  Types'
  <1> DEFINE e == Head(events)
  <1>1. e \in EventType /\ e.n \in Attempts /\ events' \in Seq(EventType)
        /\ UNCHANGED <<relay, disabling, channel, consumer, lecture, disturbances, irregular>>
    BY HeadAndTail DEF HearEvent, Types
  <1>2. \/ UNCHANGED <<record, launches, attempt, open>>
        \/ ConfirmOn(e.n)
        \/ Exited(e.n) /\ UNCHANGED open
    BY DEF HearEvent
  <1> HIDE DEF e
  <1>3. ControlTypes' /\ open' \in [Lectures -> Nat]
    <2>1. CASE UNCHANGED <<record, launches, attempt, open>>
      BY <1>1, <2>1 DEF Types, ControlTypes, WorldTypes
    <2>2. CASE ConfirmOn(e.n)
      <3>1. open' \in [Lectures -> Nat]
        <4>1. record.session # 0 => record.session \in Lectures
          BY RecordFields DEF Types, Lectures
        <4>2. \A s \in Lectures : open[s] + 1 \in Nat
          BY DEF Types, WorldTypes
        <4> QED  BY <2>2, <4>1, <4>2 DEF ConfirmOn, Types, WorldTypes
      <3>2. record' \in RecordType /\ attempt' \in [Attempts -> Phase]
        BY <2>2 DEF ConfirmOn, Types, ControlTypes, RecordType, Phase
      <3> QED  BY <1>1, <2>2, <3>1, <3>2 DEF ConfirmOn, Types, ControlTypes
    <2>3. CASE Exited(e.n) /\ UNCHANGED open
      <3>1. PICK used \in {record.restarts} \cup {0} :
              IF used >= RestartLimit
                THEN FailChannel /\ UNCHANGED <<launches, attempt>>
                ELSE /\ launches < MaxLaunches /\ launches' = launches + 1
                     /\ attempt' = [attempt EXCEPT ![launches'] = "backoff"]
                     /\ record' = [record EXCEPT !.state = "starting", !.consumer = 0, !.restarts = used + 1]
        BY <2>3 DEF Exited
      <3>2. used \in 0..RestartLimit /\ RestartLimit \in Nat
        BY RecordFields, Constants DEF Types
      <3>3. CASE used >= RestartLimit
        <4>1. record' \in RecordType
          BY <3>1, <3>3, Zeroes, RecordFields DEF FailChannel, Types, RecordType
        <4> QED  BY <1>1, <2>3, <3>1, <3>3, <4>1 DEF Types, ControlTypes, WorldTypes
      <3>4. CASE ~(used >= RestartLimit)
        <4>1. used + 1 \in 0..RestartLimit
          BY <3>2, <3>4
        <4>2. launches' \in Attempts /\ launches' \in 0..MaxLaunches
          BY <3>1, <3>4, NewAttempt DEF Types
        <4>3. record' \in RecordType
          BY <3>1, <3>4, <4>1, Zeroes, RecordFields DEF Types, RecordType
        <4>4. attempt' \in [Attempts -> Phase]
          BY <3>1, <3>4 DEF Types, ControlTypes, Phase
        <4> QED  BY <1>1, <2>3, <4>2, <4>3, <4>4 DEF Types, ControlTypes, WorldTypes
      <3> QED  BY <3>3, <3>4
    <2> QED  BY <1>2, <2>1, <2>2, <2>3
  <1> QED  BY <1>1, <1>3, RelayStepTypes DEF Types, WorldTypes

LEMMA DisableStepTypes ==
  ASSUME Types, NEW d \in disabling, DisableStep(d)
  PROVE  Types'
  <1>1. d \in Disables /\ [d EXCEPT !.at = "finish"] \in Disables
    BY DEF Types, ControlTypes, Disables
  <1>2. CASE StopAnswered(d)
    BY <1>1, <1>2, RelayStepTypes DEF StopAnswered, Types, ControlTypes, WorldTypes
  <1>3. CASE StopFails(d)
    BY <1>1, <1>3, RelayStepTypes, DisturbanceTypes DEF StopFails, Fault, Types, ControlTypes, WorldTypes
  <1>4. CASE FinishDisable(d)
    <2>1. /\ UNCHANGED <<launches, attempt, world>> /\ disabling' \subseteq Disables
          /\ launches \in Nat
      BY <1>4 DEF FinishDisable, Types, ControlTypes
    <2>2. RelayTypes' /\ irregular' \subseteq {"hasty", "overlap", "fault"}
      <3>1. UNCHANGED <<relay, irregular>> \/ (Deactivate(launches) /\ NoteOverlap)
        BY <1>4 DEF FinishDisable
      <3> QED  BY <2>1, <3>1, RelayStepTypes, DisturbanceTypes DEF Types, WorldTypes
    <2>3. record' \in RecordType
      BY <1>4, Zeroes, RecordFields DEF FinishDisable, Types, RecordType
    <2>4. open' \in [Lectures -> Nat]
      BY <1>4 DEF FinishDisable, Types, WorldTypes
    <2> QED  BY <2>1, <2>2, <2>3, <2>4 DEF Types, ControlTypes, WorldTypes, world
  <1> QED  BY <1>2, <1>3, <1>4 DEF DisableStep

LEMMA OtherTypes ==
  ASSUME Types
  PROVE  /\ \A n \in Attempts : ConsumerExits(n) => Types'
         /\ LoseEvent \/ Edit \/ LectureStarts \/ LectureEnds => Types'
         /\ \A r \in reloads : ReloadStep(r) => Types'
         /\ UNCHANGED vars => Types'
  <1>1. ASSUME NEW n \in Attempts, ConsumerExits(n) PROVE Types'
    <2>1. [kind |-> "exited", n |-> n] \in EventType
      BY DEF EventType
    <2>2. events' \in Seq(EventType)
      BY <1>1, <2>1, AppendProperties DEF ConsumerExits, Types, WorldTypes
    <2> QED  BY <1>1, <2>2, RelayStepTypes DEF ConsumerExits, control, Types, ControlTypes, WorldTypes
  <1>2. ASSUME LoseEvent PROVE Types'
    BY <1>2, HeadAndTail, RelayStepTypes, DisturbanceTypes DEF LoseEvent, Fault, control, Types, ControlTypes, WorldTypes
  <1>3. ASSUME Edit PROVE Types'
    <2>1. irregular' \subseteq {"hasty", "overlap", "fault"}
      BY <1>3, DisturbanceTypes DEF Edit, Types, WorldTypes
    <2> QED  BY <1>3, <2>1, RelayStepTypes, DisturbanceTypes DEF Edit, control, Types, ControlTypes, WorldTypes
  <1>4. ASSUME LectureStarts \/ LectureEnds PROVE Types'
    <2>1. lecture' \in [last : 0..MaxLectures, on : BOOLEAN]
      <3>1. lecture.last \in 0..MaxLectures /\ (lecture.last < MaxLectures => lecture.last + 1 \in 0..MaxLectures)
        BY Constants DEF Types, WorldTypes
      <3>2. lecture \in [last : 0..MaxLectures, on : BOOLEAN]
        BY DEF Types, WorldTypes
      <3>3. CASE LectureStarts
        BY <3>1, <3>3 DEF LectureStarts
      <3>4. CASE LectureEnds
        <4>1. lecture' = [lecture EXCEPT !.on = FALSE]
          BY <3>4 DEF LectureEnds
        <4> QED  BY <3>2, <4>1
      <3> QED  BY <1>4, <3>3, <3>4
    <2> QED  BY <1>4, <2>1, RelayStepTypes DEF LectureStarts, LectureEnds, control, Types, ControlTypes, WorldTypes
  <1>5. ASSUME NEW r \in reloads, ReloadStep(r) PROVE Types'
    <2>1. CASE Applies(r) \/ Answered(r)
      BY <2>1, RelayStepTypes DEF Applies, Answered, control, world, Types, ControlTypes, WorldTypes
    <2>2. CASE Fails(r)
      <3>1. attempt' \in [Attempts -> Phase]
        BY <2>2 DEF Fails, Types, ControlTypes, Phase
      <3> QED  BY <2>2, <3>1, RelayStepTypes, DisturbanceTypes DEF Fails, Fault, Types, ControlTypes, WorldTypes
    <2> QED  BY <1>5, <2>1, <2>2 DEF ReloadStep
  <1>6. ASSUME UNCHANGED vars PROVE Types'
    BY <1>6, RelayStepTypes DEF vars, control, world, Types, ControlTypes, WorldTypes
  <1> QED  BY <1>1, <1>2, <1>3, <1>4, <1>5, <1>6

LEMMA TypesStep ==
  ASSUME Types, [Next]_vars
  PROVE  Types'
  BY EnableTypes, DisableTypes, AttemptTypes, HearTypes, DisableStepTypes, OtherTypes DEF Next

LEMMA TypesInit == Init => Types
  <1> SUFFICES ASSUME Init PROVE Types
    OBVIOUS
  <1>1. RelayTypes
    <2>1. MaxEdits + 2 \in 0..(MaxEdits + 2) /\ 0 \in 0..(MaxEdits + 2) /\ 0 \in 0..MaxEdits
      BY Constants
    <2> QED  BY <2>1 DEF Init, RelayInit, RelayTypes, Never, Empty
  <1>2. ControlTypes
    BY Constants DEF Init, Off, ControlTypes, RecordType, Phase
  <1>3. WorldTypes
    BY Constants, EmptySeq DEF Init, WorldTypes
  <1> QED  BY <1>1, <1>2, <1>3 DEF Types

-----------------------------------------------------------------------------
(* Attempts and the requests to the helper are numbered                    *)

Before == {"none", "preflight", "backoff", "calling"}

(* No attempt is made before its time, and only one that calls the manager *)
(* is given a process, once.                                               *)
Made ==
  /\ \A n \in Attempts : n > launches => attempt[n] = "none"
  /\ \A n \in Attempts : attempt[n] \in Before => consumer[n] = "none"

Heard == \A i \in 1..Len(events) : events[i].kind = "exited" => consumer[events[i].n] = "down"

(* An activation belongs to an attempt that still waits in preflight.      *)
Activating ==
  /\ \A r \in reloads : r.op = "activate" => r.n \in 1..launches /\ attempt[r.n] = "preflight"
  /\ \A r, s \in reloads : r.op = "activate" /\ s.op = "activate" /\ r.n = s.n => r = s

Numbered == Made /\ Heard /\ Activating

LEMMA LaunchOf ==
  ASSUME Types, Made, NEW phase \in Phase, launches < MaxLaunches, launches' = launches + 1,
         attempt' = [attempt EXCEPT ![launches'] = phase]
  PROVE  /\ launches' \in Attempts /\ launches \in Nat
         /\ attempt[launches'] = "none" /\ consumer[launches'] = "none"
         /\ attempt'[launches'] = phase
         /\ \A n \in Attempts : n # launches' => attempt'[n] = attempt[n]
         /\ UNCHANGED consumer => Made'
  <1>1. launches' \in Attempts /\ launches \in Nat /\ launches' > launches
    BY NewAttempt DEF Types, ControlTypes
  <1>2. attempt[launches'] = "none" /\ consumer[launches'] = "none"
    BY <1>1 DEF Made, Before
  <1>3. attempt'[launches'] = phase /\ \A n \in Attempts : n # launches' => attempt'[n] = attempt[n]
    BY <1>1 DEF Types, ControlTypes
  <1>4. \A n \in Attempts : n > launches' => n > launches /\ n # launches'
    BY <1>1 DEF Attempts
  <1>5. ASSUME UNCHANGED consumer PROVE Made'
    BY <1>2, <1>3, <1>4, <1>5 DEF Made
  <1> QED  BY <1>1, <1>2, <1>3, <1>5

LEMMA SmallerNumbers ==
  ASSUME Types
  PROVE  /\ \A n \in 1..launches : n \in Attempts /\ n # launches + 1
         /\ \A n \in 1..launches : n \in 1..(launches + 1)
  BY Constants DEF Types, ControlTypes, Attempts

LEMMA EnableNumbered ==
  ASSUME Types, Numbered, Enable
  PROVE  Numbered'
  <1>1. /\ launches < MaxLaunches /\ launches' = launches + 1
        /\ UNCHANGED <<consumer, events>>
    BY DEF Enable, Room, world
  <1>2. PICK phase \in {"calling", "refused", "preflight"} :
          /\ attempt' = [attempt EXCEPT ![launches'] = phase]
          /\ UNCHANGED relay \/ (phase = "preflight" /\ Activate(launches'))
    BY DEF Enable
  <1>3. phase \in Phase
    BY DEF Phase
  <1>4. /\ Made' /\ attempt'[launches'] = phase /\ launches' \in Attempts /\ launches \in Nat
        /\ \A n \in Attempts : n # launches' => attempt'[n] = attempt[n]
    BY <1>1, <1>2, <1>3, LaunchOf DEF Numbered
  <1>5. Heard'
    BY <1>1 DEF Numbered, Heard
  <1>6. \A n \in 1..launches : n \in 1..launches' /\ attempt'[n] = attempt[n] /\ n # launches'
    BY <1>1, <1>4, SmallerNumbers
  <1>7. launches' \in 1..launches'
    BY <1>1, <1>4
  <1>8. Activating'
    <2>1. CASE UNCHANGED relay
      BY <1>6, <2>1 DEF relay, Numbered, Activating
    <2>2. CASE phase = "preflight" /\ Activate(launches')
      <3>1. PICK new : /\ new.op = "activate" /\ new.n = launches'
                       /\ \A r \in reloads' : r \in reloads \/ r = new
        <4>1. \A d : [op |-> "activate", n |-> launches', at |-> "sent", digest |-> d].op = "activate"
                     /\ [op |-> "activate", n |-> launches', at |-> "sent", digest |-> d].n = launches'
          OBVIOUS
        <4> QED  BY <2>2, <4>1 DEF Activate, Reload
      <3>2. \A r \in reloads : r.op = "activate" => r.n \in 1..launches' /\ attempt'[r.n] = "preflight" /\ r.n # launches'
        BY <1>6 DEF Numbered, Activating
      <3> QED  BY <1>4, <1>7, <2>2, <3>1, <3>2 DEF Numbered, Activating
    <2> QED  BY <1>2, <2>1, <2>2
  <1> QED  BY <1>4, <1>5, <1>8 DEF Numbered

LEMMA AttemptNumbered ==
  ASSUME Types, Numbered, NEW n \in Attempts, AttemptStep(n)
  PROVE  Numbered'
  <1> USE DEF AttemptStep, PreflightPasses, AttemptFails, Launched, RaceTimesOut, Relaunch, ConsumerStarts,
              ConsumerRefused, AnswerLost, world
  <1>1. /\ UNCHANGED <<launches, reloads>>
        /\ attempt[n] # "none"
        /\ \A r \in reloads : r.op = "activate" => r.n # n \/ attempt[n] # "preflight"
    BY DEF relay
  <1>2. PICK phase \in Phase \ {"none", "preflight", "backoff"} :
          /\ attempt' = [attempt EXCEPT ![n] = phase]
          /\ phase = "calling" => attempt[n] \in Before
          /\ ConsumerStarts(n) => phase = "called"
    BY DEF Phase, Before
  <1>3. attempt'[n] = phase /\ \A m \in Attempts : m # n => attempt'[m] = attempt[m]
    BY <1>2 DEF Types, ControlTypes
  <1>4. \/ /\ consumer' = [consumer EXCEPT ![n] = "up"] /\ attempt[n] = "calling"
           /\ events' = Append(events, [kind |-> "running", n |-> n])
        \/ UNCHANGED <<consumer, events>>
    OBVIOUS
  <1> HIDE DEF AttemptStep, PreflightPasses, AttemptFails, Launched, RaceTimesOut, Relaunch, ConsumerStarts,
               ConsumerRefused, AnswerLost, world
  <1>5. Activating'
    BY <1>1, <1>3, SmallerNumbers DEF Numbered, Activating
  <1>6. CASE UNCHANGED <<consumer, events>>
    <2>1. Made'
      BY <1>1, <1>2, <1>3, <1>6 DEF Numbered, Made, Before
    <2> QED  BY <1>5, <1>6, <2>1 DEF Numbered, Heard
  <1>7. CASE /\ consumer' = [consumer EXCEPT ![n] = "up"] /\ attempt[n] = "calling"
             /\ events' = Append(events, [kind |-> "running", n |-> n])
    <2>1. consumer[n] = "none" /\ \A m \in Attempts : m # n => consumer'[m] = consumer[m]
      BY <1>7 DEF Types, WorldTypes, Numbered, Made, Before
    <2>2. Made'
      <3>1. phase \notin Before
        BY <1>2, <1>7, <2>1 DEF AttemptStep, PreflightPasses, AttemptFails, Launched, RaceTimesOut, Relaunch,
                                ConsumerStarts, ConsumerRefused, AnswerLost, world, Types, WorldTypes, Before
      <3> QED  BY <1>1, <1>3, <2>1, <3>1 DEF Numbered, Made
    <2>3. /\ Len(events') = Len(events) + 1 /\ Len(events) \in Nat
          /\ \A i \in 1..Len(events) : events'[i] = events[i] /\ events[i].n \in Attempts
          /\ events'[Len(events) + 1].kind = "running"
      <3>1. events \in Seq(EventType) /\ [kind |-> "running", n |-> n] \in EventType
        BY DEF Types, WorldTypes, EventType
      <3>2. \A i \in 1..Len(events) : events[i].n \in Attempts
        <4>1. \A i \in 1..Len(events) : events[i] \in EventType
          BY <3>1, ElementOfSeq
        <4> QED  BY <4>1 DEF EventType
      <3> QED  BY <1>7, <3>1, <3>2, AppendProperties, LenProperties
    <2>4. Heard'
      BY <2>1, <2>3 DEF Numbered, Heard
    <2> QED  BY <1>5, <2>2, <2>4 DEF Numbered
  <1> QED  BY <1>4, <1>6, <1>7

LEMMA HearNumbered ==
  ASSUME Types, Numbered, HearEvent
  PROVE  Numbered'
  <1> DEFINE e == Head(events)
  <1>1. /\ UNCHANGED <<reloads, consumer>> /\ events' = Tail(events) /\ events # <<>>
        /\ e.n \in Attempts
    BY HeadAndTail DEF HearEvent, relay, Types
  <1>2. Heard'
    BY <1>1, HeadAndTail DEF Types, Numbered, Heard
  <1>3. \/ UNCHANGED <<launches, attempt>>
        \/ attempt[e.n] = "racing" /\ attempt' = [attempt EXCEPT ![e.n] = "done"] /\ UNCHANGED launches
        \/ /\ launches < MaxLaunches /\ launches' = launches + 1
           /\ attempt' = [attempt EXCEPT ![launches'] = "backoff"]
    BY DEF HearEvent, Concerns, ConfirmOn, Exited
  <1> HIDE DEF e
  <1>4. CASE UNCHANGED <<launches, attempt>>
    BY <1>1, <1>2, <1>4 DEF Numbered, Made, Activating
  <1>5. CASE attempt[e.n] = "racing" /\ attempt' = [attempt EXCEPT ![e.n] = "done"] /\ UNCHANGED launches
    <2>1. attempt'[e.n] = "done" /\ \A m \in Attempts : m # e.n => attempt'[m] = attempt[m]
      BY <1>1, <1>5 DEF Types, ControlTypes
    <2>2. Made'
      BY <1>1, <1>5, <2>1 DEF Numbered, Made, Before
    <2>3. Activating'
      BY <1>1, <1>5, <2>1, SmallerNumbers DEF Numbered, Activating
    <2> QED  BY <1>2, <2>2, <2>3 DEF Numbered
  <1>6. CASE /\ launches < MaxLaunches /\ launches' = launches + 1
             /\ attempt' = [attempt EXCEPT ![launches'] = "backoff"]
    <2>1. "backoff" \in Phase
      BY DEF Phase
    <2>2. Made' /\ \A m \in Attempts : m # launches' => attempt'[m] = attempt[m]
      BY <1>1, <1>6, <2>1, LaunchOf DEF Numbered
    <2>3. Activating'
      BY <1>1, <1>6, <2>2, SmallerNumbers DEF Numbered, Activating
    <2> QED  BY <1>2, <2>2, <2>3 DEF Numbered
  <1> QED  BY <1>3, <1>4, <1>5, <1>6

(* A process that ends, by itself or because it is stopped, was running.   *)
LEMMA EndsNumbered ==
  ASSUME Types, Made, NEW n, consumer[n] = "up",
         consumer' = [consumer EXCEPT ![n] = "down"], UNCHANGED <<launches, attempt>>
  PROVE  Made' /\ \A m \in Attempts : consumer[m] = "down" => consumer'[m] = "down"
  <1>1. \A m \in Attempts : consumer'[m] = consumer[m] \/ (m = n /\ consumer'[m] = "down")
    BY DEF Types, WorldTypes
  <1> QED  BY <1>1 DEF Made

LEMMA EventsOf ==
  ASSUME Types
  PROVE  \A i \in 1..Len(events) : events[i] \in EventType /\ events[i].n \in Attempts
  <1>1. \A i \in 1..Len(events) : events[i] \in EventType
    BY ElementOfSeq DEF Types, WorldTypes
  <1> QED  BY <1>1 DEF EventType

LEMMA ExitsNumbered ==
  ASSUME Types, Numbered, NEW n \in Attempts, ConsumerExits(n)
  PROVE  Numbered'
  <1>1. /\ consumer[n] = "up" /\ consumer' = [consumer EXCEPT ![n] = "down"]
        /\ events' = Append(events, [kind |-> "exited", n |-> n])
        /\ UNCHANGED <<launches, attempt, reloads>>
    BY DEF ConsumerExits, relay, control
  <1>2. Made' /\ \A m \in Attempts : consumer[m] = "down" => consumer'[m] = "down"
    BY <1>1, EndsNumbered DEF Numbered
  <1>3. consumer'[n] = "down"
    BY <1>1 DEF Types, WorldTypes
  <1>4. /\ Len(events') = Len(events) + 1 /\ Len(events) \in Nat
        /\ \A i \in 1..Len(events) : events'[i] = events[i]
        /\ events'[Len(events) + 1].n = n
    <2>1. events \in Seq(EventType) /\ [kind |-> "exited", n |-> n] \in EventType
      BY DEF Types, WorldTypes, EventType
    <2> QED  BY <1>1, <2>1, AppendProperties, LenProperties
  <1>5. Heard'
    BY <1>2, <1>3, <1>4, EventsOf DEF Numbered, Heard
  <1> QED  BY <1>1, <1>2, <1>5 DEF Numbered, Activating

LEMMA DisableStepNumbered ==
  ASSUME Types, Numbered, NEW d \in disabling, DisableStep(d)
  PROVE  Numbered'
  <1>1. UNCHANGED <<launches, attempt, events>>
    BY DEF DisableStep, StopAnswered, StopFails, FinishDisable, world
  <1>2. \/ UNCHANGED consumer
        \/ consumer[d.consumer] = "up" /\ consumer' = [consumer EXCEPT ![d.consumer] = "down"]
    BY DEF DisableStep, StopAnswered, StopFails, FinishDisable, world
  <1>3. Made' /\ Heard'
    <2>1. CASE UNCHANGED consumer
      BY <1>1, <2>1 DEF Numbered, Made, Heard
    <2>2. CASE consumer[d.consumer] = "up" /\ consumer' = [consumer EXCEPT ![d.consumer] = "down"]
      BY <1>1, <2>2, EndsNumbered, EventsOf DEF Numbered, Heard
    <2> QED  BY <1>2, <2>1, <2>2
  <1>4. \A r \in reloads' : r \in reloads \/ r.op = "deactivate"
    BY DEF DisableStep, StopAnswered, StopFails, FinishDisable, relay, Deactivate, Reload
  <1>5. Activating'
    BY <1>1, <1>4 DEF Numbered, Activating
  <1> QED  BY <1>3, <1>5 DEF Numbered

LEMMA ReloadStepNumbered ==
  ASSUME Types, Numbered, NEW r \in reloads, ReloadStep(r)
  PROVE  Numbered'
  <1>1. UNCHANGED <<launches, consumer, events>>
    BY DEF ReloadStep, Applies, Answered, Fails, control, world
  <1>2. CASE Applies(r)
    <2> DEFINE new == [r EXCEPT !.at = "applied"]
    <2>1. new.op = r.op /\ new.n = r.n
      BY DEF Types, RelayTypes, ReloadType
    <2>2. UNCHANGED attempt /\ reloads' = (reloads \ {r}) \cup {new}
      BY <1>2 DEF Applies, HelperApplies, control
    <2> HIDE DEF new
    <2>3. Activating'
      BY <1>1, <2>1, <2>2 DEF Numbered, Activating
    <2> QED  BY <1>1, <2>2, <2>3 DEF Numbered, Made, Heard
  <1>3. CASE Answered(r)
    BY <1>1, <1>3 DEF Answered, ReloadAnswered, control, Numbered, Made, Heard, Activating
  <1>4. CASE Fails(r)
    <2>1. reloads' = reloads \ {r}
      BY <1>4 DEF Fails, ReloadFails
    <2>2. CASE r.op = "activate"
      <3>1. r.n \in 1..launches /\ attempt[r.n] = "preflight" /\ r.n \in Attempts
            /\ \A s \in reloads' : s.op = "activate" => s.n # r.n
        BY <2>1, <2>2, SmallerNumbers DEF Numbered, Activating
      <3>2. attempt' = [attempt EXCEPT ![r.n] = "refused"]
        BY <1>4, <2>2 DEF Fails
      <3>3. attempt'[r.n] = "refused" /\ \A m \in Attempts : m # r.n => attempt'[m] = attempt[m]
        BY <3>1, <3>2 DEF Types, ControlTypes
      <3>4. Made'
        BY <1>1, <3>1, <3>3 DEF Numbered, Made, Before
      <3>5. Activating'
        BY <1>1, <2>1, <3>1, <3>3, SmallerNumbers DEF Numbered, Activating
      <3> QED  BY <1>1, <3>4, <3>5 DEF Numbered, Heard
    <2>3. CASE r.op # "activate"
      <3>1. UNCHANGED attempt
        BY <1>4, <2>3 DEF Fails
      <3> QED  BY <1>1, <2>1, <3>1 DEF Numbered, Made, Heard, Activating
    <2> QED  BY <2>2, <2>3
  <1> QED  BY <1>2, <1>3, <1>4 DEF ReloadStep

LEMMA OthersNumbered ==
  ASSUME Types, Numbered, Disable \/ LoseEvent \/ Edit \/ LectureStarts \/ LectureEnds \/ UNCHANGED vars
  PROVE  Numbered'
  <1>1. UNCHANGED <<launches, attempt, consumer>>
    BY DEF Disable, LoseEvent, Edit, LectureStarts, LectureEnds, vars, control, world
  <1>2. \A r \in reloads' : r \in reloads \/ r.op = "refresh"
    <2>1. CASE UNCHANGED reloads
      BY <2>1
    <2>2. CASE Edit
      <3>1. \A n, d : [op |-> "refresh", n |-> n, at |-> "sent", digest |-> d].op = "refresh"
        OBVIOUS
      <3> QED  BY <2>2, <3>1 DEF Edit, EditTargets, Reload
    <2> QED  BY <2>1, <2>2 DEF Disable, LoseEvent, LectureStarts, LectureEnds, vars, relay
  <1>3. Made' /\ Activating'
    BY <1>1, <1>2 DEF Numbered, Made, Activating
  <1>4. Heard'
    <2>1. CASE LoseEvent
      BY <1>1, <2>1, HeadAndTail DEF LoseEvent, Types, Numbered, Heard
    <2>2. CASE UNCHANGED events
      BY <1>1, <2>2 DEF Numbered, Heard
    <2> QED  BY <2>1, <2>2 DEF Disable, Edit, LectureStarts, LectureEnds, vars, world
  <1> QED  BY <1>3, <1>4 DEF Numbered

LEMMA NumberedStep ==
  ASSUME Types, Numbered, [Next]_vars
  PROVE  Numbered'
  BY EnableNumbered, AttemptNumbered, HearNumbered, ExitsNumbered, DisableStepNumbered, ReloadStepNumbered,
     OthersNumbered DEF Next

-----------------------------------------------------------------------------
(* The one attempt under way                                               *)

Phases == {"preflight", "backoff", "calling", "called", "refused", "racing"}
Coming == {"preflight", "starting"}

Regular == "hasty" \notin irregular

Sole ==
  /\ \A n \in Attempts : attempt[n] \in Phases <=> record.state \in Coming /\ n = launches
  /\ record.state \in Coming => launches \in Attempts /\ record.consumer \in {0, launches}
  /\ record.state \in {"on", "stopping"} =>
       record.consumer = launches /\ launches \in Attempts /\ attempt[launches] = "done"
  /\ record.state \in {"off", "failed", "preflight"} => record.consumer = 0
  /\ \A n \in Attempts : attempt[n] = "preflight" => record.state = "preflight"
  /\ \A n \in Attempts : attempt[n] = "racing" => record.consumer = n
  /\ record.state = "preflight" => attempt[launches] \in {"preflight", "refused"} /\ ~record.disableRequested
  /\ \A d \in disabling : d.consumer \in Attempts /\ attempt[d.consumer] = "done"

SoleWhenRegular == Regular => Sole

LEMMA EnableSole ==
  ASSUME Types, Made, Sole, Enable
  PROVE  Sole'
  <1>1. /\ launches < MaxLaunches /\ launches' = launches + 1 /\ UNCHANGED disabling
        /\ record.state = "off" /\ record.consumer = 0
    BY DEF Enable, Room, Sole
  <1>2. PICK phase \in {"calling", "refused", "preflight"} :
          /\ attempt' = [attempt EXCEPT ![launches'] = phase]
          /\ phase = "calling" <=> channel = "meeting"
    BY DEF Enable
  <1>3. /\ record'.state = IF channel = "streaming" THEN "preflight" ELSE "starting"
        /\ record'.consumer = 0 /\ ~record'.disableRequested
    BY <1>1 DEF Enable, Types, ControlTypes, RecordType
  <1>4. channel \in {"meeting", "streaming"}
    BY DEF Types, WorldTypes
  <1>5. phase \in Phase
    BY DEF Phase
  <1>6. /\ launches' \in Attempts /\ attempt'[launches'] = phase /\ attempt[launches'] = "none"
        /\ \A n \in Attempts : n # launches' => attempt'[n] = attempt[n]
    BY <1>1, <1>2, <1>5, LaunchOf
  <1>7. \A n \in Attempts : attempt[n] \notin Phases
    BY <1>1 DEF Sole, Coming
  <1>8. \A n \in Attempts : attempt'[n] \in Phases <=> n = launches'
    BY <1>6, <1>7 DEF Phases
  <1>9. \A d \in disabling : d.consumer \in Attempts /\ attempt'[d.consumer] = "done"
    BY <1>6 DEF Sole
  <1> QED  BY <1>1, <1>2, <1>3, <1>4, <1>6, <1>7, <1>8, <1>9 DEF Sole, Coming, Phases

LEMMA DisableSole ==
  ASSUME Types, Sole, Disable, Regular'
  PROVE  Sole'
  <1>1. record.state \notin Coming /\ UNCHANGED <<launches, attempt>>
    BY DEF Disable, Irregularity, Regular, Coming
  <1>2. CASE record.state = "failed"
    <2>1. record'.state = "off" /\ record'.consumer = 0 /\ UNCHANGED disabling
      BY <1>2 DEF Disable, Types, ControlTypes, RecordType
    <2> QED  BY <1>1, <1>2, <2>1 DEF Sole, Coming, Phases
  <1>3. CASE record.state \in {"on", "stopping"}
    <2>1. /\ record'.state = "stopping" /\ record'.consumer = record.consumer
          /\ \E at : disabling' = disabling \cup {[consumer |-> record.consumer, at |-> at]}
      BY <1>3 DEF Disable, Types, ControlTypes, RecordType
    <2>2. \A d \in disabling' : d \in disabling \/ d.consumer = launches
      BY <1>3, <2>1 DEF Sole
    <2> QED  BY <1>1, <1>3, <2>1, <2>2 DEF Sole, Coming, Phases
  <1> QED  BY <1>1, <1>2, <1>3, RecordFields DEF Disable, Coming, Types

(* The attempt under way moves on, or ends and the channel fails.          *)
LEMMA AttemptSole ==
  ASSUME Types, Sole, NEW n \in Attempts, AttemptStep(n)
  PROVE  Sole'
  <1> USE DEF AttemptStep, PreflightPasses, AttemptFails, Launched, RaceTimesOut, Relaunch, ConsumerStarts,
              ConsumerRefused, AnswerLost
  <1>1. attempt[n] \in Phases /\ UNCHANGED <<launches, disabling>>
    BY DEF Phases
  <1>2. /\ n = launches /\ record.state \in Coming
        /\ attempt[n] \notin {"preflight", "refused"} => record.state = "starting"
        /\ attempt[n] = "preflight" => record.state = "preflight" /\ ~record.disableRequested
        /\ record.state = "preflight" => ~record.disableRequested
    BY <1>1 DEF Sole, Coming
  <1>3. \E phase \in Phase : attempt' = [attempt EXCEPT ![n] = phase]
    BY DEF Phase
  <1>4. \A m \in Attempts : m # n => attempt'[m] = attempt[m]
    BY <1>3 DEF Types, ControlTypes
  <1>5. \/ attempt' = [attempt EXCEPT ![n] = "calling"] /\ record' = [record EXCEPT !.state = "starting"]
        \/ /\ attempt' = [attempt EXCEPT ![n] = "done"] \/ attempt' = [attempt EXCEPT ![n] = "timedout"]
           /\ FailChannel
        \/ attempt' = [attempt EXCEPT ![n] = "racing"] /\ record' = [record EXCEPT !.consumer = n] /\ record.state = "starting"
        \/ /\ \E phase \in {"calling", "called", "refused"} : attempt' = [attempt EXCEPT ![n] = phase]
           /\ UNCHANGED record /\ record.state = "starting"
    BY <1>2
  <1> HIDE DEF AttemptStep, PreflightPasses, AttemptFails, Launched, RaceTimesOut, Relaunch, ConsumerStarts,
               ConsumerRefused, AnswerLost
  <1>6. \/ attempt'[n] \in {"calling", "called", "refused"} /\ record'.state = "starting" /\ record'.consumer = record.consumer
        \/ attempt'[n] \in {"done", "timedout"} /\ record'.state = "failed" /\ record'.consumer = 0
        \/ attempt'[n] = "racing" /\ record'.state = "starting" /\ record'.consumer = n
    <2>1. \A phase : attempt' = [attempt EXCEPT ![n] = phase] => attempt'[n] = phase
      BY DEF Types, ControlTypes
    <2>2. CASE attempt' = [attempt EXCEPT ![n] = "calling"] /\ record' = [record EXCEPT !.state = "starting"]
      <3>1. record'.state = "starting" /\ record'.consumer = record.consumer
        BY <2>2, RecordFields DEF Types, RecordType
      <3> QED  BY <2>1, <2>2, <3>1
    <2>3. CASE /\ attempt' = [attempt EXCEPT ![n] = "done"] \/ attempt' = [attempt EXCEPT ![n] = "timedout"]
               /\ FailChannel
      <3>1. record'.state = "failed" /\ record'.consumer = 0
        BY <2>3, RecordFields DEF FailChannel, Types, RecordType
      <3> QED  BY <2>1, <2>3, <3>1
    <2>4. CASE attempt' = [attempt EXCEPT ![n] = "racing"] /\ record' = [record EXCEPT !.consumer = n] /\ record.state = "starting"
      <3>1. record'.state = "starting" /\ record'.consumer = n
        BY <2>4, RecordFields DEF Types, RecordType
      <3> QED  BY <2>1, <2>4, <3>1
    <2>5. CASE /\ \E phase \in {"calling", "called", "refused"} : attempt' = [attempt EXCEPT ![n] = phase]
               /\ UNCHANGED record /\ record.state = "starting"
      BY <2>1, <2>5
    <2> QED  BY <1>5, <2>2, <2>3, <2>4, <2>5
  <1>7. \A m \in Attempts : m # n => attempt[m] \notin Phases
    BY <1>2 DEF Sole
  <1>8. \A d \in disabling : d.consumer \in Attempts /\ attempt'[d.consumer] = "done"
    BY <1>1, <1>4 DEF Sole, Phases
  <1>9. \A m \in Attempts : attempt'[m] \in Phases <=> record'.state \in Coming /\ m = launches
    BY <1>2, <1>4, <1>6, <1>7 DEF Phases, Coming
  <1>10. /\ \A m \in Attempts : attempt'[m] # "preflight"
         /\ \A m \in Attempts : attempt'[m] = "racing" => record'.consumer = m
    BY <1>4, <1>6, <1>7 DEF Phases
  <1>11. record.consumer \in {0, launches} /\ launches \in Attempts
    BY <1>2 DEF Sole
  <1> QED  BY <1>1, <1>2, <1>6, <1>8, <1>9, <1>10, <1>11 DEF Sole, Coming

LEMMA HearSole ==
  ASSUME Types, Made, Sole, HearEvent
  PROVE  Sole'
  <1> DEFINE e == Head(events)
  <1>1. UNCHANGED disabling /\ e.n \in Attempts
    BY HeadAndTail DEF HearEvent, Types
  <1>2. \/ UNCHANGED <<record, launches, attempt>>
        \/ attempt[e.n] = "racing" /\ ConfirmOn(e.n)
        \/ record.state = "on" /\ record.consumer = e.n /\ Exited(e.n)
    BY DEF HearEvent, Concerns
  <1> HIDE DEF e
  <1>3. CASE UNCHANGED <<record, launches, attempt>>
    BY <1>1, <1>3 DEF Sole
  <1>4. CASE attempt[e.n] = "racing" /\ ConfirmOn(e.n)
    <2>1. /\ attempt'[e.n] = "done" /\ \A m \in Attempts : m # e.n => attempt'[m] = attempt[m]
          /\ record'.state = "on" /\ record'.consumer = record.consumer /\ UNCHANGED launches
      BY <1>1, <1>4 DEF ConfirmOn, Types, ControlTypes, RecordType
    <2>2. e.n = launches /\ record.consumer = launches
      BY <1>1, <1>4 DEF Sole, Phases
    <2>3. \A m \in Attempts : attempt'[m] \notin Phases
      BY <2>1, <2>2 DEF Sole, Phases
    <2>4. \A d \in disabling : d.consumer \in Attempts /\ attempt'[d.consumer] = "done"
      BY <2>1 DEF Sole
    <2> QED  BY <1>1, <2>1, <2>2, <2>3, <2>4 DEF Sole, Coming, Phases
  <1>5. CASE record.state = "on" /\ record.consumer = e.n /\ Exited(e.n)
    <2>1. \A m \in Attempts : attempt[m] \notin Phases
      BY <1>5 DEF Sole, Coming
    <2>2. CASE FailChannel /\ UNCHANGED <<launches, attempt>>
      <3>1. record'.state = "failed" /\ record'.consumer = 0
        BY <2>2, RecordFields DEF FailChannel, Types, RecordType
      <3> QED  BY <1>1, <2>1, <2>2, <3>1 DEF Sole, Coming, Phases
    <2>3. CASE /\ launches < MaxLaunches /\ launches' = launches + 1
               /\ attempt' = [attempt EXCEPT ![launches'] = "backoff"]
               /\ \E used : record' = [record EXCEPT !.state = "starting", !.consumer = 0, !.restarts = used + 1]
      <3>1. record'.state = "starting" /\ record'.consumer = 0
        BY <2>3, RecordFields DEF Types, RecordType
      <3>2. "backoff" \in Phase
        BY DEF Phase
      <3>3. /\ launches' \in Attempts /\ attempt'[launches'] = "backoff" /\ attempt[launches'] = "none"
            /\ \A m \in Attempts : m # launches' => attempt'[m] = attempt[m]
        BY <2>3, <3>2, LaunchOf
      <3>4. \A d \in disabling : d.consumer \in Attempts /\ attempt'[d.consumer] = "done"
        BY <3>3 DEF Sole
      <3>5. \A m \in Attempts : attempt'[m] \in Phases <=> m = launches'
        BY <2>1, <3>3 DEF Phases
      <3>6. \A m \in Attempts : attempt'[m] \notin {"preflight", "racing"}
        BY <2>1, <3>3 DEF Phases
      <3> QED  BY <1>1, <3>1, <3>3, <3>4, <3>5, <3>6 DEF Sole, Coming
    <2> QED  BY <1>5, <2>2, <2>3 DEF Exited
  <1> QED  BY <1>2, <1>3, <1>4, <1>5

(* A finish acts only on a channel that is on or stopping.                 *)
LEMMA FinishActs ==
  ASSUME Types, Sole, NEW d \in disabling, record.consumer = d.consumer
  PROVE  record.state \in {"on", "stopping"}
  <1>1. record.consumer \in Attempts /\ attempt[record.consumer] = "done" /\ record.consumer # 0
    BY Constants DEF Sole, Attempts
  <1>2. record.state \notin {"off", "failed", "preflight"}
    BY <1>1 DEF Sole
  <1>3. record.state # "starting"
    <2> SUFFICES ASSUME record.state = "starting" PROVE FALSE
      OBVIOUS
    <2>1. record.consumer = launches
      BY <1>1 DEF Sole, Coming
    <2> QED  BY <1>1, <2>1 DEF Sole, Coming, Phases
  <1> QED  BY <1>2, <1>3, RecordFields DEF Types

LEMMA DisableStepSole ==
  ASSUME Types, Sole, NEW d \in disabling, DisableStep(d)
  PROVE  Sole'
  <1>1. UNCHANGED <<launches, attempt>>
    BY DEF DisableStep, StopAnswered, StopFails, FinishDisable
  <1>2. \A c \in disabling' : c \in disabling \/ c.consumer = d.consumer
    <2>1. [d EXCEPT !.at = "finish"].consumer = d.consumer
      BY DEF Types, ControlTypes, Disables
    <2> QED  BY <2>1 DEF DisableStep, StopAnswered, StopFails, FinishDisable
  <1>3. \A c \in disabling' : c.consumer \in Attempts /\ attempt'[c.consumer] = "done"
    BY <1>1, <1>2 DEF Sole
  <1>4. CASE UNCHANGED record
    BY <1>1, <1>3, <1>4 DEF Sole
  <1>5. CASE FinishDisable(d) /\ record.consumer = d.consumer
    <2>1. record'.state = "off" /\ record'.consumer = 0
      BY <1>5, RecordFields DEF FinishDisable, Types, RecordType
    <2>2. \A m \in Attempts : attempt[m] \notin Phases
      BY <1>5, FinishActs DEF Sole, Coming
    <2> QED  BY <1>1, <1>3, <2>1, <2>2 DEF Sole, Coming, Phases
  <1> QED  BY <1>4, <1>5 DEF DisableStep, StopAnswered, StopFails, FinishDisable

LEMMA FailsSole ==
  ASSUME Types, Activating, Sole, NEW r \in reloads, Fails(r)
  PROVE  Sole'
  <1>1. UNCHANGED <<record, launches, disabling>>
    BY DEF Fails
  <1>2. CASE r.op = "activate"
    <2>1. r.n \in Attempts /\ attempt[r.n] = "preflight" /\ r.n = launches /\ record.state = "preflight"
      BY <1>2, SmallerNumbers DEF Activating, Sole, Phases
    <2>2. attempt'[r.n] = "refused" /\ \A m \in Attempts : m # r.n => attempt'[m] = attempt[m]
      BY <1>2, <2>1 DEF Fails, Types, ControlTypes
    <2>3. \A d \in disabling : d.consumer \in Attempts /\ attempt'[d.consumer] = "done"
      BY <2>1, <2>2 DEF Sole
    <2>4. \A m \in Attempts : attempt'[m] \in Phases <=> attempt[m] \in Phases
      BY <2>1, <2>2 DEF Phases
    <2>5. \A m \in Attempts : attempt'[m] \in {"preflight", "racing"} => attempt[m] = attempt'[m]
      BY <2>2
    <2> QED  BY <1>1, <2>1, <2>2, <2>3, <2>4, <2>5 DEF Sole, Coming
  <1>3. CASE r.op # "activate"
    <2>1. UNCHANGED attempt
      BY <1>3 DEF Fails
    <2> QED  BY <1>1, <2>1 DEF Sole
  <1> QED  BY <1>2, <1>3

LEMMA SoleStep ==
  ASSUME Types, Numbered, SoleWhenRegular, [Next]_vars
  PROVE  SoleWhenRegular'
  <1> SUFFICES ASSUME Regular' PROVE Sole'
    BY DEF SoleWhenRegular
  <1>1. irregular \subseteq irregular'
    BY DEF Next, vars, Enable, Disable, AttemptStep, PreflightPasses, AttemptFails, Launched, RaceTimesOut, Relaunch,
           ConsumerStarts, ConsumerRefused, AnswerLost, ConsumerExits, HearEvent, LoseEvent, DisableStep,
           StopAnswered, StopFails, FinishDisable, ReloadStep, Applies, Answered, Fails, Edit, LectureStarts,
           LectureEnds, NoteOverlap, Irregularity, Fault
  <1>2. Sole
    BY <1>1 DEF SoleWhenRegular, Regular
  <1>3. ASSUME UNCHANGED control PROVE Sole'
    BY <1>2, <1>3 DEF control, Sole
  <1>4. ASSUME NEW n \in Attempts, ConsumerExits(n) PROVE Sole'
    BY <1>3, <1>4 DEF ConsumerExits
  <1>5. ASSUME NEW r \in reloads, ReloadStep(r) PROVE Sole'
    <2>1. CASE Applies(r) \/ Answered(r)
      BY <1>3, <2>1 DEF Applies, Answered
    <2>2. CASE Fails(r)
      BY <1>2, <2>2, FailsSole DEF Numbered
    <2> QED  BY <1>5, <2>1, <2>2 DEF ReloadStep
  <1>6. CASE LoseEvent \/ Edit \/ LectureStarts \/ LectureEnds \/ UNCHANGED vars
    BY <1>3, <1>6 DEF LoseEvent, Edit, LectureStarts, LectureEnds, vars
  <1> QED  BY <1>2, <1>4, <1>5, <1>6, EnableSole, DisableSole, AttemptSole, HearSole, DisableStepSole DEF Next, Numbered

-----------------------------------------------------------------------------
(* Whose process runs                                                      *)

Quiet == irregular \subseteq {"overlap"}

Live(n) ==
  \/ attempt[n] = "timedout" \/ attempt[n] \in Phases
  \/ record.consumer = n /\ record.state \in {"on", "stopping"}

Stopped ==
  /\ \A n \in Attempts : attempt[n] = "refused" => consumer[n] = "none"
  /\ \A d \in disabling : d.at = "finish" => consumer[d.consumer] # "up"
  /\ \A n \in Attempts : consumer[n] = "up" => Live(n)

StoppedWhenQuiet == Quiet => Stopped

(* What the machine does not provide for stays with it.                    *)
LEMMA Remembered ==
  ASSUME [Next]_vars
  PROVE  /\ irregular \subseteq irregular'
         /\ LoseEvent \/ (\E n \in Attempts : AnswerLost(n)) \/ (\E d \in disabling : StopFails(d))
              \/ (\E r \in reloads : Fails(r)) => "fault" \in irregular'
  BY DEF Next, vars, Enable, Disable, AttemptStep, PreflightPasses, AttemptFails, Launched, RaceTimesOut, Relaunch,
         ConsumerStarts, ConsumerRefused, AnswerLost, ConsumerExits, HearEvent, LoseEvent, DisableStep,
         StopAnswered, StopFails, FinishDisable, ReloadStep, Applies, Answered, Fails, Edit, LectureStarts,
         LectureEnds, NoteOverlap, Irregularity, Fault

LEMMA EnableStopped ==
  ASSUME Types, Made, Sole, Stopped, Enable
  PROVE  Stopped'
  <1>1. /\ launches < MaxLaunches /\ launches' = launches + 1 /\ UNCHANGED <<disabling, consumer>>
        /\ record.state = "off"
    BY DEF Enable, Room, world
  <1>2. PICK phase \in Phases : attempt' = [attempt EXCEPT ![launches'] = phase]
    BY DEF Enable, Phases
  <1>3. phase \in Phase
    BY DEF Phase, Phases
  <1>4. /\ consumer[launches'] = "none" /\ attempt'[launches'] = phase
        /\ \A n \in Attempts : n # launches' => attempt'[n] = attempt[n]
    BY <1>1, <1>2, <1>3, LaunchOf
  <1>5. \A n \in Attempts : consumer[n] = "up" => n # launches' /\ attempt[n] = "timedout"
    BY <1>1, <1>4 DEF Sole, Coming, Stopped, Live
  <1> QED  BY <1>1, <1>4, <1>5 DEF Stopped, Live

LEMMA DisableStopped ==
  ASSUME Types, Sole, Stopped, Disable, Regular'
  PROVE  Stopped'
  <1>1. record.state \notin Coming /\ UNCHANGED <<attempt, consumer>>
    BY DEF Disable, Irregularity, Regular, Coming
  <1>2. \A n \in Attempts : attempt[n] \notin Phases
    BY <1>1 DEF Sole
  <1>3. CASE record.state = "failed"
    <2>1. UNCHANGED disabling
      BY <1>3 DEF Disable
    <2> QED  BY <1>1, <1>2, <1>3, <2>1 DEF Stopped, Live
  <1>4. CASE record.state \in {"on", "stopping"}
    <2>1. record'.state = "stopping" /\ record'.consumer = record.consumer
      BY <1>4, RecordFields DEF Disable, Types, RecordType
    <2>2. record.consumer # 0
      BY <1>4, Constants DEF Sole, Attempts
    <2>3. disabling' = disabling \cup {[consumer |-> record.consumer, at |-> "call"]}
      BY <1>4, <2>2 DEF Disable
    <2>4. \A d \in disabling' : d.at = "finish" => d \in disabling
      BY <2>3
    <2> QED  BY <1>1, <1>4, <2>1, <2>4 DEF Stopped, Live
  <1> QED  BY <1>1, <1>3, <1>4, RecordFields DEF Disable, Coming, Types

LEMMA AttemptStopped ==
  ASSUME Types, Made, Sole, Stopped, NEW n \in Attempts, AttemptStep(n), ~AnswerLost(n)
  PROVE  Stopped'
  <1> USE DEF AttemptStep, PreflightPasses, AttemptFails, Launched, RaceTimesOut, Relaunch, ConsumerStarts,
              ConsumerRefused, world
  <1>1. attempt[n] \in Phases /\ UNCHANGED <<launches, disabling>>
    BY DEF Phases
  <1>2. PICK phase \in Phase :
          /\ attempt' = [attempt EXCEPT ![n] = phase]
          /\ phase = "refused" => attempt[n] \in Before /\ UNCHANGED consumer
          /\ phase = "done" => attempt[n] \in Before \cup {"refused"} /\ UNCHANGED consumer
          /\ phase # "none"
    BY DEF Phase, Before
  <1>3. UNCHANGED consumer \/ (attempt[n] = "calling" /\ consumer' = [consumer EXCEPT ![n] = "up"])
    OBVIOUS
  <1> HIDE DEF AttemptStep, PreflightPasses, AttemptFails, Launched, RaceTimesOut, Relaunch, ConsumerStarts,
               ConsumerRefused, world
  <1>4. attempt'[n] = phase /\ \A m \in Attempts : m # n => attempt'[m] = attempt[m]
    BY <1>2 DEF Types, ControlTypes
  <1>5. \A m \in Attempts : m # n => consumer'[m] = consumer[m]
    BY <1>3 DEF Types, WorldTypes
  <1>6. n = launches /\ record.state \in Coming /\ \A m \in Attempts : m # n => attempt[m] \notin Phases
    BY <1>1 DEF Sole
  <1>7. \A m \in Attempts : attempt'[m] = "refused" => consumer'[m] = "none"
    BY <1>2, <1>4, <1>5 DEF Stopped, Made
  <1>8. \A d \in disabling : d.consumer \in Attempts /\ d.consumer # n
    BY <1>1 DEF Sole, Phases
  <1>9. consumer'[n] = "up" => attempt'[n] \in Phases \cup {"timedout"}
    <2>1. phase = "done" => consumer'[n] = "none"
      BY <1>2 DEF Made, Stopped
    <2>2. phase \in Phases \cup {"timedout", "done"}
      BY <1>2 DEF Phase, Phases
    <2> QED  BY <1>4, <2>1, <2>2
  <1>10. \A m \in Attempts : m # n /\ consumer[m] = "up" => attempt[m] = "timedout"
    BY <1>6 DEF Stopped, Live, Coming
  <1> QED  BY <1>1, <1>4, <1>5, <1>7, <1>8, <1>9, <1>10 DEF Stopped, Live

LEMMA HearStopped ==
  ASSUME Types, Made, Heard, Sole, Stopped, HearEvent
  PROVE  Stopped'
  <1> DEFINE e == Head(events)
  <1>1. /\ UNCHANGED <<disabling, consumer>> /\ e.n \in Attempts
        /\ e.kind = "exited" => consumer[e.n] = "down"
    BY HeadAndTail DEF HearEvent, Types, Heard
  <1>2. \/ UNCHANGED <<record, launches, attempt>>
        \/ attempt[e.n] = "racing" /\ ConfirmOn(e.n)
        \/ record.state = "on" /\ record.consumer = e.n /\ consumer[e.n] = "down" /\ Exited(e.n)
    <2>1. e.kind \in {"running", "exited"}
      BY HeadAndTail DEF HearEvent, Types, EventType
    <2> QED  BY <1>1, <2>1 DEF HearEvent, Concerns
  <1> HIDE DEF e
  <1>3. CASE UNCHANGED <<record, launches, attempt>>
    BY <1>1, <1>3 DEF Stopped, Live
  <1>4. CASE attempt[e.n] = "racing" /\ ConfirmOn(e.n)
    <2>1. /\ attempt'[e.n] = "done" /\ \A m \in Attempts : m # e.n => attempt'[m] = attempt[m]
          /\ record'.state = "on" /\ record'.consumer = record.consumer
      BY <1>1, <1>4, RecordFields DEF ConfirmOn, Types, ControlTypes, RecordType
    <2>2. e.n = launches /\ record.consumer = e.n /\ record.state \in Coming
      BY <1>1, <1>4 DEF Sole, Phases
    <2>3. \A m \in Attempts : m # e.n /\ consumer[m] = "up" => attempt[m] = "timedout"
      BY <2>2 DEF Stopped, Live, Sole, Coming
    <2> QED  BY <1>1, <2>1, <2>2, <2>3 DEF Stopped, Live
  <1>5. CASE record.state = "on" /\ record.consumer = e.n /\ consumer[e.n] = "down" /\ Exited(e.n)
    <2>1. \A m \in Attempts : consumer[m] = "up" => attempt[m] = "timedout"
      BY <1>5 DEF Sole, Coming, Stopped, Live
    <2>2. CASE UNCHANGED <<launches, attempt>>
      BY <1>1, <2>1, <2>2 DEF Stopped, Live
    <2>3. CASE /\ launches < MaxLaunches /\ launches' = launches + 1
               /\ attempt' = [attempt EXCEPT ![launches'] = "backoff"]
      <3>1. "backoff" \in Phase
        BY DEF Phase
      <3>2. /\ attempt'[launches'] = "backoff" /\ consumer[launches'] = "none"
            /\ \A m \in Attempts : m # launches' => attempt'[m] = attempt[m]
        BY <2>3, <3>1, LaunchOf
      <3> QED  BY <1>1, <2>1, <3>2 DEF Stopped, Live
    <2> QED  BY <1>5, <2>2, <2>3 DEF Exited
  <1> QED  BY <1>2, <1>3, <1>4, <1>5

(* A process that ends leaves the others as they are.                      *)
LEMMA EndsStopped ==
  ASSUME Types, Sole, Stopped, NEW n \in Attempts, consumer[n] = "up",
         consumer' = [consumer EXCEPT ![n] = "down"], UNCHANGED <<attempt, record>>,
         \A d \in disabling' : d \in disabling \/ d.consumer = n
  PROVE  Stopped'
  <1>1. \A m \in Attempts : consumer'[m] # "up" \/ (m # n /\ consumer[m] = "up")
    BY DEF Types, WorldTypes
  <1>2. \A m \in Attempts : consumer[m] = "none" => consumer'[m] = "none"
    BY DEF Types, WorldTypes
  <1>3. \A d \in disabling' : d.consumer \in Attempts
    BY DEF Sole
  <1> QED  BY <1>1, <1>2, <1>3 DEF Stopped, Live

LEMMA DisableStepStopped ==
  ASSUME Types, Sole, Stopped, NEW d \in disabling, DisableStep(d), ~StopFails(d)
  PROVE  Stopped'
  <1>1. UNCHANGED attempt
    BY DEF DisableStep, StopAnswered, StopFails, FinishDisable
  <1>2. CASE StopAnswered(d)
    <2>1. [d EXCEPT !.at = "finish"].consumer = d.consumer
      BY DEF Types, ControlTypes, Disables
    <2>2. \A c \in disabling' : c \in disabling \/ c.consumer = d.consumer
      BY <1>2, <2>1 DEF StopAnswered
    <2>3. CASE consumer[d.consumer] = "up"
      <3>1. d.consumer \in Attempts
        BY DEF Sole
      <3> QED  BY <1>2, <2>2, <2>3, <3>1, EndsStopped DEF StopAnswered
    <2>4. CASE consumer[d.consumer] # "up" /\ UNCHANGED consumer
      BY <1>2, <2>2, <2>4 DEF StopAnswered, Stopped, Live
    <2> QED  BY <1>2, <2>3, <2>4 DEF StopAnswered
  <1>3. CASE FinishDisable(d)
    <2>1. UNCHANGED consumer /\ disabling' \subseteq disabling /\ consumer[d.consumer] # "up"
      BY <1>3 DEF FinishDisable, world, Stopped
    <2>2. CASE UNCHANGED record
      BY <1>1, <2>1, <2>2 DEF Stopped, Live
    <2>3. CASE record.consumer = d.consumer
      <3>1. \A n \in Attempts : consumer[n] = "up" => attempt[n] = "timedout"
        BY <2>1, <2>3, FinishActs DEF Stopped, Live, Sole, Coming
      <3> QED  BY <1>1, <2>1, <3>1 DEF Stopped, Live
    <2> QED  BY <1>3, <2>2, <2>3 DEF FinishDisable
  <1> QED  BY <1>2, <1>3 DEF DisableStep

LEMMA StoppedStep ==
  ASSUME Types, Numbered, SoleWhenRegular, StoppedWhenQuiet, [Next]_vars
  PROVE  StoppedWhenQuiet'
  <1> SUFFICES ASSUME Quiet' PROVE Stopped'
    BY DEF StoppedWhenQuiet
  <1>1. Sole /\ Stopped /\ Regular' /\ "fault" \notin irregular'
    BY Remembered DEF SoleWhenRegular, StoppedWhenQuiet, Regular, Quiet
  <1>2. /\ ~LoseEvent /\ \A n \in Attempts : ~AnswerLost(n)
        /\ \A d \in disabling : ~StopFails(d)
        /\ \A r \in reloads : ~Fails(r)
    BY <1>1, Remembered
  <1>3. ASSUME UNCHANGED <<control, consumer>> PROVE Stopped'
    BY <1>1, <1>3 DEF control, Stopped, Live
  <1>4. ASSUME NEW n \in Attempts, ConsumerExits(n) PROVE Stopped'
    BY <1>1, <1>4, EndsStopped DEF ConsumerExits, control
  <1>5. ASSUME NEW r \in reloads, ReloadStep(r) PROVE Stopped'
    BY <1>2, <1>3, <1>5 DEF ReloadStep, Applies, Answered, world
  <1>6. CASE Edit \/ LectureStarts \/ LectureEnds \/ UNCHANGED vars
    BY <1>3, <1>6 DEF Edit, LectureStarts, LectureEnds, vars, world
  <1> QED  BY <1>1, <1>2, <1>4, <1>5, <1>6, EnableStopped, DisableStopped, AttemptStopped, HearStopped,
              DisableStepStopped DEF Next, Numbered

-----------------------------------------------------------------------------
(* The relay while one request at a time is under way                      *)

Current == Digest(TRUE, edition)

Orderly == irregular \cap {"overlap", "fault"} = {}

Cached ==
  /\ \A r, s \in reloads : r = s
  /\ lastDigest \in {Never, pushed} \/ \E r \in reloads : r.at = "applied"
  /\ \A r \in reloads : /\ r.op = "deactivate" <=> ~configured
                        /\ configured => r.digest = Current
                        /\ r.at = "applied" => pushed = r.digest
  /\ configured /\ reloads = {} => pushed = Current

CachedWhenOrderly == Orderly => Cached

LEMMA Digests ==
  ASSUME RelayTypes
  PROVE  Current # Never /\ (RelayTypes' => Current' # Never) /\ Empty # Never
  BY Constants DEF RelayTypes, Current, Digest, Never, Empty

(* A request is only made when none is under way.                          *)
LEMMA RequestCached ==
  ASSUME Types, Cached, reloads = {}, NEW op \in {"activate", "deactivate", "refresh"}, NEW n,
         NEW digest, Reload(op, n, digest), UNCHANGED <<lastDigest, pushed>>, digest # Never,
         configured' \in BOOLEAN, op = "deactivate" <=> ~configured', configured' => digest = Current'
  PROVE  Cached'
  <1> DEFINE new == [op |-> op, n |-> n, at |-> "sent", digest |-> digest]
  <1>1. lastDigest \in {Never, pushed}
    BY DEF Cached
  <1>2. new.op = op /\ new.at = "sent" /\ new.digest = digest
    OBVIOUS
  <1>3. reloads' = IF digest = lastDigest THEN {} ELSE {new}
    BY DEF Reload
  <1> HIDE DEF new
  <1>4. CASE digest = lastDigest
    BY <1>1, <1>3, <1>4 DEF Cached
  <1>5. CASE digest # lastDigest
    BY <1>1, <1>2, <1>3, <1>5 DEF Cached
  <1> QED  BY <1>4, <1>5

LEMMA CachedStep ==
  ASSUME Types, CachedWhenOrderly, [Next]_vars
  PROVE  CachedWhenOrderly'
  <1> SUFFICES ASSUME Orderly' PROVE Cached'
    BY DEF CachedWhenOrderly
  <1>1. Cached /\ "fault" \notin irregular' /\ "overlap" \notin irregular'
    BY Remembered DEF CachedWhenOrderly, Orderly
  <1>2. NoteOverlap => reloads = {}
    BY <1>1 DEF NoteOverlap
  <1>3. RelayTypes /\ RelayTypes'
    BY TypesStep DEF Types
  <1>4. ASSUME UNCHANGED relay PROVE Cached'
    BY <1>1, <1>4 DEF relay, Cached, Current
  <1>5. ASSUME NEW n, Activate(n), NoteOverlap PROVE Cached'
    <2>1. Current' = Current /\ configured' = TRUE
      BY <1>5 DEF Activate, Current
    <2> QED  BY <1>1, <1>2, <1>3, <1>5, <2>1, Digests, RequestCached DEF Activate, Current
  <1>6. ASSUME NEW n, Deactivate(n), NoteOverlap PROVE Cached'
    <2>1. configured' = FALSE
      BY <1>6 DEF Deactivate
    <2> QED  BY <1>1, <1>2, <1>3, <1>6, <2>1, Digests, RequestCached DEF Deactivate
  <1>7. ASSUME EditTargets, configured => NoteOverlap PROVE Cached'
    <2>1. configured' = configured /\ UNCHANGED <<lastDigest, pushed>> /\ edition' = edition + 1
      BY <1>7 DEF EditTargets
    <2>2. CASE configured
      <3>1. Reload("refresh", edition', Current') /\ reloads = {}
        BY <1>2, <1>7, <2>2 DEF EditTargets, Current
      <3>2. Current' # Never
        BY <1>3, <2>1, Digests
      <3> QED  BY <1>1, <2>1, <2>2, <3>1, <3>2, RequestCached
    <2>3. CASE ~configured
      BY <1>1, <1>7, <2>1, <2>3 DEF EditTargets, Cached
    <2> QED  BY <2>2, <2>3
  <1>8. ASSUME NEW r \in reloads, HelperApplies(r) PROVE Cached'
    <2> DEFINE new == [r EXCEPT !.at = "applied"]
    <2>1. new.op = r.op /\ new.at = "applied" /\ new.digest = r.digest
      BY <1>3 DEF RelayTypes, ReloadType
    <2>2. reloads' = {new} /\ pushed' = r.digest /\ UNCHANGED <<configured, edition, lastDigest>>
      BY <1>1, <1>8 DEF HelperApplies, Cached
    <2> HIDE DEF new
    <2> QED  BY <1>1, <2>1, <2>2 DEF Cached, Current
  <1>9. ASSUME NEW r \in reloads, ReloadAnswered(r) PROVE Cached'
    <2>1. reloads' = {} /\ lastDigest' = pushed /\ UNCHANGED <<configured, edition, pushed>>
      BY <1>1, <1>9 DEF ReloadAnswered, Cached
    <2>2. configured => pushed = Current
      BY <1>1, <1>9 DEF ReloadAnswered, Cached
    <2> QED  BY <2>1, <2>2 DEF Cached, Current
  <1>10. ASSUME NEW r \in reloads, ReloadStep(r) PROVE Cached'
    BY <1>1, <1>8, <1>9, <1>10, Remembered DEF ReloadStep, Applies, Answered
  <1>11. CASE Enable
    BY <1>4, <1>5, <1>11 DEF Enable
  <1>12. ASSUME NEW d \in disabling, DisableStep(d) PROVE Cached'
    BY <1>4, <1>6, <1>12 DEF DisableStep, StopAnswered, StopFails, FinishDisable
  <1>13. CASE Edit
    BY <1>7, <1>13 DEF Edit
  <1>14. ASSUME NEW n \in Attempts, AttemptStep(n) \/ ConsumerExits(n) PROVE Cached'
    BY <1>4, <1>14 DEF AttemptStep, PreflightPasses, AttemptFails, Launched, RaceTimesOut, Relaunch, ConsumerStarts,
                       ConsumerRefused, AnswerLost, ConsumerExits
  <1>15. CASE Disable \/ HearEvent \/ LoseEvent \/ LectureStarts \/ LectureEnds \/ UNCHANGED vars
    BY <1>4, <1>15 DEF Disable, HearEvent, LoseEvent, LectureStarts, LectureEnds, vars
  <1> QED  BY <1>10, <1>11, <1>12, <1>13, <1>14, <1>15 DEF Next

-----------------------------------------------------------------------------
(* The targets are activated before the consumer is launched               *)

Wanted ==
  channel = "streaming" =>
    /\ record.state \in {"starting", "on", "stopping"} => configured
    /\ \A n \in Attempts : attempt[n] = "preflight" => configured

WantedWhenRegular == Regular => Wanted

LEMMA EnableWanted ==
  ASSUME Types, Made, Sole, Enable, UNCHANGED channel
  PROVE  Wanted'
  <1> SUFFICES ASSUME channel = "streaming" PROVE Wanted'
    BY DEF Wanted
  <1>1. record'.state = "preflight"
    BY RecordFields DEF Enable, Types, RecordType
  <1>2. PICK phase \in {"refused", "preflight"} :
          attempt' = [attempt EXCEPT ![launches'] = phase] /\ (phase = "preflight" => configured')
    BY DEF Enable, Activate
  <1>3. phase \in Phase /\ launches < MaxLaunches /\ launches' = launches + 1
    BY DEF Phase, Enable, Room
  <1>4. attempt'[launches'] = phase /\ \A n \in Attempts : n # launches' => attempt'[n] = attempt[n]
    BY <1>2, <1>3, LaunchOf
  <1>5. \A n \in Attempts : attempt[n] # "preflight"
    BY DEF Enable, Sole
  <1> QED  BY <1>1, <1>2, <1>4, <1>5 DEF Wanted

LEMMA HearWanted ==
  ASSUME Types, Made, Sole, Wanted, HearEvent
  PROVE  Wanted'
  <1> DEFINE e == Head(events)
  <1>1. UNCHANGED <<channel, configured>> /\ e.n \in Attempts
    BY HeadAndTail DEF HearEvent, relay, Types
  <1>2. \/ UNCHANGED <<record, attempt>>
        \/ attempt[e.n] = "racing" /\ attempt' = [attempt EXCEPT ![e.n] = "done"]
        \/ record.state = "on" /\ Exited(e.n)
    BY DEF HearEvent, Concerns, ConfirmOn
  <1> HIDE DEF e
  <1>3. CASE UNCHANGED <<record, attempt>>
    BY <1>1, <1>3 DEF Wanted
  <1>4. CASE attempt[e.n] = "racing" /\ attempt' = [attempt EXCEPT ![e.n] = "done"]
    <2>1. record.state = "starting"
      BY <1>1, <1>4 DEF Sole, Phases, Coming
    <2>2. \A m \in Attempts : attempt'[m] = "preflight" => attempt[m] = "preflight"
      BY <1>4 DEF Types, ControlTypes
    <2> QED  BY <1>1, <2>1, <2>2 DEF Wanted
  <1>5. CASE record.state = "on" /\ Exited(e.n)
    <2>1. CASE UNCHANGED attempt
      BY <1>1, <1>5, <2>1 DEF Wanted
    <2>2. CASE /\ launches < MaxLaunches /\ launches' = launches + 1
               /\ attempt' = [attempt EXCEPT ![launches'] = "backoff"]
      <3>1. \A m \in Attempts : attempt'[m] = "preflight" => attempt[m] = "preflight"
        BY <2>2 DEF Types, ControlTypes
      <3> QED  BY <1>1, <1>5, <3>1 DEF Wanted
    <2> QED  BY <1>5, <2>1, <2>2 DEF Exited
  <1> QED  BY <1>2, <1>3, <1>4, <1>5

LEMMA WantedStep ==
  ASSUME Types, Numbered, SoleWhenRegular, WantedWhenRegular, [Next]_vars
  PROVE  WantedWhenRegular'
  <1> SUFFICES ASSUME Regular' PROVE Wanted'
    BY DEF WantedWhenRegular
  <1>1. Sole /\ Wanted
    BY Remembered DEF SoleWhenRegular, WantedWhenRegular, Regular
  <1>2. UNCHANGED channel
    BY DEF Next, vars, world, Enable, Disable, AttemptStep, PreflightPasses, AttemptFails, Launched, RaceTimesOut,
           Relaunch, ConsumerStarts, ConsumerRefused, AnswerLost, ConsumerExits, HearEvent, LoseEvent, DisableStep,
           StopAnswered, StopFails, FinishDisable, ReloadStep, Applies, Answered, Fails, Edit, LectureStarts,
           LectureEnds
  <1>3. ASSUME UNCHANGED <<record, attempt, configured>> PROVE Wanted'
    BY <1>1, <1>2, <1>3 DEF Wanted
  <1>4. CASE Disable
    <2>1. record.state \notin Coming /\ UNCHANGED <<attempt, configured>>
      BY <1>4 DEF Disable, Irregularity, Regular, Coming, relay
    <2>2. record'.state = "off" \/ record.state \in {"on", "stopping"}
      BY <1>4, <2>1, RecordFields DEF Disable, Types, RecordType, Coming
    <2> QED  BY <1>1, <1>2, <2>1, <2>2 DEF Wanted
  <1>5. ASSUME NEW n \in Attempts, AttemptStep(n) PROVE Wanted'
    <2> USE <1>5 DEF AttemptStep, PreflightPasses, AttemptFails, Launched, RaceTimesOut, Relaunch, ConsumerStarts,
                     ConsumerRefused, AnswerLost
    <2>1. UNCHANGED configured
      BY DEF relay
    <2>2. \E phase \in Phase \ {"preflight"} : attempt' = [attempt EXCEPT ![n] = phase]
      BY DEF Phase
    <2>3. record'.state \in {record.state, "failed"} \/ attempt[n] = "preflight"
      BY RecordFields DEF FailChannel, Types, RecordType
    <2> HIDE DEF AttemptStep, PreflightPasses, AttemptFails, Launched, RaceTimesOut, Relaunch, ConsumerStarts,
                 ConsumerRefused, AnswerLost
    <2>4. \A m \in Attempts : attempt'[m] = "preflight" => attempt[m] = "preflight"
      BY <2>2 DEF Types, ControlTypes
    <2> QED  BY <1>1, <1>2, <2>1, <2>3, <2>4 DEF Wanted
  <1>6. ASSUME NEW n \in Attempts, ConsumerExits(n) PROVE Wanted'
    BY <1>3, <1>6 DEF ConsumerExits, control, relay
  <1>7. ASSUME NEW d \in disabling, DisableStep(d) PROVE Wanted'
    <2>1. CASE UNCHANGED <<record, relay>>
      BY <1>3, <1>7, <2>1 DEF DisableStep, StopAnswered, StopFails, FinishDisable, relay
    <2>2. CASE FinishDisable(d) /\ record.consumer = d.consumer
      <3>1. record'.state = "off" /\ UNCHANGED attempt
        BY <2>2, RecordFields DEF FinishDisable, Types, RecordType
      <3>2. \A n \in Attempts : attempt[n] # "preflight"
        BY <1>1, <2>2, FinishActs DEF Sole
      <3> QED  BY <3>1, <3>2 DEF Wanted
    <2> QED  BY <1>7, <2>1, <2>2 DEF DisableStep, StopAnswered, StopFails, FinishDisable
  <1>8. ASSUME NEW r \in reloads, ReloadStep(r) PROVE Wanted'
    <2>1. UNCHANGED <<record, configured>>
      BY <1>8 DEF ReloadStep, Applies, Answered, Fails, HelperApplies, ReloadAnswered, ReloadFails, control
    <2>2. \A m \in Attempts : attempt'[m] = "preflight" => attempt[m] = "preflight"
      BY <1>8 DEF ReloadStep, Applies, Answered, Fails, control, Types, ControlTypes
    <2> QED  BY <1>1, <1>2, <2>1, <2>2 DEF Wanted
  <1>9. CASE LoseEvent \/ Edit \/ LectureStarts \/ LectureEnds \/ UNCHANGED vars
    BY <1>3, <1>9 DEF LoseEvent, Edit, EditTargets, LectureStarts, LectureEnds, vars, control, relay
  <1> QED  BY <1>1, <1>2, <1>4, <1>5, <1>6, <1>7, <1>8, <1>9, EnableWanted, HearWanted DEF Next, Numbered

-----------------------------------------------------------------------------
(* The theorems                                                            *)

IInv == Types /\ Numbered /\ SoleWhenRegular /\ StoppedWhenQuiet /\ CachedWhenOrderly /\ WantedWhenRegular

LEMMA InitIInv == Init => IInv
  <1> SUFFICES ASSUME Init PROVE IInv
    OBVIOUS
  <1>1. Types
    BY TypesInit
  <1>2. Numbered
    BY DEF Init, RelayInit, Numbered, Made, Heard, Activating, Before
  <1>3. Sole
    BY Zeroes DEF Init, Off, Sole, Phases, Coming
  <1>4. Stopped
    BY DEF Init, Stopped
  <1>5. Cached
    BY DEF Init, RelayInit, Cached
  <1>6. Wanted
    BY DEF Init, Off, Wanted
  <1> QED  BY <1>1, <1>2, <1>3, <1>4, <1>5, <1>6 DEF IInv, SoleWhenRegular, StoppedWhenQuiet, CachedWhenOrderly,
              WantedWhenRegular

LEMMA Inductive == Spec => []IInv
  <1>1. IInv /\ [Next]_vars => IInv'
    BY TypesStep, NumberedStep, SoleStep, StoppedStep, CachedStep, WantedStep DEF IInv
  <1> QED  BY InitIInv, <1>1, PTL DEF Spec

(* Every variable stays within its type: attempts, restarts and digests    *)
(* are bounded, whatever happens.                                          *)
THEOREM TypeCorrect == Spec => []TypeOK
  <1>1. IInv => TypeOK
    BY TypesAreTypeOK DEF IInv
  <1> QED  BY Inductive, <1>1, PTL

(* As long as nobody disables a channel that is still coming up, the state *)
(* shown tells where the one attempt under way is, and its consumer        *)
(* (channels/machine.ts: #doEnable, #failChannel, #doDisable).             *)
THEOREM StateIsTold == Spec => []StateTellsAttempt
  <1>1. IInv => StateTellsAttempt
    <2> SUFFICES ASSUME Types, Regular, Sole PROVE StateTellsAttempt
      BY DEF IInv, SoleWhenRegular, Regular, StateTellsAttempt
    <2>1. UnderWay = IF record.state \in Coming THEN {launches} ELSE {}
      BY DEF Sole, UnderWay, Under, Phases
    <2> QED  BY <2>1 DEF Sole, StateTellsAttempt, Coming
  <1> QED  BY Inductive, <1>1, PTL

(* No consumer of the channel runs beside the one the record knows, but    *)
(* one that the race gave up, while calls and events arrive and nobody is  *)
(* hasty (channels/machine.ts: #launchConsumer, #finishDisable).           *)
THEOREM NobodyElseRuns == Spec => []OthersGivenUp
  <1>1. IInv => OthersGivenUp
    <2> SUFFICES ASSUME Quiet, Stopped PROVE OthersGivenUp
      BY DEF IInv, StoppedWhenQuiet, Quiet, OthersGivenUp
    <2> QED  BY DEF Stopped, Live, OthersGivenUp, UnderWay, Under, Phases
  <1> QED  BY Inductive, <1>1, PTL

(* INV-ST-2 for a streaming channel in regular use: the relay pushes to    *)
(* the targets edited last from before the consumer is launched until it   *)
(* has been stopped (relay/config.ts: #reload compares before it awaits).  *)
THEOREM PushesWhileLive == Spec => []PushedWhileLive
  <1>1. IInv => PushedWhileLive
    <2> SUFFICES ASSUME Types, Activating, Sole, Cached, Wanted, channel = "streaming",
                        record.state \in {"starting", "on", "stopping"}
                 PROVE  Pushing
      BY DEF IInv, Numbered, SoleWhenRegular, Regular, CachedWhenOrderly, Orderly, WantedWhenRegular, PushedWhileLive
    <2>1. configured
      BY DEF Wanted
    <2>2. CASE reloads = {}
      BY <2>1, <2>2 DEF Cached, Pushing, Current
    <2>3. ASSUME NEW r \in reloads PROVE r.op = "refresh"
      <3>1. r.op # "deactivate"
        BY <2>1 DEF Cached
      <3>2. r.op # "activate"
        BY SmallerNumbers DEF Activating, Sole
      <3> QED  BY <3>1, <3>2 DEF Types, RelayTypes, ReloadType
    <2> QED  BY <2>1, <2>2, <2>3 DEF Pushing, Refreshing
  <1> QED  BY Inductive, <1>1, PTL

=============================================================================
