---------------------------- MODULE PublisherProofs ----------------------------
(***************************************************************************)
(* Proofs about Publisher, for any number of processes, watchers and       *)
(* restarts: the types; that no two processes of a publisher run and that  *)
(* a stop is final, as long as no start comes in an irregular place; and   *)
(* that one shown online is watched, as long as no start overlaps.         *)
(*                                                                         *)
(* The argument: then only the controller's exit task is active, so a stop *)
(* cancels whatever could spawn; a watcher that waits to spawn or to reap  *)
(* has no process running, so spawning overwrites nothing; and none that   *)
(* may give a process up finds the controller holding a pid (Attended).    *)
(***************************************************************************)
EXTENDS Publisher, TLAPS

Cancellable == \A w \in Watchers : watcher[w].at # "idle" => w = controller.exitTask /\ ~controller.requestedStop

Commanded ==
  /\ command.at = "confirming" =>
       /\ \A w \in Watchers : watcher[w].at = "idle"
       /\ registered = command.process /\ ~controller.requestedStop
  /\ command.at = "stopping" => controller.requestedStop /\ registered = command.process
  /\ command.at = "none" /\ controller.requestedStop => alive = {}

Followed ==
  \A w \in Watchers :
    /\ watcher[w].at = "watching" => alive \subseteq {watcher[w].process}
    /\ watcher[w].at = "confirming" => registered = watcher[w].process
    /\ watcher[w].at \in {"backoff", "reaping"} => alive = {}

Regular == alive \subseteq {registered} /\ Cancellable /\ Commanded /\ Followed

IInv == TypeOK /\ (irregular = {} => Regular)

ControllerType ==
  [bound : BOOLEAN, pid : Processes \cup {NoProcess},
   state : {"offline", "online", "degraded"}, requestedStop : BOOLEAN,
   exitTask : Watchers \cup {NoWatcher}, attempts : 0..RestartLimit]

WatcherType ==
  [at : {"idle", "watching", "backoff", "confirming", "reaping"},
   process : Processes \cup {NoProcess}, tries : 0..RestartLimit]

-----------------------------------------------------------------------------
(* Types                                                                   *)

LEMMA Numbers ==
  ASSUME TypeOK
  PROVE  /\ RestartLimit \in Nat /\ 0 \in 0..RestartLimit /\ RestartLimit \in 0..RestartLimit
         /\ \A n \in 0..RestartLimit : n < RestartLimit => n + 1 \in 0..RestartLimit
         /\ NoProcess \notin Processes /\ NoWatcher \notin Watchers
  <1>1. RestartLimit \in Nat \ {0}
    BY PublisherAssumption
  <1>2. NoProcess \notin Processes /\ NoWatcher \notin Watchers
    BY PublisherAssumption
  <1> QED  BY <1>1, <1>2

LEMMA ControllerFields ==
  ASSUME TypeOK
  PROVE  /\ controller \in ControllerType
         /\ controller.bound \in BOOLEAN /\ controller.pid \in Processes \cup {NoProcess}
         /\ controller.state \in {"offline", "online", "degraded"}
         /\ controller.requestedStop \in BOOLEAN
         /\ controller.exitTask \in Watchers \cup {NoWatcher}
         /\ controller.attempts \in 0..RestartLimit
  BY DEF TypeOK, ControllerType

LEMMA ExitType ==
  ASSUME TypeOK
  PROVE  /\ UnexpectedExit \in ControllerType
         /\ UnexpectedExit.requestedStop = controller.requestedStop
         /\ UnexpectedExit.exitTask = controller.exitTask
  <1>1. controller.attempts \in 0..RestartLimit /\ RestartLimit \in Nat
    BY Numbers, ControllerFields
  <1>2. ~Exhausted => controller.attempts + 1 \in 0..RestartLimit
    BY <1>1 DEF Exhausted
  <1> QED  BY <1>1, <1>2, ControllerFields DEF UnexpectedExit, ControllerType

LEMMA OnlineType ==
  ASSUME TypeOK, NEW p \in Processes \cup {NoProcess}
  PROVE  /\ Online(p) \in ControllerType
         /\ Online(p).requestedStop = controller.requestedStop
         /\ Online(p).exitTask = controller.exitTask
  BY Numbers, ControllerFields DEF Online, ControllerType

(* One watcher moves, the others stay.                                     *)
LEMMA OneMoves ==
  ASSUME TypeOK, NEW w \in Watchers, NEW r \in WatcherType, watcher' = [watcher EXCEPT ![w] = r]
  PROVE  /\ watcher' \in [Watchers -> WatcherType]
         /\ watcher'[w] = r
         /\ \A v \in Watchers : v # w => watcher'[v] = watcher[v]
  BY DEF TypeOK, WatcherType

LEMMA WatcherFields ==
  ASSUME TypeOK, NEW w \in Watchers
  PROVE  /\ watcher[w] \in WatcherType
         /\ watcher[w].at \in {"idle", "watching", "backoff", "confirming", "reaping"}
         /\ watcher[w].process \in Processes \cup {NoProcess}
         /\ watcher[w].tries \in 0..RestartLimit
  BY DEF TypeOK, WatcherType

LEMMA GoesOnMoves ==
  ASSUME TypeOK, NEW w \in Watchers, NEW at \in {"watching", "backoff"},
         NEW p \in Processes \cup {NoProcess}, NEW tries \in 0..RestartLimit,
         GoesOn(w, at, p, tries)
  PROVE  /\ watcher' \in [Watchers -> WatcherType]
         /\ watcher'[w].at = "idle" \/ (watcher'[w].at = at /\ watcher'[w].process = p)
         /\ \A v \in Watchers : v # w => watcher'[v] = watcher[v]
  <1> DEFINE r == IF Exhausted THEN IdleWatcher ELSE [at |-> at, process |-> p, tries |-> tries]
  <1>1. r \in WatcherType
    BY Numbers DEF WatcherType, IdleWatcher
  <1>2. r.at = "idle" \/ (r.at = at /\ r.process = p)
    BY DEF IdleWatcher
  <1>3. watcher' = [watcher EXCEPT ![w] = r]
    BY DEF GoesOn
  <1> HIDE DEF r
  <1> QED  BY <1>1, <1>2, <1>3, OneMoves

LEMMA FreshProcess ==
  ASSUME TypeOK, NEW p \in Fresh
  PROVE  p \in Processes /\ p # NoProcess
  BY PublisherAssumption DEF Fresh, Free

-----------------------------------------------------------------------------
(* The invariant                                                           *)

LEMMA InitInv ==
  Init => IInv
  <1> SUFFICES ASSUME Init PROVE IInv
    OBVIOUS
  <1>1. controller \in ControllerType /\ watcher \in [Watchers -> WatcherType]
    BY PublisherAssumption DEF Init, ControllerType, WatcherType, IdleWatcher
  <1>2. command.at = "none" /\ alive = {} /\ registered = NoProcess /\ reliefs = 0 /\ irregular = {}
        /\ command \in [at : {"none", "confirming", "stopping"}, process : Processes \cup {NoProcess}]
    BY DEF Init, NoCommand
  <1>3. TypeOK
    BY <1>1, <1>2, PublisherAssumption DEF TypeOK, ControllerType, WatcherType
  <1>4. \A w \in Watchers : watcher[w].at = "idle"
    BY DEF Init, IdleWatcher
  <1>5. Regular
    BY <1>2, <1>4 DEF Regular, Cancellable, Commanded, Followed
  <1> QED  BY <1>3, <1>5 DEF IInv

(* The types, from those of the variables a step changes.                  *)
LEMMA TypesKeep ==
  ASSUME TypeOK,
         controller' \in ControllerType,
         watcher' \in [Watchers -> WatcherType],
         registered' \in Processes \cup {NoProcess}, alive' \subseteq Processes,
         command'.at \in {"none", "confirming", "stopping"} /\ command' \in [at : {"none", "confirming", "stopping"}, process : Processes \cup {NoProcess}],
         irregular' \subseteq {"overlap", "leftover"}, reliefs' \in 0..MaxReliefs
  PROVE  TypeOK'
  BY DEF TypeOK, ControllerType, WatcherType

LEMMA SameTypes ==
  ASSUME TypeOK
  PROVE  /\ controller \in ControllerType /\ watcher \in [Watchers -> WatcherType]
         /\ registered \in Processes \cup {NoProcess} /\ alive \subseteq Processes
         /\ command.at \in {"none", "confirming", "stopping"}
         /\ command.process \in Processes \cup {NoProcess}
         /\ command \in [at : {"none", "confirming", "stopping"}, process : Processes \cup {NoProcess}]
         /\ irregular \subseteq {"overlap", "leftover"} /\ reliefs \in 0..MaxReliefs
  BY DEF TypeOK, ControllerType, WatcherType

LEMMA CommandType ==
  ASSUME NEW at \in {"none", "confirming", "stopping"}, NEW p \in Processes \cup {NoProcess}
  PROVE  /\ [at |-> at, process |-> p] \in [at : {"none", "confirming", "stopping"}, process : Processes \cup {NoProcess}]
         /\ [at |-> at, process |-> p].at = at /\ [at |-> at, process |-> p].process = p
  OBVIOUS

LEMMA NoCommandType ==
  /\ NoCommand \in [at : {"none", "confirming", "stopping"}, process : Processes \cup {NoProcess}]
  /\ NoCommand.at = "none"
  BY DEF NoCommand

(* A binding, an attempt that leaves the window, a death.                  *)
LEMMA WorldInv ==
  ASSUME IInv, Bind \/ Prune \/ Die
  PROVE  IInv'
  <1> USE DEF IInv
  <1>1. /\ UNCHANGED <<registered, watcher, command, irregular>>
        /\ alive' \subseteq alive
        /\ reliefs' \in 0..MaxReliefs
    BY PublisherAssumption, SameTypes DEF Bind, Prune, Die
  <1>2. /\ controller' \in ControllerType
        /\ controller'.requestedStop = controller.requestedStop /\ controller'.exitTask = controller.exitTask
    <2>1. CASE Bind
      BY <2>1, Numbers, ControllerFields DEF Bind, ControllerType
    <2>2. CASE Prune
      <3>1. controller.attempts - 1 \in 0..RestartLimit
        BY <2>2, Numbers, ControllerFields DEF Prune
      <3> QED  BY <2>2, <3>1, ControllerFields DEF Prune, ControllerType
    <2>3. CASE Die
      BY <2>3, ControllerFields DEF Die
    <2> QED  BY <2>1, <2>2, <2>3
  <1>3. TypeOK'
    BY <1>1, <1>2, TypesKeep, SameTypes
  <1>4. irregular' = {} => Regular'
    BY <1>1, <1>2 DEF Regular, Cancellable, Commanded, Followed
  <1> QED  BY <1>3, <1>4

LEMMA NotActive ==
  ASSUME Active = {}
  PROVE  \A w \in Watchers : watcher[w].at = "idle"
  BY DEF Active

LEMMA StartInv ==
  ASSUME IInv, Start
  PROVE  IInv'
  <1> USE DEF IInv
  <1>1. PICK p \in Fresh : Spawn(p) /\ command' = [at |-> "confirming", process |-> p]
    BY DEF Start
  <1>2. p \in Processes /\ registered' = p /\ alive' = alive \cup {p}
    BY <1>1, FreshProcess DEF Spawn
  <1>3. command' \in [at : {"none", "confirming", "stopping"}, process : Processes \cup {NoProcess}]
        /\ command'.at = "confirming" /\ command'.process = p
    BY <1>1, <1>2, CommandType
  <1>4. controller' \in ControllerType /\ controller'.requestedStop = FALSE
    BY ControllerFields DEF Start, ControllerType
  <1>5. UNCHANGED <<watcher, reliefs>>
        /\ irregular' = irregular \cup (IF Active = {} THEN {} ELSE {"overlap"})
                                  \cup (IF registered = NoProcess THEN {} ELSE {"leftover"})
    BY DEF Start
  <1>6. TypeOK'
    BY <1>2, <1>3, <1>4, <1>5, TypesKeep, SameTypes
  <1>7. ASSUME irregular' = {} PROVE Regular'
    <2>1. irregular = {} /\ Active = {} /\ registered = NoProcess
      BY <1>5, <1>7
    <2>2. \A w \in Watchers : watcher'[w].at = "idle"
      BY <1>5, <2>1, NotActive
    <2>3. alive = {}
      BY <2>1, Numbers, SameTypes DEF Regular
    <2> QED  BY <1>2, <1>3, <1>4, <2>2, <2>3 DEF Regular, Cancellable, Commanded, Followed
  <1> QED  BY <1>6, <1>7

LEMMA StartRefusedInv ==
  ASSUME IInv, StartRefused
  PROVE  IInv'
  <1> USE DEF IInv
  <1>1. controller' \in ControllerType /\ controller'.requestedStop = FALSE
    BY ExitType DEF StartRefused, ControllerType
  <1>2. UNCHANGED <<registered, alive, watcher, command, reliefs>> /\ command.at = "none"
        /\ irregular' = irregular \cup (IF Active = {} THEN {} ELSE {"overlap"})
    BY DEF StartRefused
  <1>3. TypeOK'
    BY <1>1, <1>2, TypesKeep, SameTypes
  <1>4. ASSUME irregular' = {} PROVE Regular'
    <2>1. irregular = {} /\ Active = {}
      BY <1>2, <1>4
    <2>2. \A w \in Watchers : watcher'[w].at = "idle"
      BY <1>2, <2>1, NotActive
    <2> QED  BY <1>1, <1>2, <2>1, <2>2 DEF Regular, Cancellable, Commanded, Followed
  <1> QED  BY <1>3, <1>4

LEMMA StartConfirmedInv ==
  ASSUME IInv, StartConfirmed
  PROVE  IInv'
  <1> USE DEF IInv
  <1> DEFINE p == command.process
  <1>1. PICK w \in Unused :
          /\ controller' = [Online(p) EXCEPT !.exitTask = w]
          /\ watcher' = [watcher EXCEPT ![w] = [at |-> "watching", process |-> p, tries |-> 0]]
    BY DEF StartConfirmed
  <1>2. w \in Watchers
    BY DEF Unused
  <1>3. p \in Processes \cup {NoProcess}
    BY SameTypes
  <1>4. controller' \in ControllerType /\ controller'.exitTask = w
        /\ controller'.requestedStop = controller.requestedStop
    <2>1. Online(p) \in ControllerType /\ Online(p).requestedStop = controller.requestedStop
      BY <1>3, OnlineType
    <2> QED  BY <1>1, <1>2, <2>1 DEF ControllerType
  <1> DEFINE r == [at |-> "watching", process |-> p, tries |-> 0]
  <1>5. r \in WatcherType /\ r.at = "watching" /\ r.process = p
    BY <1>3, Numbers DEF WatcherType
  <1>6. /\ watcher' \in [Watchers -> WatcherType]
        /\ watcher'[w] = r
        /\ \A v \in Watchers : v # w => watcher'[v] = watcher[v]
    BY <1>1, <1>2, <1>5, OneMoves
  <1> HIDE DEF r
  <1>7. /\ UNCHANGED <<registered, alive, irregular, reliefs>> /\ command' = NoCommand
        /\ command.at = "confirming"
    BY DEF StartConfirmed
  <1>8. TypeOK'
    BY <1>4, <1>6, <1>7, TypesKeep, SameTypes, NoCommandType
  <1>9. ASSUME irregular' = {} PROVE Regular'
    <2>1. Regular
      BY <1>7, <1>9
    <2>2. /\ \A v \in Watchers : watcher[v].at = "idle"
          /\ registered = p /\ ~controller.requestedStop
      BY <1>7, <2>1 DEF Regular, Commanded
    <2>3. \A v \in Watchers : v # w => watcher'[v].at = "idle"
      BY <1>6, <2>2
    <2>4. Cancellable'
      BY <1>4, <2>2, <2>3 DEF Cancellable
    <2>5. Followed'
      BY <1>5, <1>6, <1>7, <2>1, <2>2, <2>3 DEF Followed, Regular
    <2>6. Commanded'
      BY <1>4, <1>7, <2>2, NoCommandType DEF Commanded
    <2> QED  BY <1>7, <2>1, <2>4, <2>5, <2>6 DEF Regular
  <1> QED  BY <1>8, <1>9

LEMMA StartFailsInv ==
  ASSUME IInv, StartFails
  PROVE  IInv'
  <1> USE DEF IInv
  <1>1. controller' \in ControllerType /\ controller'.requestedStop = controller.requestedStop
        /\ controller'.exitTask = controller.exitTask
    BY ExitType DEF StartFails
  <1>2. UNCHANGED <<registered, alive, watcher, irregular, reliefs>> /\ command' = NoCommand /\ command.at = "confirming"
    BY DEF StartFails
  <1>3. TypeOK'
    BY <1>1, <1>2, TypesKeep, SameTypes, NoCommandType
  <1>4. irregular' = {} => Regular'
    BY <1>1, <1>2, NoCommandType DEF Regular, Cancellable, Commanded, Followed
  <1> QED  BY <1>3, <1>4

LEMMA StopInv ==
  ASSUME IInv, Stop
  PROVE  IInv'
  <1> USE DEF IInv
  <1>1. controller' \in ControllerType /\ controller'.requestedStop = TRUE
    BY ControllerFields DEF Stop, ControllerType
  <1>2. IdleWatcher \in WatcherType /\ IdleWatcher.at = "idle"
    BY Numbers DEF IdleWatcher, WatcherType
  <1>3. /\ watcher' \in [Watchers -> WatcherType]
        /\ \A w \in Watchers : watcher'[w] = IF w = controller.exitTask THEN IdleWatcher ELSE watcher[w]
    BY <1>2, SameTypes DEF Stop
  <1>4. UNCHANGED <<registered, alive, irregular, reliefs>> /\ command.at = "none"
    BY DEF Stop
  <1>5. /\ command' \in [at : {"none", "confirming", "stopping"}, process : Processes \cup {NoProcess}]
        /\ \/ command'.at = "none" /\ (registered = NoProcess \/ Reaping(registered))
           \/ command'.at = "stopping" /\ command'.process = registered
    <2>1. CASE command' = command /\ (registered = NoProcess \/ Reaping(registered))
      BY <1>4, <2>1, SameTypes
    <2>2. CASE command' = [at |-> "stopping", process |-> registered]
      BY <2>2, SameTypes, CommandType
    <2> QED  BY <2>1, <2>2 DEF Stop
  <1>6. TypeOK'
    BY <1>1, <1>3, <1>4, <1>5, TypesKeep, SameTypes
  <1>7. ASSUME irregular' = {} PROVE Regular'
    <2>1. Regular
      BY <1>4, <1>7
    <2>2. \A w \in Watchers : watcher'[w].at = "idle"
      BY <1>2, <1>3, <2>1 DEF Regular, Cancellable
    <2>3. command'.at = "none" => alive = {}
      <3>1. registered = NoProcess => alive = {}
        BY <2>1, Numbers, SameTypes DEF Regular
      <3>2. Reaping(registered) => alive = {}
        BY <2>1 DEF Reaping, Regular, Followed
      <3> QED  BY <1>5, <3>1, <3>2
    <2>4. Commanded'
      BY <1>1, <1>4, <1>5, <2>2, <2>3 DEF Commanded
    <2> QED  BY <1>4, <2>1, <2>2, <2>4 DEF Regular, Cancellable, Followed
  <1> QED  BY <1>6, <1>7

LEMMA StopDoneInv ==
  ASSUME IInv, StopDone
  PROVE  IInv'
  <1> USE DEF IInv
  <1>1. controller' \in ControllerType /\ controller'.requestedStop = controller.requestedStop
        /\ controller'.exitTask = controller.exitTask
    BY ControllerFields DEF StopDone, ControllerType
  <1>2. /\ UNCHANGED <<watcher, irregular, reliefs>> /\ command' = NoCommand /\ command.at = "stopping"
        /\ alive' = alive \ {command.process} /\ registered' = NoProcess
    BY DEF StopDone
  <1>3. TypeOK'
    BY <1>1, <1>2, TypesKeep, SameTypes, NoCommandType
  <1>4. ASSUME irregular' = {} PROVE Regular'
    <2>1. Regular
      BY <1>2, <1>4
    <2>2. alive' = {} /\ \A w \in Watchers : watcher'[w].at = "idle"
      BY <1>2, <2>1 DEF Regular, Commanded, Cancellable
    <2> QED  BY <1>1, <1>2, <2>2, NoCommandType DEF Regular, Cancellable, Commanded, Followed
  <1> QED  BY <1>3, <1>4

-----------------------------------------------------------------------------
(* The watchers                                                            *)

(* An active watcher is the only one, and no command is under way.         *)
LEMMA Sole ==
  ASSUME IInv, irregular = {}, NEW w \in Watchers, watcher[w].at # "idle"
  PROVE  /\ w = controller.exitTask /\ ~controller.requestedStop
         /\ command.at = "none"
         /\ \A v \in Watchers : v # w => watcher[v].at = "idle"
  <1>1. Regular
    BY DEF IInv
  <1>2. /\ w = controller.exitTask /\ ~controller.requestedStop
        /\ \A v \in Watchers : v # w => watcher[v].at = "idle"
    BY <1>1 DEF Regular, Cancellable
  <1>3. command.at = "none"
    BY <1>1, <1>2, SameTypes DEF Regular, Commanded, IInv
  <1> QED  BY <1>2, <1>3

(* What a step of the only watcher has to keep.                            *)
LEMMA SoleMoves ==
  ASSUME IInv, irregular' = {}, NEW w \in Watchers, watcher[w].at # "idle",
         UNCHANGED <<command, irregular>>,
         controller'.requestedStop = controller.requestedStop, controller'.exitTask = controller.exitTask,
         \A v \in Watchers : v # w => watcher'[v] = watcher[v],
         alive' \subseteq {registered'},
         watcher'[w].at = "watching" => alive' \subseteq {watcher'[w].process},
         watcher'[w].at = "confirming" => registered' = watcher'[w].process,
         watcher'[w].at \in {"backoff", "reaping"} => alive' = {}
  PROVE  Regular'
  <1>1. /\ w = controller.exitTask /\ ~controller.requestedStop
        /\ command.at = "none"
        /\ \A v \in Watchers : v # w => watcher[v].at = "idle"
    BY Sole
  <1>2. \A v \in Watchers : v # w => watcher'[v].at = "idle"
    BY <1>1
  <1>3. Cancellable'
    BY <1>1, <1>2 DEF Cancellable
  <1>4. Commanded'
    BY <1>1 DEF Commanded
  <1>5. Followed'
    BY <1>2 DEF Followed
  <1> QED  BY <1>3, <1>4, <1>5 DEF Regular

LEMMA NoticeExitInv ==
  ASSUME IInv, NEW w \in Watchers, NoticeExit(w)
  PROVE  IInv'
  <1> USE DEF IInv
  <1>1. /\ UNCHANGED <<alive, command, irregular, reliefs>>
        /\ watcher[w].at = "watching" /\ watcher[w].process \notin alive
    BY DEF NoticeExit
  <1>2. CASE /\ controller.requestedStop
             /\ watcher' = [watcher EXCEPT ![w] = IdleWatcher]
             /\ UNCHANGED <<controller, registered>>
    <2>1. IdleWatcher \in WatcherType
      BY Numbers DEF IdleWatcher, WatcherType
    <2>2. watcher' \in [Watchers -> WatcherType]
      BY <1>2, <2>1, OneMoves
    <2>3. TypeOK'
      BY <1>1, <1>2, <2>2, TypesKeep, SameTypes
    <2>4. irregular' = {} => FALSE
      BY <1>1, <1>2, Sole
    <2> QED  BY <2>3, <2>4
  <1>3. CASE /\ ~controller.requestedStop
             /\ registered' = NoProcess
             /\ controller' = UnexpectedExit
             /\ GoesOn(w, "backoff", NoProcess, NextTry(w))
    <2>1. NextTry(w) \in 0..RestartLimit
      BY Numbers, WatcherFields DEF NextTry
    <2>2. /\ watcher' \in [Watchers -> WatcherType]
          /\ watcher'[w].at = "idle" \/ (watcher'[w].at = "backoff" /\ watcher'[w].process = NoProcess)
          /\ \A v \in Watchers : v # w => watcher'[v] = watcher[v]
      BY <1>3, <2>1, GoesOnMoves
    <2>3. controller' \in ControllerType /\ controller'.requestedStop = controller.requestedStop
          /\ controller'.exitTask = controller.exitTask
      BY <1>3, ExitType
    <2>4. TypeOK'
      BY <1>1, <1>3, <2>2, <2>3, TypesKeep, SameTypes
    <2>5. ASSUME irregular' = {} PROVE Regular'
      <3>1. alive' = {}
        BY <1>1, <2>5 DEF Regular, Followed
      <3> QED  BY <1>1, <2>2, <2>3, <2>5, <3>1, SoleMoves
    <2> QED  BY <2>4, <2>5
  <1> QED  BY <1>2, <1>3 DEF NoticeExit

(* A watcher goes to another place, perhaps with another process, or with  *)
(* its count of restarts reset.                                            *)
LEMMA PlaceMoves ==
  ASSUME TypeOK, NEW w \in Watchers,
         NEW at \in {"idle", "watching", "backoff", "confirming", "reaping"},
         watcher' = [watcher EXCEPT ![w].at = at]
  PROVE  /\ watcher' \in [Watchers -> WatcherType]
         /\ watcher'[w].at = at /\ watcher'[w].process = watcher[w].process
         /\ \A v \in Watchers : v # w => watcher'[v] = watcher[v]
  BY SameTypes DEF WatcherType

LEMMA PlaceAndProcessMove ==
  ASSUME TypeOK, NEW w \in Watchers,
         NEW at \in {"idle", "watching", "backoff", "confirming", "reaping"},
         NEW p \in Processes \cup {NoProcess},
         watcher' = [watcher EXCEPT ![w].at = at, ![w].process = p]
  PROVE  /\ watcher' \in [Watchers -> WatcherType]
         /\ watcher'[w].at = at /\ watcher'[w].process = p
         /\ \A v \in Watchers : v # w => watcher'[v] = watcher[v]
  BY SameTypes DEF WatcherType

LEMMA PlaceMovesAnew ==
  ASSUME TypeOK, NEW w \in Watchers,
         NEW at \in {"idle", "watching", "backoff", "confirming", "reaping"},
         watcher' = [watcher EXCEPT ![w].at = at, ![w].tries = 0]
  PROVE  /\ watcher' \in [Watchers -> WatcherType]
         /\ watcher'[w].at = at /\ watcher'[w].process = watcher[w].process
         /\ \A v \in Watchers : v # w => watcher'[v] = watcher[v]
  <1>1. 0 \in 0..RestartLimit
    BY Numbers
  <1> QED  BY <1>1, SameTypes DEF WatcherType

LEMMA RespawnInv ==
  ASSUME IInv, NEW w \in Watchers, Respawn(w)
  PROVE  IInv'
  <1> USE DEF IInv
  <1>1. PICK p \in Fresh : Spawn(p) /\ watcher' = [watcher EXCEPT ![w].at = "confirming", ![w].process = p]
    BY DEF Respawn
  <1>2. p \in Processes /\ registered' = p /\ alive' = alive \cup {p}
    BY <1>1, FreshProcess DEF Spawn
  <1>3. UNCHANGED <<controller, command, irregular, reliefs>> /\ watcher[w].at = "backoff"
    BY DEF Respawn
  <1>4. /\ watcher' \in [Watchers -> WatcherType]
        /\ watcher'[w].at = "confirming" /\ watcher'[w].process = p
        /\ \A v \in Watchers : v # w => watcher'[v] = watcher[v]
    BY <1>1, <1>2, PlaceAndProcessMove
  <1>5. TypeOK'
    BY <1>2, <1>3, <1>4, TypesKeep, SameTypes
  <1>6. ASSUME irregular' = {} PROVE Regular'
    <2>1. alive' = {p}
      BY <1>2, <1>3, <1>6 DEF Regular, Followed
    <2> QED  BY <1>2, <1>3, <1>4, <1>6, <2>1, SoleMoves
  <1> QED  BY <1>5, <1>6

LEMMA RespawnConfirmedInv ==
  ASSUME IInv, NEW w \in Watchers, RespawnConfirmed(w)
  PROVE  IInv'
  <1> USE DEF IInv
  <1>1. /\ UNCHANGED <<registered, alive, command, irregular, reliefs>>
        /\ watcher[w].at = "confirming" /\ controller' = Online(watcher[w].process)
        /\ watcher' = [watcher EXCEPT ![w].at = "watching", ![w].tries = 0]
    BY DEF RespawnConfirmed
  <1>2. controller' \in ControllerType /\ controller'.requestedStop = controller.requestedStop
        /\ controller'.exitTask = controller.exitTask
    BY <1>1, WatcherFields, OnlineType
  <1>3. /\ watcher' \in [Watchers -> WatcherType]
        /\ watcher'[w].at = "watching" /\ watcher'[w].process = watcher[w].process
        /\ \A v \in Watchers : v # w => watcher'[v] = watcher[v]
    BY <1>1, PlaceMovesAnew
  <1>4. TypeOK'
    BY <1>1, <1>2, <1>3, TypesKeep, SameTypes
  <1>5. ASSUME irregular' = {} PROVE Regular'
    <2>1. alive \subseteq {registered} /\ registered = watcher[w].process
      BY <1>1, <1>5 DEF Regular, Followed
    <2> QED  BY <1>1, <1>2, <1>3, <1>5, <2>1, SoleMoves
  <1> QED  BY <1>4, <1>5

LEMMA RespawnFailsInv ==
  ASSUME IInv, NEW w \in Watchers, RespawnFails(w)
  PROVE  IInv'
  <1> USE DEF IInv
  <1>1. /\ UNCHANGED <<registered, command, irregular, reliefs>>
        /\ watcher[w].at \in {"backoff", "confirming"} /\ alive' = alive \ {registered}
    BY DEF RespawnFails
  <1>2. controller' \in ControllerType /\ controller'.requestedStop = controller.requestedStop
        /\ controller'.exitTask = controller.exitTask
    BY ExitType, ControllerFields DEF RespawnFails
  <1>3. /\ watcher' \in [Watchers -> WatcherType]
        /\ watcher'[w].at \in {"idle", "watching", "reaping"}
        /\ \A v \in Watchers : v # w => watcher'[v] = watcher[v]
    <2>1. CASE watcher' = [watcher EXCEPT ![w].at = "reaping"]
      BY <2>1, PlaceMoves
    <2>2. CASE GoesOn(w, "watching", watcher[w].process, watcher[w].tries)
      BY <2>2, WatcherFields, GoesOnMoves
    <2> QED  BY <2>1, <2>2 DEF RespawnFails
  <1>4. TypeOK'
    BY <1>1, <1>2, <1>3, TypesKeep, SameTypes
  <1>5. ASSUME irregular' = {} PROVE Regular'
    <2>1. alive' = {}
      BY <1>1, <1>5 DEF Regular
    <2> QED  BY <1>1, <1>2, <1>3, <1>5, <2>1, SoleMoves
  <1> QED  BY <1>4, <1>5

LEMMA ReapedInv ==
  ASSUME IInv, NEW w \in Watchers, Reaped(w)
  PROVE  IInv'
  <1> USE DEF IInv
  <1>1. /\ UNCHANGED <<alive, command, irregular, reliefs>> /\ registered' = NoProcess
        /\ watcher[w].at = "reaping" /\ controller' = UnexpectedExit
        /\ GoesOn(w, "watching", watcher[w].process, watcher[w].tries)
    BY DEF Reaped
  <1>2. controller' \in ControllerType /\ controller'.requestedStop = controller.requestedStop
        /\ controller'.exitTask = controller.exitTask
    BY <1>1, ExitType
  <1>3. /\ watcher' \in [Watchers -> WatcherType]
        /\ watcher'[w].at \in {"idle", "watching"}
        /\ \A v \in Watchers : v # w => watcher'[v] = watcher[v]
    BY <1>1, WatcherFields, GoesOnMoves
  <1>4. TypeOK'
    BY <1>1, <1>2, <1>3, TypesKeep, SameTypes
  <1>5. ASSUME irregular' = {} PROVE Regular'
    <2>1. alive' = {}
      BY <1>1, <1>5 DEF Regular, Followed
    <2> QED  BY <1>1, <1>2, <1>3, <1>5, <2>1, SoleMoves
  <1> QED  BY <1>4, <1>5

LEMMA StutterInv ==
  ASSUME IInv, UNCHANGED vars
  PROVE  IInv'
  BY DEF vars, IInv, TypeOK, Regular, Cancellable, Commanded, Followed

-----------------------------------------------------------------------------
(* The theorems                                                            *)

LEMMA Inductive ==
  IInv /\ [Next]_vars => IInv'
  <1> SUFFICES ASSUME IInv, [Next]_vars PROVE IInv'
    OBVIOUS
  <1>1. CASE Bind \/ Prune \/ Die
    BY <1>1, WorldInv
  <1>2. CASE Start
    BY <1>2, StartInv
  <1>3. CASE StartRefused
    BY <1>3, StartRefusedInv
  <1>4. CASE StartConfirmed
    BY <1>4, StartConfirmedInv
  <1>5. CASE StartFails
    BY <1>5, StartFailsInv
  <1>6. CASE Stop
    BY <1>6, StopInv
  <1>7. CASE StopDone
    BY <1>7, StopDoneInv
  <1>8. ASSUME NEW w \in Watchers, WatcherStep(w) PROVE IInv'
    <2>1. CASE NoticeExit(w)
      BY <2>1, NoticeExitInv
    <2>2. CASE Respawn(w)
      BY <2>2, RespawnInv
    <2>3. CASE RespawnConfirmed(w)
      BY <2>3, RespawnConfirmedInv
    <2>4. CASE RespawnFails(w)
      BY <2>4, RespawnFailsInv
    <2>5. CASE Reaped(w)
      BY <2>5, ReapedInv
    <2> QED  BY <1>8, <2>1, <2>2, <2>3, <2>4, <2>5 DEF WatcherStep
  <1>9. CASE UNCHANGED vars
    BY <1>9, StutterInv
  <1> QED  BY <1>1, <1>2, <1>3, <1>4, <1>5, <1>6, <1>7, <1>8, <1>9 DEF Next

(* The strengthened invariant of the publisher holds always.               *)
THEOREM InvariantHolds == Spec => []IInv
  BY InitInv, Inductive, PTL DEF Spec

(* The controller, the registry and the watchers keep their types; the     *)
(* restart budget (RestartBudget.consume) is never overdrawn.              *)
THEOREM TypesHold == Spec => []TypeOK
  <1>1. IInv => TypeOK
    BY DEF IInv
  <1> QED  BY <1>1, InvariantHolds, PTL

(* Unless a start comes while a watcher is to restart the publisher, or    *)
(* over what a failed start left, one process of it runs at most, and the  *)
(* supervisor has it registered.                                           *)
THEOREM NeverTwoProcesses == Spec => []OneProcess
  <1>1. IInv => OneProcess
    BY DEF IInv, Regular, OneProcess
  <1> QED  BY <1>1, InvariantHolds, PTL

(* With the same exceptions, after a stop nothing runs and nothing will be *)
(* spawned until the next start: BasePublisher.stop has cancelled the only *)
(* watcher.                                                                *)
THEOREM StopsAreFinal == Spec => []StopIsFinal
  <1>1. ASSUME IInv PROVE StopIsFinal
    <2> SUFFICES ASSUME irregular = {}, controller.requestedStop, command.at = "none"
                 PROVE  Active = {} /\ alive = {}
      BY DEF StopIsFinal
    <2>1. \A w \in Watchers : watcher[w].at = "idle"
      BY <1>1 DEF IInv, Regular, Cancellable
    <2>2. alive = {}
      BY <1>1 DEF IInv, Regular, Commanded
    <2> QED  BY <2>1, <2>2 DEF Active
  <1> QED  BY <1>1, InvariantHolds, PTL

-----------------------------------------------------------------------------
(* Watched while it is online. A process that a failed start left does not *)
(* matter here; a start that overlaps a watcher does.                      *)

Attended ==
  /\ Cancellable
  /\ command.at = "confirming" =>
       /\ \A w \in Watchers : watcher[w].at = "idle"
       /\ controller.pid = NoProcess
       /\ registered = command.process /\ registered # NoProcess /\ ~controller.requestedStop
  /\ command.at = "stopping" => controller.requestedStop
  /\ \A w \in Watchers :
       /\ watcher[w].at \in {"backoff", "confirming", "reaping"} => controller.pid = NoProcess
       /\ watcher[w].at = "confirming" => registered = watcher[w].process /\ registered # NoProcess
  /\ controller.pid # NoProcess /\ command.at # "stopping" =>
       /\ registered # NoProcess
       /\ \E w \in Watchers : watcher[w].at = "watching" /\ watcher[w].process = controller.pid

AInv == "overlap" \notin irregular => Attended

LEMMA Pids ==
  ASSUME TypeOK
  PROVE  /\ UnexpectedExit.pid = NoProcess
         /\ \A p \in Processes \cup {NoProcess} : Online(p).pid = p
  BY ControllerFields DEF UnexpectedExit, Online, ControllerType

(* The only active watcher moves, and no command is under way.             *)
LEMMA LoneMoves ==
  ASSUME Attended, NEW w \in Watchers, watcher[w].at # "idle", TypeOK,
         UNCHANGED command,
         controller'.requestedStop = controller.requestedStop, controller'.exitTask = controller.exitTask,
         \A v \in Watchers : v # w => watcher'[v] = watcher[v],
         \/ controller'.pid = NoProcess
         \/ /\ watcher'[w].at = "watching" /\ watcher'[w].process = controller'.pid
            /\ registered' # NoProcess,
         watcher'[w].at = "confirming" => registered' = watcher'[w].process /\ registered' # NoProcess
  PROVE  Attended'
  <1>1. /\ w = controller.exitTask /\ ~controller.requestedStop /\ command.at = "none"
        /\ \A v \in Watchers : v # w => watcher[v].at = "idle"
    BY SameTypes DEF Attended, Cancellable
  <1>2. \A v \in Watchers : v # w => watcher'[v].at = "idle"
    BY <1>1
  <1>3. Cancellable'
    BY <1>1, <1>2 DEF Cancellable
  <1> QED  BY <1>1, <1>2, <1>3 DEF Attended

LEMMA WorldAttended ==
  ASSUME TypeOK, Attended, Bind \/ Prune \/ Die
  PROVE  Attended'
  <1>1. /\ UNCHANGED <<registered, watcher, command>>
        /\ controller'.requestedStop = controller.requestedStop /\ controller'.exitTask = controller.exitTask
        /\ controller'.pid = controller.pid
    BY ControllerFields DEF Bind, Prune, Die, ControllerType
  <1> QED  BY <1>1 DEF Attended, Cancellable

LEMMA StartsAttended ==
  ASSUME TypeOK, AInv, "overlap" \notin irregular', Start \/ StartRefused
  PROVE  Attended'
  <1>1. /\ Active = {} /\ "overlap" \notin irregular
        /\ controller.pid = NoProcess /\ UNCHANGED watcher
    BY DEF Start, StartRefused
  <1>2. /\ \A w \in Watchers : watcher'[w].at = "idle"
        /\ Attended
    BY <1>1, NotActive DEF AInv
  <1>3. CASE Start
    <2>1. PICK p \in Fresh : Spawn(p) /\ command' = [at |-> "confirming", process |-> p]
      BY <1>3 DEF Start
    <2>2. p # NoProcess /\ registered' = p /\ command'.at = "confirming" /\ command'.process = p
      BY <2>1, FreshProcess DEF Spawn
    <2>3. controller'.pid = NoProcess /\ controller'.requestedStop = FALSE
      BY <1>1, <1>3, ControllerFields DEF Start, ControllerType
    <2> QED  BY <1>2, <2>2, <2>3 DEF Attended, Cancellable
  <1>4. CASE StartRefused
    <2>1. controller'.pid = NoProcess
      BY <1>4, Pids, ExitType DEF StartRefused, ControllerType
    <2>2. command'.at = "none"
      BY <1>4 DEF StartRefused
    <2> QED  BY <1>2, <2>1, <2>2 DEF Attended, Cancellable
  <1> QED  BY <1>3, <1>4

LEMMA StartEndsAttended ==
  ASSUME TypeOK, Attended, StartConfirmed \/ StartFails
  PROVE  Attended'
  <1>1. /\ command.at = "confirming" /\ command'.at = "none" /\ UNCHANGED registered
        /\ command.process \in Processes \cup {NoProcess}
    BY NoCommandType, SameTypes DEF StartConfirmed, StartFails
  <1>2. /\ \A w \in Watchers : watcher[w].at = "idle"
        /\ registered = command.process /\ registered # NoProcess /\ ~controller.requestedStop
    BY <1>1 DEF Attended
  <1>3. CASE StartConfirmed
    <2> DEFINE p == command.process
               r == [at |-> "watching", process |-> p, tries |-> 0]
    <2>1. PICK w \in Unused :
            /\ controller' = [Online(p) EXCEPT !.exitTask = w]
            /\ watcher' = [watcher EXCEPT ![w] = r]
      BY <1>3 DEF StartConfirmed
    <2>2. w \in Watchers
      BY DEF Unused
    <2>3. controller'.exitTask = w /\ controller'.pid = p /\ ~controller'.requestedStop
      <3>1. Online(p) \in ControllerType /\ Online(p).requestedStop = controller.requestedStop /\ Online(p).pid = p
        BY <1>1, OnlineType, Pids
      <3> QED  BY <1>2, <2>1, <3>1 DEF ControllerType
    <2>4. r \in WatcherType /\ r.at = "watching" /\ r.process = p
      BY <1>1, Numbers DEF WatcherType
    <2>5. watcher'[w] = r /\ \A v \in Watchers : v # w => watcher'[v].at = "idle"
      BY <1>2, <2>1, <2>2, <2>4, OneMoves
    <2> HIDE DEF p, r
    <2>6. Cancellable'
      BY <2>3, <2>5 DEF Cancellable
    <2> QED  BY <1>1, <1>2, <2>2, <2>3, <2>4, <2>5, <2>6 DEF Attended
  <1>4. CASE StartFails
    <2>1. controller'.pid = NoProcess /\ UNCHANGED watcher
      BY <1>4, Pids DEF StartFails
    <2> QED  BY <1>1, <1>2, <2>1 DEF Attended, Cancellable
  <1> QED  BY <1>3, <1>4

LEMMA StopsAttended ==
  ASSUME TypeOK, Attended, Stop \/ StopDone
  PROVE  Attended'
  <1>1. CASE Stop
    <2>1. controller'.pid = controller.pid /\ controller'.requestedStop /\ UNCHANGED registered /\ command.at = "none"
      BY <1>1, ControllerFields DEF Stop, ControllerType
    <2>2. \A w \in Watchers : watcher'[w] = IF w = controller.exitTask THEN IdleWatcher ELSE watcher[w]
      BY <1>1 DEF Stop
    <2>3. \A w \in Watchers : watcher'[w].at = "idle"
      BY <2>2 DEF IdleWatcher, Attended, Cancellable
    <2>4. controller.pid # NoProcess => registered # NoProcess /\ ~Reaping(registered)
      BY <2>1 DEF Attended, Reaping
    <2>5. \/ command'.at = "none" /\ (registered = NoProcess \/ Reaping(registered))
          \/ command'.at = "stopping"
      BY <1>1, <2>1, CommandType DEF Stop
    <2> QED  BY <2>1, <2>3, <2>4, <2>5 DEF Attended, Cancellable
  <1>2. CASE StopDone
    <2>1. controller'.pid = NoProcess /\ controller'.requestedStop = controller.requestedStop
      BY <1>2, ControllerFields DEF StopDone, ControllerType
    <2>2. command.at = "stopping" /\ command'.at = "none" /\ UNCHANGED watcher
      BY <1>2, NoCommandType DEF StopDone
    <2>3. \A w \in Watchers : watcher'[w].at = "idle"
      BY <2>2 DEF Attended, Cancellable
    <2> QED  BY <2>1, <2>2, <2>3 DEF Attended, Cancellable
  <1> QED  BY <1>1, <1>2

LEMMA WatcherAttended ==
  ASSUME TypeOK, Attended, NEW w \in Watchers, WatcherStep(w)
  PROVE  Attended'
  <1>1. watcher[w].at # "idle" /\ UNCHANGED command
    BY DEF WatcherStep, NoticeExit, Respawn, RespawnConfirmed, RespawnFails, Reaped
  <1>2. ~controller.requestedStop
    BY <1>1 DEF Attended, Cancellable
  <1>3. CASE NoticeExit(w)
    <2>1. NextTry(w) \in 0..RestartLimit
      BY Numbers, WatcherFields DEF NextTry
    <2>2. controller' = UnexpectedExit /\ GoesOn(w, "backoff", NoProcess, NextTry(w))
      BY <1>2, <1>3 DEF NoticeExit
    <2>3. /\ watcher'[w].at \in {"idle", "backoff"}
          /\ \A v \in Watchers : v # w => watcher'[v] = watcher[v]
      BY <2>1, <2>2, GoesOnMoves
    <2> QED  BY <1>1, <2>2, <2>3, ExitType, Pids, LoneMoves
  <1>4. CASE Respawn(w)
    <2>1. PICK p \in Fresh : Spawn(p) /\ watcher' = [watcher EXCEPT ![w].at = "confirming", ![w].process = p]
      BY <1>4 DEF Respawn
    <2>2. p \in Processes /\ p # NoProcess /\ registered' = p
      BY <2>1, FreshProcess DEF Spawn
    <2>3. /\ watcher'[w].at = "confirming" /\ watcher'[w].process = p
          /\ \A v \in Watchers : v # w => watcher'[v] = watcher[v]
      BY <2>1, <2>2, PlaceAndProcessMove
    <2>4. UNCHANGED controller /\ controller.pid = NoProcess
      BY <1>4 DEF Respawn, Attended
    <2> QED  BY <1>1, <2>2, <2>3, <2>4, LoneMoves
  <1>5. CASE RespawnConfirmed(w)
    <2>1. /\ UNCHANGED registered /\ watcher[w].at = "confirming" /\ controller' = Online(watcher[w].process)
          /\ watcher' = [watcher EXCEPT ![w].at = "watching", ![w].tries = 0]
      BY <1>5 DEF RespawnConfirmed
    <2>2. /\ watcher'[w].at = "watching" /\ watcher'[w].process = watcher[w].process
          /\ \A v \in Watchers : v # w => watcher'[v] = watcher[v]
      BY <2>1, PlaceMovesAnew
    <2>3. /\ controller'.pid = watcher[w].process /\ controller'.requestedStop = controller.requestedStop
          /\ controller'.exitTask = controller.exitTask
      BY <2>1, WatcherFields, OnlineType, Pids
    <2>4. registered' # NoProcess
      BY <2>1 DEF Attended
    <2> QED  BY <1>1, <2>2, <2>3, <2>4, LoneMoves
  <1>6. CASE RespawnFails(w)
    <2>1. watcher[w].at \in {"backoff", "confirming"} /\ controller.pid = NoProcess
      BY <1>6 DEF RespawnFails, Attended
    <2>2. /\ controller'.pid = NoProcess /\ controller'.requestedStop = controller.requestedStop
          /\ controller'.exitTask = controller.exitTask
      BY <1>6, <2>1, ExitType, Pids DEF RespawnFails
    <2>3. /\ watcher'[w].at \in {"idle", "watching", "reaping"}
          /\ \A v \in Watchers : v # w => watcher'[v] = watcher[v]
      <3>1. CASE watcher' = [watcher EXCEPT ![w].at = "reaping"]
        BY <3>1, PlaceMoves
      <3>2. CASE GoesOn(w, "watching", watcher[w].process, watcher[w].tries)
        BY <3>2, WatcherFields, GoesOnMoves
      <3> QED  BY <1>6, <3>1, <3>2 DEF RespawnFails
    <2> QED  BY <1>1, <2>2, <2>3, LoneMoves
  <1>7. CASE Reaped(w)
    <2>1. controller' = UnexpectedExit /\ GoesOn(w, "watching", watcher[w].process, watcher[w].tries)
      BY <1>7 DEF Reaped
    <2>2. /\ watcher'[w].at \in {"idle", "watching"}
          /\ \A v \in Watchers : v # w => watcher'[v] = watcher[v]
      BY <2>1, WatcherFields, GoesOnMoves
    <2> QED  BY <1>1, <2>1, <2>2, ExitType, Pids, LoneMoves
  <1> QED  BY <1>3, <1>4, <1>5, <1>6, <1>7 DEF WatcherStep

LEMMA AttendedInductive ==
  TypeOK /\ AInv /\ [Next]_vars => AInv'
  <1> SUFFICES ASSUME TypeOK, AInv, [Next]_vars, "overlap" \notin irregular' PROVE Attended'
    BY DEF AInv
  <1>1. CASE Start \/ StartRefused
    BY <1>1, StartsAttended
  <1>2. ASSUME UNCHANGED irregular PROVE Attended
    BY <1>2 DEF AInv
  <1>3. CASE Bind \/ Prune \/ Die
    <2>1. UNCHANGED irregular
      BY <1>3 DEF Bind, Prune, Die
    <2> QED  BY <1>2, <1>3, <2>1, WorldAttended
  <1>4. CASE StartConfirmed \/ StartFails
    <2>1. UNCHANGED irregular
      BY <1>4 DEF StartConfirmed, StartFails
    <2> QED  BY <1>2, <1>4, <2>1, StartEndsAttended
  <1>5. CASE Stop \/ StopDone
    <2>1. UNCHANGED irregular
      BY <1>5 DEF Stop, StopDone
    <2> QED  BY <1>2, <1>5, <2>1, StopsAttended
  <1>6. ASSUME NEW w \in Watchers, WatcherStep(w) PROVE Attended'
    <2>1. UNCHANGED irregular
      BY <1>6 DEF WatcherStep, NoticeExit, Respawn, RespawnConfirmed, RespawnFails, Reaped
    <2> QED  BY <1>2, <1>6, <2>1, WatcherAttended
  <1>7. CASE UNCHANGED vars
    BY <1>2, <1>7 DEF vars, Attended, Cancellable
  <1> QED  BY <1>1, <1>3, <1>4, <1>5, <1>6, <1>7 DEF Next

LEMMA InitAttended ==
  Init => AInv
  <1> SUFFICES ASSUME Init PROVE Attended
    BY DEF AInv
  <1>1. /\ \A w \in Watchers : watcher[w].at = "idle"
        /\ command.at = "none" /\ controller.pid = NoProcess
    BY DEF Init, IdleWatcher, NoCommand
  <1> QED  BY <1>1 DEF Attended, Cancellable

(* A publisher that is online has a watcher that will notice its exit, or  *)
(* is being stopped, unless a start came while a watcher meant to restart  *)
(* it: neither a failed restart nor a process reaped elsewhere loses the   *)
(* watcher (coordinator.py, _watch_and_restart).                           *)
THEOREM OnlineStaysWatched == Spec => []OnlineIsWatched
  <1>1. AInv => OnlineIsWatched
    BY DEF AInv, Attended, OnlineIsWatched
  <1>2. Spec => []AInv
    BY InitAttended, AttendedInductive, TypesHold, PTL DEF Spec
  <1> QED  BY <1>1, <1>2, PTL

=============================================================================
