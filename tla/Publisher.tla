------------------------------- MODULE Publisher -------------------------------
(***************************************************************************)
(* One publisher of the pipeline manager: its controller                   *)
(* (publishers/base.py), the commands that start and stop it and the       *)
(* watcher that restarts it (publishers/coordinator.py). Commands are      *)
(* serialised by a lock; a watcher runs outside it and is reached only     *)
(* through the controller's exit task. The supervisor registers one        *)
(* process per identity: registering another overwrites it, and forgetting *)
(* drops whichever is there.                                               *)
(***************************************************************************)
EXTENDS Naturals, FiniteSets

CONSTANTS
  RestartLimit,  \* attempts in a window, 3
  Processes,     \* process ids; an id is used again once nobody refers to it
  Watchers,      \* bound on watchers that run at once
  MaxReliefs     \* bound on attempts that leave the window and on bindings

NoProcess == 0
NoWatcher == 0

ASSUME PublisherAssumption ==
  /\ RestartLimit \in Nat \ {0} /\ MaxReliefs \in Nat
  /\ Processes \subseteq Nat \ {NoProcess} /\ Watchers \subseteq Nat \ {NoWatcher}
  /\ IsFiniteSet(Processes) /\ IsFiniteSet(Watchers)

VARIABLES
  controller,  \* the PublisherController
  registered,  \* the supervisor's process of this identity
  alive,       \* the processes that run
  watcher,     \* where each watcher waits, and its current process
  command,     \* the command that holds the lock
  irregular,   \* "overlap": started while a watcher meant to restart it;
               \* "leftover": started over a process of a failed start
  reliefs

vars == <<controller, registered, alive, watcher, command, irregular, reliefs>>

IdleWatcher == [at |-> "idle", process |-> NoProcess, tries |-> 0]
NoCommand == [at |-> "none", process |-> NoProcess]

Init ==
  /\ controller = [bound |-> FALSE, pid |-> NoProcess, state |-> "offline",
                   requestedStop |-> FALSE, exitTask |-> NoWatcher, attempts |-> 0]
  /\ registered = NoProcess /\ alive = {}
  /\ watcher = [w \in Watchers |-> IdleWatcher]
  /\ command = NoCommand
  /\ irregular = {} /\ reliefs = 0

Active == {w \in Watchers : watcher[w].at # "idle"}

(* The lowest free id stands for whichever the kernel gives.               *)
Free ==
  Processes \ (alive \cup {registered, controller.pid, command.process}
                     \cup {watcher[w].process : w \in Watchers})

Fresh == {p \in Free : \A q \in Free : p <= q}
Unused == {w \in Watchers \ Active : \A v \in Watchers \ Active : w <= v}

(* The mutant is off by one.                                               *)
ExhaustedLate == controller.attempts > RestartLimit

Exhausted == controller.attempts >= RestartLimit

(* The mutant leaves the pid of the process that is gone.                  *)
UnexpectedExitKeepsPid ==
  [controller EXCEPT !.state = IF Exhausted THEN "offline" ELSE "degraded",
                     !.attempts = IF Exhausted THEN @ ELSE @ + 1]

(* An exit consumes an attempt, or finds the budget exhausted.             *)
UnexpectedExit ==
  [controller EXCEPT !.pid = NoProcess,
                     !.state = IF Exhausted THEN "offline" ELSE "degraded",
                     !.attempts = IF Exhausted THEN @ ELSE @ + 1]

Online(p) == [controller EXCEPT !.pid = p, !.state = "online", !.attempts = 0]

(* What is left when `supervisor.start' has returned.                      *)
Spawn(p) == /\ registered' = p
            /\ alive' = alive \cup {p}

----------------------------------------------------------------------------
(* Commands, one at a time.                                                *)

Bind ==
  /\ reliefs < MaxReliefs /\ reliefs' = reliefs + 1
  /\ controller' = [controller EXCEPT !.bound = TRUE, !.attempts = 0]
  /\ UNCHANGED <<registered, alive, watcher, command, irregular>>

Start ==
  /\ command.at = "none" /\ controller.pid = NoProcess /\ controller.bound
  /\ \E p \in Fresh :
       /\ Spawn(p)
       /\ command' = [at |-> "confirming", process |-> p]
  /\ controller' = [controller EXCEPT !.requestedStop = FALSE]
  /\ irregular' = irregular \cup (IF Active = {} THEN {} ELSE {"overlap"})
                            \cup (IF registered = NoProcess THEN {} ELSE {"leftover"})
  /\ UNCHANGED <<watcher, reliefs>>

(* No binding, or the process cannot be spawned.                           *)
StartRefused ==
  /\ command.at = "none" /\ controller.pid = NoProcess
  /\ controller' = [UnexpectedExit EXCEPT !.requestedStop = FALSE]
  /\ irregular' = irregular \cup (IF Active = {} THEN {} ELSE {"overlap"})
  /\ UNCHANGED <<registered, alive, watcher, command, reliefs>>

StartConfirmed ==
  /\ command.at = "confirming"
  /\ \E w \in Unused :
       /\ controller' = [Online(command.process) EXCEPT !.exitTask = w]
       /\ watcher' = [watcher EXCEPT ![w] = [at |-> "watching", process |-> command.process,
                                             tries |-> 0]]
  /\ command' = NoCommand
  /\ UNCHANGED <<registered, alive, irregular, reliefs>>

(* The process is neither killed nor forgotten.                            *)
StartFails ==
  /\ command.at = "confirming"
  /\ controller' = UnexpectedExit
  /\ command' = NoCommand
  /\ UNCHANGED <<registered, alive, watcher, irregular, reliefs>>

(* The mutant of Stop forgets the watcher.                                 *)
StopWithoutCancel ==
  /\ command.at = "none"
  /\ controller' = [controller EXCEPT !.requestedStop = TRUE, !.exitTask = NoWatcher]
  /\ command' = IF registered = NoProcess THEN NoCommand
                ELSE [at |-> "stopping", process |-> registered]
  /\ UNCHANGED <<registered, alive, watcher, irregular, reliefs>>

Reaping(p) == \E w \in Watchers : watcher[w].at = "reaping" /\ p = registered

(* A registered process that a watcher has killed may be reaped by now:    *)
(* then the signal raises, and the command ends there.                     *)
Stop ==
  /\ command.at = "none"
  /\ controller' = [controller EXCEPT !.requestedStop = TRUE, !.exitTask = NoWatcher]
  /\ watcher' = [w \in Watchers |-> IF w = controller.exitTask THEN IdleWatcher ELSE watcher[w]]
  /\ \/ /\ registered = NoProcess
        /\ UNCHANGED command
     \/ /\ registered # NoProcess
        /\ command' = [at |-> "stopping", process |-> registered]
     \/ /\ Reaping(registered)
        /\ UNCHANGED command
  /\ UNCHANGED <<registered, alive, irregular, reliefs>>

StopDone ==
  /\ command.at = "stopping"
  /\ alive' = alive \ {command.process}
  /\ registered' = NoProcess
  /\ controller' = [controller EXCEPT !.pid = NoProcess, !.state = "offline"]
  /\ command' = NoCommand
  /\ UNCHANGED <<watcher, irregular, reliefs>>

----------------------------------------------------------------------------
(* The watchers.                                                           *)

(* Restarts since it last was confirmed, counted up to the limit.          *)
NextTry(w) == IF watcher[w].tries < RestartLimit THEN watcher[w].tries + 1 ELSE RestartLimit

(* After an exit a watcher goes on to `at', or gives up. A process that is *)
(* known to be dead is kept as NoProcess.                                  *)
GoesOn(w, at, p, tries) ==
  watcher' = [watcher EXCEPT ![w] = IF Exhausted THEN IdleWatcher
                                    ELSE [at |-> at, process |-> p, tries |-> tries]]

NoticeExit(w) ==
  /\ watcher[w].at = "watching" /\ watcher[w].process \notin alive
  /\ \/ /\ controller.requestedStop
        /\ watcher' = [watcher EXCEPT ![w] = IdleWatcher]
        /\ UNCHANGED <<controller, registered>>
     \/ /\ ~controller.requestedStop
        /\ registered' = NoProcess
        /\ controller' = UnexpectedExit
        /\ GoesOn(w, "backoff", NoProcess, NextTry(w))
  /\ UNCHANGED <<alive, command, irregular, reliefs>>

(* Neither the stop nor another start is looked at again.                  *)
Respawn(w) ==
  /\ watcher[w].at = "backoff"
  /\ \E p \in Fresh :
       /\ Spawn(p)
       /\ watcher' = [watcher EXCEPT ![w].at = "confirming", ![w].process = p]
  /\ UNCHANGED <<controller, command, irregular, reliefs>>

RespawnConfirmed(w) ==
  /\ watcher[w].at = "confirming"
  /\ controller' = Online(watcher[w].process)
  /\ watcher' = [watcher EXCEPT ![w].at = "watching", ![w].tries = 0]
  /\ UNCHANGED <<registered, alive, command, irregular, reliefs>>

(* The mutant leaves the process that was not confirmed, as a start does.  *)
RespawnFailsUnreaped(w) ==
  /\ watcher[w].at \in {"backoff", "confirming"}
  /\ controller' = UnexpectedExit
  /\ GoesOn(w, "backoff", NoProcess, watcher[w].tries)
  /\ UNCHANGED <<alive, registered, command, irregular, reliefs>>

(* The mutant lets the exception end the watcher.                          *)
RespawnFailsUncaught(w) ==
  /\ watcher[w].at \in {"backoff", "confirming"}
  /\ watcher' = [watcher EXCEPT ![w] = IdleWatcher]
  /\ UNCHANGED <<controller, registered, alive, command, irregular, reliefs>>

(* The spawn raises or is not confirmed: the process that is registered is *)
(* killed and waited for. With none, the loop looks at its own again after *)
(* a sleep, which is left out.                                             *)
RespawnFails(w) ==
  /\ watcher[w].at \in {"backoff", "confirming"}
  /\ alive' = alive \ {registered}
  /\ \/ /\ registered # NoProcess
        /\ watcher' = [watcher EXCEPT ![w].at = "reaping"]
        /\ UNCHANGED controller
     \/ /\ registered = NoProcess
        /\ controller' = UnexpectedExit
        /\ GoesOn(w, "watching", watcher[w].process, watcher[w].tries)
  /\ UNCHANGED <<registered, command, irregular, reliefs>>

Reaped(w) ==
  /\ watcher[w].at = "reaping"
  /\ registered' = NoProcess
  /\ controller' = UnexpectedExit
  /\ GoesOn(w, "watching", watcher[w].process, watcher[w].tries)
  /\ UNCHANGED <<alive, command, irregular, reliefs>>

----------------------------------------------------------------------------
(* The world.                                                              *)

Die ==
  /\ \E p \in alive : alive' = alive \ {p}
  /\ UNCHANGED <<controller, registered, watcher, command, irregular, reliefs>>

(* The oldest attempt leaves the window.                                   *)
Prune ==
  /\ reliefs < MaxReliefs /\ reliefs' = reliefs + 1
  /\ controller.attempts > 0
  /\ controller' = [controller EXCEPT !.attempts = @ - 1]
  /\ UNCHANGED <<registered, alive, watcher, command, irregular>>

WatcherStep(w) ==
  NoticeExit(w) \/ Respawn(w) \/ RespawnConfirmed(w) \/ RespawnFails(w) \/ Reaped(w)

Next ==
  \/ Bind \/ Start \/ StartRefused \/ StartConfirmed \/ StartFails \/ Stop \/ StopDone
  \/ Die \/ Prune
  \/ \E w \in Watchers : WatcherStep(w)

Spec == Init /\ [][Next]_vars

(* A watcher runs on: its sleeps end, and a confirmation ends or times out.*)
FairSpec == Spec /\ \A w \in Watchers : WF_vars(WatcherStep(w))

----------------------------------------------------------------------------
(* Types, and the budget is never overdrawn.                               *)
TypeOK ==
  /\ controller \in [bound : BOOLEAN, pid : Processes \cup {NoProcess},
                     state : {"offline", "online", "degraded"}, requestedStop : BOOLEAN,
                     exitTask : Watchers \cup {NoWatcher}, attempts : 0..RestartLimit]
  /\ registered \in Processes \cup {NoProcess} /\ alive \subseteq Processes
  /\ watcher \in [Watchers -> [at : {"idle", "watching", "backoff", "confirming", "reaping"},
                               process : Processes \cup {NoProcess}, tries : 0..RestartLimit]]
  /\ command \in [at : {"none", "confirming", "stopping"},
                  process : Processes \cup {NoProcess}]
  /\ irregular \subseteq {"overlap", "leftover"} /\ reliefs \in 0..MaxReliefs

(* A publisher that is online with a process is watched: some watcher will *)
(* notice its exit, or a stop is under way. Unless a start came while a    *)
(* watcher meant to restart it: a kill by that watcher drops the new one   *)
(* from the registry, and a stop then leaves the pid of nothing.           *)
OnlineIsWatched ==
  controller.pid # NoProcess /\ "overlap" \notin irregular =>
    \/ command.at = "stopping"
    \/ \E w \in Watchers : watcher[w].at = "watching" /\ watcher[w].process = controller.pid

(* Two publishers never write to one socket: at most one process runs, and *)
(* the supervisor can still reach it. Unless a start came while a watcher  *)
(* meant to restart, or over what a failed start left.                     *)
OneProcess == irregular = {} => alive \subseteq {registered}

(* A stop is final: when it has ended nothing runs and nothing will be     *)
(* spawned, until the next start.                                          *)
StopIsFinal ==
  irregular = {} /\ controller.requestedStop /\ command.at = "none" =>
    Active = {} /\ alive = {}

(* A publisher whose process was lost is brought back, given up or stopped.*)
ComesBack ==
  (irregular = {} /\ Active # {} /\ controller.pid = NoProcess) ~>
    (\/ controller.pid # NoProcess \/ controller.state = "offline"
     \/ controller.requestedStop \/ irregular # {})

(* A dead publisher is restarted three times before it is given up.        *)
Restarted3Times ==
  [][\A w \in Watchers :
       irregular = {} /\ watcher[w].at # "idle" /\ watcher'[w].at = "idle" /\ ~controller'.requestedStop
         => watcher[w].tries >= RestartLimit]_vars
=============================================================================
