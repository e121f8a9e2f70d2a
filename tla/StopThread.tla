---------------------------- MODULE StopThread ----------------------------
(***************************************************************************)
(* What ends a mission from outside its thread: StopAll on the stop        *)
(* group's thread, the deadman on the timers' threads, a client's cancel,  *)
(* the watchdog, and shutdown() on the main thread.                        *)
(***************************************************************************)
EXTENDS ExecutorState

stopFrame == <<missionVars, leafVars, lender, armsHeld, handVars, robotVars,
               deadline, watchdog, trouble, timeoutOn, walks, main>>

At(s, place) == stopper[s].at = place

(* Teleop's ramp down: active_ ends, stopping_ goes on. *)
TeleopDisabled == teleop' = IF teleop = "on" THEN "ramping" ELSE teleop
-----------------------------------------------------------------------------
(* stopEverything() *)

(* A StopAll request.  aim is the mission it finds running. *)
OnStopAll ==
    /\ At("operator", "idle") /\ stops < MaxStops /\ main # "down"
    /\ stops' = stops + 1
    /\ stopper' = [stopper EXCEPT !["operator"] =
                      [at |-> "asked", aim |-> running, hit |-> None,
                       cause |-> "NONE", ok |-> FALSE]]
    /\ TeleopDisabled
    /\ UNCHANGED <<claimVars, deadmanFired, lentTo, releasing, lentUntil,
                   letgo, stopped, stopFrame>>

(* deadman(): running_, the heartbeat and the robot's health are read, and *)
(* then stopEverything() starts; no mutex spans the two.                   *)
DeadmanTrips ==
    \/ timeoutOn /\ trouble = "silent"
    \/ walks /\ trouble = "unfit"

(* Slip: only the heartbeat is watched. *)
DeadmanHeartbeat(s) ==
    /\ At(s, "idle") /\ main # "down"
    /\ running # None /\ ~deadmanFired
    /\ timeoutOn /\ trouble = "silent"
    /\ deadmanFired' = TRUE
    /\ stopper' = [stopper EXCEPT ![s] =
                      [at |-> "asked", aim |-> running, hit |-> None,
                       cause |-> "DEADMAN", ok |-> FALSE]]
    /\ TeleopDisabled
    /\ UNCHANGED <<claimVars, lentTo, releasing, lentUntil, letgo, stops,
                   stopped, stopFrame>>

Deadman(s) ==
    /\ At(s, "idle") /\ main # "down"
    /\ running # None /\ ~deadmanFired
    /\ DeadmanTrips
    /\ deadmanFired' = TRUE
    /\ stopper' = [stopper EXCEPT ![s] =
                      [at |-> "asked", aim |-> running, hit |-> None,
                       cause |-> IF trouble = "silent" THEN "DEADMAN" ELSE "ROBOT",
                       ok |-> FALSE]]
    /\ TeleopDisabled
    /\ UNCHANGED <<claimVars, lentTo, releasing, lentUntil, letgo, stops,
                   stopped, stopFrame>>

(* Under stop_mutex_: whether a mission runs, and the flags for it.  The   *)
(* first stop says why.                                                    *)
RaiseFlags(s) ==
    /\ At(s, "asked")
    /\ stopper' = [stopper EXCEPT ![s].at = "cancel", ![s].hit = running]
    /\ IF running = None
       THEN UNCHANGED <<stopCause, stopRequested, halting>>
       ELSE /\ stopCause' = IF stopRequested THEN stopCause ELSE stopper[s].cause
            /\ stopRequested' = TRUE
            /\ halting' = TRUE
    /\ UNCHANGED <<running, deadmanFired, lentTo, releasing, lentUntil, letgo,
                   stops, stopped, teleop, stopFrame>>

stopGoalFrame == <<claimVars, deadmanFired, missionVars, cur, leaf, lender,
                   armsHeld, handVars, robotVars, deadline, watchdog, trouble,
                   timeoutOn, walks, lentTo, releasing, lentUntil, letgo, stops,
                   stopped, teleop, main>>

CancelGoals(s) ==
    /\ At(s, "cancel")
    /\ CancelAll
    /\ stopper' = [stopper EXCEPT ![s].at = "wait"]
    /\ UNCHANGED stopGoalFrame

(* The wait for halted_, for a stop that found a mission, ends with it or  *)
(* at stop_wait_s; then whatever was accepted since is asked to stop.      *)
AwaitHalted(s) ==
    /\ At(s, "wait")
    /\ stopper' = [stopper EXCEPT ![s].at = "settle",
                                  ![s].ok = halted \/ stopper[s].hit = None]
    /\ CancelAll
    /\ UNCHANGED stopGoalFrame

(* Slip: the answer does not say that a server is still busy. *)
SettleServersBlind(s) ==
    /\ At(s, "settle")
    /\ stopper' = [stopper EXCEPT ![s].at = "note"]
    /\ TakeBack
    /\ UNCHANGED <<claimVars, deadmanFired, stops, stopped, teleop, stopFrame>>

(* The servers went quiet or the wait ran out; a lend ends with the stop. *)
SettleServers(s) ==
    /\ At(s, "settle")
    /\ stopper' = [stopper EXCEPT ![s].at = "note", ![s].ok = @ /\ ~Busy]
    /\ TakeBack
    /\ UNCHANGED <<claimVars, deadmanFired, stops, stopped, teleop, stopFrame>>

NoteStopped(s) ==
    /\ At(s, "note")
    /\ stopped' = TRUE
    /\ stopper' = [stopper EXCEPT ![s].at = "idle"]
    /\ UNCHANGED <<claimVars, deadmanFired, lentTo, releasing, lentUntil, letgo,
                   stops, teleop, stopFrame>>

StopStep(s) ==
    \/ RaiseFlags(s)
    \/ CancelGoals(s)
    \/ AwaitHalted(s)
    \/ SettleServers(s)
    \/ NoteStopped(s)
-----------------------------------------------------------------------------
(* handleCancel(): on the action group's thread, so not while a mission is *)
(* being started.                                                          *)
CancelMission(m) ==
    /\ "cancel" \in Requests
    /\ pc[m] \notin {"new", "refused", "done"} /\ m \notin canceling
    /\ \A n \in Missions : pc[n] \notin {"claimed", "joining"}
    /\ canceling' = canceling \union {m}
    /\ halting' = (halting \/ running = m)
    /\ UNCHANGED <<running, stopRequested, stopCause, timerVars, halted, pc,
                   outcome, seen, leafVars, lendVars, armVars, stopVars, teleop,
                   main>>

(* watchdog(): deadline_ticks_ is read, then halting_ is set, unlocked. *)
WatchdogReads ==
    /\ watchdog = "idle" /\ deadline = "past"
    /\ watchdog' = "fire"
    /\ UNCHANGED <<claimVars, deadline, trouble, timeoutOn, walks, deadmanFired,
                   missionVars, leafVars, lendVars, armVars, stopVars, teleop,
                   main>>

WatchdogFires ==
    /\ watchdog = "fire"
    /\ watchdog' = "idle"
    /\ halting' = TRUE
    /\ UNCHANGED <<running, stopRequested, stopCause, deadline, trouble,
                   timeoutOn, walks, deadmanFired, missionVars, leafVars,
                   lendVars, armVars, stopVars, teleop, main>>
-----------------------------------------------------------------------------
(* shutdown() *)

mainFrame == <<running, stopRequested, stopCause, timerVars, missionVars,
               leafVars, lendVars, armsHeld, handVars, robotVars, stopVars,
               teleop>>

Shutdown ==
    /\ main = "up" /\ "shutdown" \in Requests
    /\ main' = "joining"
    /\ halting' = TRUE
    /\ UNCHANGED <<letgo, mainFrame>>

(* Slip: the worker is not joined. *)
JoinWorkerNot ==
    /\ main = "joining"
    /\ main' = "reaping"
    /\ UNCHANGED <<halting, letgo, mainFrame>>

(* The worker is joined under worker_mutex_, so after a mission's start. *)
JoinWorker ==
    /\ main = "joining"
    /\ \A m \in Missions : pc[m] \in {"new", "refused", "done"}
    /\ main' = "reaping"
    /\ UNCHANGED <<halting, letgo, mainFrame>>

JoinReleaser ==
    /\ main = "reaping" /\ ~releasing
    /\ main' = "lettinggo"
    /\ letgo' = [letgo EXCEPT !["main"] = "look"]
    /\ UNCHANGED <<halting, mainFrame>>

(* The executor is cancelled and the process ends. *)
GoDown ==
    /\ main = "lettinggo" /\ letgo["main"] = "idle"
    /\ main' = "down"
    /\ UNCHANGED <<halting, letgo, mainFrame>>

ShutdownStep == JoinWorker \/ JoinReleaser \/ GoDown
=============================================================================
