--------------------------- MODULE MissionThread ---------------------------
(***************************************************************************)
(* A mission's life in MissionExecutor: startMission() on the action       *)
(* group's thread, then run(), execute(), takeAuthority(), tickLoop(),     *)
(* halt() and finish() on the worker thread, with the action leaves of its *)
(* tree and the watchdog's timer.                                          *)
(***************************************************************************)
EXTENDS ArmRelease

(* Where m's thread goes next. *)
Goto(m, phase) == pc' = [pc EXCEPT ![m] = phase]
Ends(m, code, cause) == outcome' = [outcome EXCEPT ![m] = <<code, cause>>]
-----------------------------------------------------------------------------
(* startMission() *)

(* The check and the claim under stop_mutex_.  worker_mutex_ and the       *)
(* action group keep a second call out until the thread is started.        *)
Claimable(m) ==
    /\ main = "up"
    /\ running = None
    /\ Mode[m] = "EXECUTE" => teleop # "on" /\ lentTo = None

StartMission(m) ==
    /\ pc[m] = "new"
    /\ main # "down"
    /\ \A n \in Missions : pc[n] \notin {"claimed", "joining"}
    /\ IF Claimable(m)
       THEN /\ running' = m
            /\ stopRequested' = FALSE
            /\ halting' = FALSE
            /\ Goto(m, "claimed")
            /\ UNCHANGED outcome
       ELSE /\ Goto(m, "refused")
            /\ Ends(m, "REJECTED", IF main = "up" THEN "NONE" ELSE "SHUTDOWN")
            /\ UNCHANGED <<running, stopRequested, halting>>
    /\ UNCHANGED <<stopCause, timerVars, halted, canceling, seen, leafVars,
                   lendVars, armVars, stopVars, teleop, main>>

(* halted_ is cleared under its own mutex, after the claim. *)
ClearHalted(m) ==
    /\ pc[m] = "claimed"
    /\ halted' = FALSE
    /\ Goto(m, "joining")
    /\ UNCHANGED <<claimVars, timerVars, outcome, canceling, seen, leafVars,
                   lendVars, armVars, stopVars, teleop, main>>

(* The last worker is joined, then the new one starts. *)
SpawnWorker(m) ==
    /\ pc[m] = "joining"
    /\ \A n \in Missions : pc[n] # "reporting"
    /\ Goto(m, "entered")
    /\ UNCHANGED <<claimVars, timerVars, halted, outcome, canceling, seen,
                   leafVars, lendVars, armVars, stopVars, teleop, main>>

(* Slip: the claim outlives the thread that was not made. *)
SpawnFailsClaimed(m) ==
    /\ "spawnfails" \in Requests
    /\ pc[m] = "joining"
    /\ \A n \in Missions : pc[n] # "reporting"
    /\ halted' = TRUE
    /\ Goto(m, "done")
    /\ Ends(m, "ERROR", "NONE")
    /\ UNCHANGED <<claimVars, timerVars, canceling, seen, leafVars, lendVars,
                   armVars, stopVars, teleop, main>>

(* The thread could not be made: the claim is undone. *)
SpawnFails(m) ==
    /\ "spawnfails" \in Requests
    /\ pc[m] = "joining"
    /\ \A n \in Missions : pc[n] # "reporting"
    /\ halted' = TRUE
    /\ running' = None
    /\ Goto(m, "done")
    /\ Ends(m, "ERROR", "NONE")
    /\ UNCHANGED <<stopRequested, stopCause, halting, timerVars, canceling,
                   seen, leafVars, lendVars, armVars, stopVars, teleop, main>>
-----------------------------------------------------------------------------
(* execute() up to the first tick *)

ShuttingDown == main # "up"

(* The deadman's clock starts at acceptance. *)
Execute(m) ==
    /\ pc[m] = "entered"
    /\ IF ShuttingDown
       THEN /\ Goto(m, "closing")
            /\ Ends(m, "REJECTED", "SHUTDOWN")
            /\ UNCHANGED <<deadmanFired, trouble, timeoutOn>>
       ELSE /\ Goto(m, "validating")
            /\ deadmanFired' = FALSE
            /\ trouble' = "none"
            /\ timeoutOn' = (Mode[m] = "EXECUTE")
            /\ UNCHANGED outcome
    /\ UNCHANGED <<claimVars, deadline, watchdog, walks, halted, canceling,
                   seen, leafVars, lendVars, armVars, stopVars, teleop, main>>

(* The tree does not validate or load, or the robot cannot move. *)
RejectTree(m) ==
    /\ pc[m] = "validating"
    /\ Goto(m, "closing")
    /\ Ends(m, "REJECTED", "NONE")
    /\ UNCHANGED <<claimVars, timerVars, halted, canceling, seen, leafVars,
                   lendVars, armVars, stopVars, teleop, main>>

(* A goal that only validates ends here; an executed one ends the hold and  *)
(* goes on, unless the executor is about to drop it.                       *)
AcceptTree(m) ==
    /\ pc[m] = "validating"
    /\ IF Mode[m] = "VALIDATE"
       THEN /\ Goto(m, "closing")
            /\ Ends(m, "SUCCESS", "NONE")
            /\ UNCHANGED <<walks, stopped>>
       ELSE /\ walks' = (Mode[m] = "EXECUTE" /\ NeedsBase(m))
            /\ stopped' = (stopped /\ Mode[m] # "EXECUTE")
            /\ IF ShuttingDown
               THEN Goto(m, "closing") /\ Ends(m, "REJECTED", "SHUTDOWN")
               ELSE Goto(m, "authorising") /\ UNCHANGED outcome
    /\ UNCHANGED <<claimVars, deadline, watchdog, trouble, timeoutOn,
                   deadmanFired, halted, canceling, seen, leafVars, lendVars,
                   armVars, stopper, stops, teleop, main>>

(* takeAuthority(): arms a lend gave back are let go of first.  Arms held  *)
(* already are looked at again only when a hand is in doubt.               *)
Doubtful == unknown # {}
TakesArms(m) == NeedsArms(m) /\ (~armsHeld \/ Doubtful)

TakeAuthority(m) ==
    /\ pc[m] = "authorising"
    /\ Mode[m] = "EXECUTE" => ~releasing
    /\ IF Mode[m] = "EXECUTE" /\ TakesArms(m)
       THEN /\ Goto(m, "acquiring")
            /\ seen' = (IF armsHeld THEN {"held"} ELSE {})
                       \union (IF Doubtful THEN {"doubtful"} ELSE {})
            /\ UNCHANGED deadline
       ELSE /\ Goto(m, "ticking")
            /\ deadline' = "ahead"
            /\ UNCHANGED seen
    /\ UNCHANGED <<claimVars, watchdog, trouble, timeoutOn, walks, deadmanFired,
                   halted, outcome, canceling, leafVars, lendVars, armVars,
                   stopVars, teleop, main>>

(* What acquire() found settles what the hands are thought to hold. *)
HandsAfter(taken) ==
    CASE taken = "taken" /\ "doubtful" \in seen -> {}
      [] taken = "already" /\ "held" \notin seen /\ ~EmptyOnAttach -> Hands \ holding
      [] OTHER -> unknown

AcquireArms(m) ==
    /\ pc[m] = "acquiring"
    /\ \E taken \in Acquired :
          IF taken = "failed"
          THEN /\ Goto(m, "closing")
               /\ Ends(m, "ERROR", "NONE")
               /\ UNCHANGED <<armsHeld, armsTaken, unknown, deadline>>
          ELSE /\ armsTaken' = TRUE
               /\ armsHeld' = TRUE
               /\ unknown' = HandsAfter(taken)
               /\ Goto(m, "ticking")
               /\ deadline' = "ahead"
               /\ UNCHANGED outcome
    /\ seen' = {}
    /\ UNCHANGED <<claimVars, watchdog, trouble, timeoutOn, walks, deadmanFired,
                   halted, canceling, leafVars, lendVars, letgo, holding,
                   closed, moves, late, stopVars, teleop, main>>
-----------------------------------------------------------------------------
(* tickLoop() and the leaves *)

Step(m)   == Plan[m][cur[m]]
GoalAt(m) == goal[m][cur[m]]
Acts(m)   == pc[m] = "ticking" /\ Mode[m] = "EXECUTE"
SetGoal(m, k, state) == goal' = [goal EXCEPT ![m][k] = state]

tickFrame == <<claimVars, timerVars, halted, canceling, seen, lendVars,
               armsHeld, letgo, robotVars, stopVars, teleop, main>>

(* RosActionNode::onStart(): refused while the mission winds down.  The    *)
(* macros refuse a pick with a full hand and a place with an empty one.    *)
StartLeaf(m) ==
    /\ Acts(m) /\ leaf[m] = "none" /\ cur[m] < Len(Plan[m])
    /\ ~halting
    /\ LET step == Plan[m][cur[m] + 1]
           full == step.hand \in holding \union unknown
       IN  /\ step.skill = "pick" => ~full
           /\ step.skill = "place" => full
    /\ cur' = [cur EXCEPT ![m] = @ + 1]
    /\ leaf' = [leaf EXCEPT ![m] = "starting"]
    /\ UNCHANGED <<pc, outcome, goal, handVars, tickFrame>>

(* The server appeared and the goal went out, whatever was asked meanwhile. *)
SendGoal(m) ==
    /\ Acts(m) /\ leaf[m] = "starting"
    /\ leaf' = [leaf EXCEPT ![m] = "out"]
    /\ SetGoal(m, cur[m], "sent")
    /\ UNCHANGED <<pc, outcome, cur, handVars, tickFrame>>

(* No server within server_timeout_s, the ports are unusable, or the       *)
(* mission winds down.                                                     *)
LeafNotSent(m) ==
    /\ Acts(m) /\ leaf[m] = "starting"
    /\ leaf' = [leaf EXCEPT ![m] = "none"]
    /\ UNCHANGED <<pc, outcome, cur, goal, handVars, tickFrame>>

(* onRunning() sees the result; noteLeafSuccess() follows the hand. *)
LeafJudged(m) ==
    /\ Acts(m) /\ leaf[m] = "out" /\ GoalAt(m) \in {"succeeded", "failed"}
    /\ leaf' = [leaf EXCEPT ![m] = "none"]
    /\ LET hand == {Step(m).hand}
           done(skill) == GoalAt(m) = "succeeded" /\ Step(m).skill = skill
       IN  /\ holding' = (IF done("pick") THEN holding \union hand
                          ELSE IF done("place") THEN holding \ hand ELSE holding)
           /\ unknown' = (IF done("pick") \/ done("place") THEN unknown \ hand
                          ELSE unknown)
    /\ UNCHANGED <<pc, outcome, cur, goal, tickFrame>>

(* Slip: the hand of a halted pick still counts as empty. *)
HaltLeafForgets(m) ==
    /\ leaf' = [leaf EXCEPT ![m] = "none"]
    /\ IF leaf[m] = "out" THEN SetGoal(m, cur[m], Asked(GoalAt(m))) ELSE UNCHANGED goal
    /\ UNCHANGED unknown

(* RosActionNode::onHalted() cancels a goal it has a handle of, and        *)
(* noteLeafHalted() counts the hand of a pick that was out as full.        *)
HaltLeaf(m) ==
    /\ leaf' = [leaf EXCEPT ![m] = "none"]
    /\ IF leaf[m] = "out"
       THEN /\ SetGoal(m, cur[m], Asked(GoalAt(m)))
            /\ unknown' = IF Step(m).skill # "pick" THEN unknown
                          ELSE (unknown \ {Step(m).hand}) \union ({Step(m).hand} \ holding)
       ELSE UNCHANGED <<goal, unknown>>

(* A Timeout in the tree runs out over the leaf, which may or may not fail *)
(* the tree.  It is far longer than a prompt server takes to answer.       *)
StepTimesOut(m) ==
    /\ Acts(m) /\ leaf[m] = "out"
    /\ PromptServers => GoalAt(m) # "sent"
    /\ HaltLeaf(m)
    /\ UNCHANGED <<pc, outcome, cur, holding, tickFrame>>

(* Slips: interruption() without one of its questions, and a cause that    *)
(* the result does not know.                                               *)
InterruptedButStop(m)   == ShuttingDown \/ m \in canceling \/ deadline = "past"
InterruptedButCancel(m) == ShuttingDown \/ stopRequested \/ deadline = "past"
InterruptedButLimit(m)  == ShuttingDown \/ stopRequested \/ m \in canceling
InterruptedAsOther(m)   == <<"CANCELED", "OPERATOR">>

(* interruption(): why the mission has to end, in this order. *)
Interrupted(m) ==
    ShuttingDown \/ stopRequested \/ m \in canceling \/ deadline = "past"
InterruptedAs(m) ==
    IF ShuttingDown THEN <<"CANCELED", "SHUTDOWN">>
    ELSE IF stopRequested THEN <<"CANCELED", stopCause>>
    ELSE IF m \in canceling THEN <<"CANCELED", "NONE">>
    ELSE <<"TIMEOUT", "NONE">>

(* Between ticks the loop looks for a reason to end. *)
Interrupt(m) ==
    /\ pc[m] = "ticking" /\ leaf[m] # "starting"
    /\ Interrupted(m)
    /\ outcome' = [outcome EXCEPT ![m] = InterruptedAs(m)]
    /\ Goto(m, "halting")
    /\ UNCHANGED <<leafVars, handVars, tickFrame>>

TreeSucceeds(m) ==
    /\ pc[m] = "ticking" /\ leaf[m] = "none"
    /\ Mode[m] = "EXECUTE" => cur[m] = Len(Plan[m])
    /\ Ends(m, "SUCCESS", "NONE")
    /\ Goto(m, "closing")
    /\ UNCHANGED <<leafVars, handVars, tickFrame>>

(* A tree that fails once it was told to wind down failed for that; FAILURE *)
(* stands for every way it can fail otherwise.                             *)
TreeFails(m) ==
    /\ pc[m] = "ticking" /\ leaf[m] = "none"
    /\ outcome' = [outcome EXCEPT ![m] =
                      IF Interrupted(m) THEN InterruptedAs(m) ELSE <<"FAILURE", "NONE">>]
    /\ Goto(m, "halting")
    /\ UNCHANGED <<leafVars, handVars, tickFrame>>

(* A tree that throws, with its leaf out or not, is halted too. *)
TreeThrows(m) ==
    /\ "throws" \in Requests
    /\ pc[m] = "ticking" /\ leaf[m] # "starting"
    /\ Ends(m, "ERROR", "NONE")
    /\ Goto(m, "halting")
    /\ UNCHANGED <<leafVars, handVars, tickFrame>>
-----------------------------------------------------------------------------
(* halt(), finish() and the end of run() *)

HaltTree(m) ==
    /\ pc[m] = "halting"
    /\ HaltLeaf(m)
    /\ Goto(m, "settling")
    /\ UNCHANGED <<outcome, cur, holding, tickFrame>>

(* After spinLeaves(cancel_settle_s): the servers that answer in time have. *)
SayHalted(m) ==
    /\ pc[m] = "settling"
    /\ PromptServers => \A k \in 1..MaxSteps : goal[m][k] # "sent"
    /\ halted' = TRUE
    /\ Goto(m, "sweeping")
    /\ UNCHANGED <<claimVars, timerVars, outcome, canceling, seen, leafVars,
                   lendVars, armVars, stopVars, teleop, main>>

(* sweepAfterHalt(): what is still in flight is asked again to stop; the   *)
(* wait that follows ends when the servers are quiet or it runs out.       *)
SweepAfterHalt(m) ==
    /\ pc[m] = "sweeping"
    /\ CancelAll
    /\ Goto(m, "closing")
    /\ UNCHANGED <<claimVars, timerVars, halted, outcome, canceling, seen,
                   cur, leaf, lendVars, armVars, stopVars, teleop, main>>

(* Slip: the arms are let go of only after a mission that succeeded. *)
FinishSuccess(m) ==
    /\ pc[m] = "closing"
    /\ letgo' = IF outcome[m][1] = "SUCCESS" THEN [letgo EXCEPT !["mission"] = "look"] ELSE letgo
    /\ Goto(m, "lettinggo")
    /\ UNCHANGED <<claimVars, timerVars, halted, outcome, canceling, seen,
                   leafVars, lendVars, armsHeld, handVars, robotVars, stopVars,
                   teleop, main>>

(* finish(): the arms are let go of after an executed mission, however it  *)
(* ended, one turned away included.                                        *)
Finish(m) ==
    /\ pc[m] = "closing"
    /\ letgo' = IF Mode[m] = "EXECUTE" THEN [letgo EXCEPT !["mission"] = "look"] ELSE letgo
    /\ Goto(m, "lettinggo")
    /\ UNCHANGED <<claimVars, timerVars, halted, outcome, canceling, seen,
                   leafVars, lendVars, armsHeld, handVars, robotVars, stopVars,
                   teleop, main>>

(* Slip: the mission ends while its arms are still being let go of. *)
FinishedEarly(m) ==
    /\ pc[m] = "lettinggo"
    /\ halted' = TRUE
    /\ deadline' = "none"
    /\ timeoutOn' = FALSE
    /\ walks' = FALSE
    /\ Goto(m, "clearing")
    /\ UNCHANGED <<claimVars, watchdog, trouble, deadmanFired, outcome,
                   canceling, seen, leafVars, lendVars, armVars, stopVars,
                   teleop, main>>

(* halted_ is set, and the timers are told that no mission runs. *)
Finished(m) ==
    /\ pc[m] = "lettinggo" /\ letgo["mission"] = "idle"
    /\ halted' = TRUE
    /\ deadline' = "none"
    /\ timeoutOn' = FALSE
    /\ walks' = FALSE
    /\ Goto(m, "clearing")
    /\ UNCHANGED <<claimVars, watchdog, trouble, deadmanFired, outcome,
                   canceling, seen, leafVars, lendVars, armVars, stopVars,
                   teleop, main>>

(* The claim ends under stop_mutex_, before the result goes out. *)
EndClaim(m) ==
    /\ pc[m] = "clearing"
    /\ running' = None
    /\ stopRequested' = FALSE
    /\ halting' = FALSE
    /\ Goto(m, "reporting")
    /\ UNCHANGED <<stopCause, timerVars, halted, outcome, canceling, seen,
                   leafVars, lendVars, armVars, stopVars, teleop, main>>

Report(m) ==
    /\ pc[m] = "reporting"
    /\ Goto(m, "done")
    /\ UNCHANGED <<claimVars, timerVars, halted, outcome, canceling, seen,
                   leafVars, lendVars, armVars, stopVars, teleop, main>>
=============================================================================
