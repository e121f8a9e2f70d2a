------------------------------- MODULE Robot -------------------------------
(***************************************************************************)
(* What the executor meets: the skill servers its leaves send goals to,    *)
(* the fingers those goals move, a borrower's own grip, clocks that pass   *)
(* a limit, heartbeats and balance that fail and come back, and a person   *)
(* who runs deactivate_arm.                                                *)
(***************************************************************************)
EXTENDS ExecutorState

Skill(m, k) == Plan[m][k].skill
Hand(m, k)  == Plan[m][k].hand
StepsOf(m)  == 1..Len(Plan[m])

serverFrame == <<claimVars, timerVars, missionVars, cur, leaf, lendVars,
                 armsHeld, handVars, letgo, armsTaken, moves, stopVars, teleop,
                 main>>

(* The manipulation server runs one goal at a time, whichever its skill. *)
ArmIsBusy == \E m \in Missions : \E k \in StepsOf(m) :
                Skill(m, k) # "walk" /\ goal[m][k] \in InFlight

(* The answer to a goal: accepted, or turned away. *)
AnswerGoal(m, k) ==
    /\ goal[m][k] = "sent"
    /\ \/ /\ Skill(m, k) # "walk" => ~ArmIsBusy
          /\ goal' = [goal EXCEPT ![m][k] = "active"]
       \/ goal' = [goal EXCEPT ![m][k] = "failed"]
    /\ UNCHANGED <<closed, late, serverFrame>>

(* A pick closes its hand on an object and a place opens it, at some point *)
(* while the goal runs, also one asked to cancel; with the arms released   *)
(* the hand does not move.                                                 *)
MoveFingers(m, k) ==
    /\ goal[m][k] \in InFlight /\ armsTaken
    /\ closed' = CASE Skill(m, k) = "pick"  -> closed \union {Hand(m, k)}
                   [] Skill(m, k) = "place" -> closed \ {Hand(m, k)}
                   [] OTHER                 -> closed
    /\ late' = IF Skill(m, k) = "walk" THEN late ELSE late \ {Hand(m, k)}
    /\ UNCHANGED <<goal, serverFrame>>

(* A goal ends: it did its work, or it failed or was cancelled. *)
Worked(m, k) ==
    CASE Skill(m, k) = "pick"  -> Hand(m, k) \in closed
      [] Skill(m, k) = "place" -> Hand(m, k) \notin closed
      [] OTHER                 -> TRUE

EndGoal(m, k) ==
    /\ goal[m][k] \in InFlight
    /\ \/ Worked(m, k) /\ goal' = [goal EXCEPT ![m][k] = "succeeded"]
       \/ goal' = [goal EXCEPT ![m][k] = "failed"]
    /\ UNCHANGED <<closed, late, serverFrame>>

ServerStep(m, k) ==
    \/ AnswerGoal(m, k)
    \/ MoveFingers(m, k)
    \/ EndGoal(m, k)

worldFrame == <<claimVars, watchdog, timeoutOn, walks, deadmanFired,
                missionVars, leafVars, lentTo, releasing, lender, armsHeld,
                handVars, letgo, stopVars, teleop, main>>

(* Whoever borrows the arms closes a hand on something.  takeBack() and    *)
(* stopEverything() cancel no hand motion, so one that the borrower sent   *)
(* may close its hand after the lend has ended, until the arms are         *)
(* released.                                                               *)
BorrowerGrips ==
    /\ moves /\ armsTaken
    /\ \E h \in Hands \ closed :
          /\ closed' = closed \union {h}
          /\ late' = IF lentTo # None THEN late ELSE late \union {h}
    /\ UNCHANGED <<armsTaken, moves, deadline, trouble, lentUntil, worldFrame>>

PassDeadline ==
    /\ "deadline" \in Requests /\ deadline = "ahead"
    /\ deadline' = "past"
    /\ UNCHANGED <<robotVars, trouble, lentUntil, worldFrame>>

PassLend ==
    /\ lentUntil = "ahead"
    /\ lentUntil' = "past"
    /\ UNCHANGED <<robotVars, trouble, deadline, worldFrame>>

(* A client falls silent past a timeout, or the robot cannot walk for      *)
(* health_trip_s.  A heartbeat or a balance that comes back before the     *)
(* deadman looks is the same as none missed.                               *)
FallSilent ==
    /\ "silence" \in Requests /\ trouble = "none"
    /\ timeoutOn \/ lentUntil # "none"
    /\ trouble' = "silent"
    /\ UNCHANGED <<robotVars, deadline, lentUntil, worldFrame>>

LoseBalance ==
    /\ "unfit" \in Requests /\ trouble = "none"
    /\ walks
    /\ trouble' = "unfit"
    /\ UNCHANGED <<robotVars, deadline, lentUntil, worldFrame>>

(* deactivate_arm between missions, by a person who has looked at the      *)
(* hands and sees no skill moving them.                                    *)
DeactivateArm ==
    /\ "deactivate" \in Requests /\ armsTaken
    /\ running = None /\ ~ArmIsBusy
    /\ Limp
    /\ UNCHANGED <<deadline, trouble, lentUntil, worldFrame>>

WorldStep ==
    \/ BorrowerGrips
    \/ PassDeadline
    \/ PassLend
    \/ FallSilent
    \/ LoseBalance
    \/ DeactivateArm
=============================================================================
