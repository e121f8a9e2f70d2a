------------------------------ MODULE Lending ------------------------------
(***************************************************************************)
(* LendResources and teleop: onLend() on the lend group's thread, the      *)
(* deadman timer's checkLend(), the releaser takeBack() starts, and        *)
(* onTeleop() with TeleopDriver's ramp.  Every lend asks for an arm.       *)
(***************************************************************************)
EXTENDS ExecutorState

lendFrame == <<claimVars, timerVars, missionVars, leafVars, stopper, stops, main>>

LendAt(place, c) == lender = [at |-> place, client |-> c]
LendGoes(place, c) == lender' = [at |-> place, client |-> c]
LendEnds == lender' = [at |-> "idle", client |-> None]

(* Slips: teleop is not asked, and a lend does not wait for the release of *)
(* the one before.                                                         *)
LendableDriven(c) == main = "up" /\ running = None /\ lentTo \in {None, c}

ClaimLendAtOnce(c) ==
    /\ lender.at = "idle"
    /\ main = "up" /\ running = None /\ teleop # "on" /\ lentTo \in {None, c}
    /\ lentTo' = c
    /\ LendGoes("claimed", c)
    /\ UNCHANGED <<releasing, lentUntil, armVars, stopped, teleop, lendFrame>>

(* Claimed under stop_mutex_ as a mission is, once no release is under way. *)
Lendable(c) ==
    /\ main = "up"
    /\ running = None
    /\ teleop # "on"
    /\ lentTo \in {None, c}

ClaimLend(c) ==
    /\ lender.at = "idle" /\ ~releasing
    /\ Lendable(c)
    /\ lentTo' = c
    /\ LendGoes("claimed", c)
    /\ UNCHANGED <<releasing, lentUntil, armVars, stopped, teleop, lendFrame>>

(* The heartbeat and the lend's limit start; arms held already stay held. *)
TimeLend(c) ==
    /\ LendAt("claimed", c)
    /\ trouble' = "none"
    /\ lentUntil' = "ahead"
    /\ LendGoes(IF armsHeld THEN "recheck" ELSE "acquiring", c)
    /\ UNCHANGED <<lentTo, releasing, armVars, stopped, teleop, claimVars,
                   deadline, watchdog, timeoutOn, walks, deadmanFired,
                   missionVars, leafVars, stopper, stops, main>>

AcquireToLend(c) ==
    /\ LendAt("acquiring", c)
    /\ \E taken \in Acquired :
          IF taken = "failed"
          THEN /\ TakeBack
               /\ LendEnds
               /\ UNCHANGED <<armsHeld, armsTaken, unknown>>
          ELSE /\ armsTaken' = TRUE
               /\ armsHeld' = TRUE
               /\ unknown' = IF taken = "already" /\ ~EmptyOnAttach
                             THEN Hands \ holding ELSE unknown
               /\ LendGoes("recheck", c)
               /\ UNCHANGED <<lentTo, releasing, lentUntil, letgo>>
    /\ UNCHANGED <<holding, closed, moves, late, stopped, teleop, lendFrame>>

(* A stop that came while the arms were being taken let go of nothing.  The *)
(* client may move the hands from here on.                                 *)
GrantLend(c) ==
    /\ LendAt("recheck", c) /\ lentTo = c
    /\ stopped' = FALSE
    /\ LendEnds
    /\ moves' = TRUE
    /\ UNCHANGED <<lentTo, releasing, lentUntil, armsHeld, letgo, handVars,
                   armsTaken, closed, late, teleop, lendFrame>>

LendOvertaken(c) ==
    /\ LendAt("recheck", c) /\ lentTo # c
    /\ letgo' = [letgo EXCEPT !["lend"] = "look"]
    /\ LendGoes("overtaken", c)
    /\ UNCHANGED <<lentTo, releasing, lentUntil, armsHeld, handVars, robotVars,
                   stopped, teleop, lendFrame>>

RefuseOvertaken(c) ==
    /\ LendAt("overtaken", c) /\ letgo["lend"] = "idle"
    /\ LendEnds
    /\ UNCHANGED <<lentTo, releasing, lentUntil, armVars, stopped, teleop, lendFrame>>

LendStep(c) ==
    \/ TimeLend(c)
    \/ AcquireToLend(c)
    \/ GrantLend(c)
    \/ LendOvertaken(c)
    \/ RefuseOvertaken(c)

backFrame == <<lender, armsHeld, handVars, robotVars, stopped, teleop, lendFrame>>

(* Whoever says it gives the arms back is believed. *)
GiveBack ==
    /\ lender.at = "idle" /\ lentTo # None /\ main # "down"
    /\ TakeBack
    /\ UNCHANGED backFrame

(* Slip: only the borrower's heartbeat ends a lend. *)
CheckLendHeartbeat ==
    /\ main # "down"
    /\ lentUntil = "ahead" /\ trouble = "silent"
    /\ lentTo # None
    /\ TakeBack
    /\ UNCHANGED backFrame

(* checkLend() *)
CheckLend ==
    /\ main # "down"
    /\ lentUntil = "past" \/ (lentUntil = "ahead" /\ trouble = "silent")
    /\ lentTo # None
    /\ TakeBack
    /\ UNCHANGED backFrame

(* Slip: a releaser that shutdown() overtakes forgets to say it ended. *)
ReleaserEndsUp ==
    /\ releasing /\ letgo["releaser"] = "idle" /\ main = "up"
    /\ releasing' = FALSE
    /\ UNCHANGED <<lentTo, lentUntil, letgo, backFrame>>

(* The releaser has let go of the arms, or kept them. *)
ReleaserEnds ==
    /\ releasing /\ letgo["releaser"] = "idle"
    /\ releasing' = FALSE
    /\ UNCHANGED <<lentTo, lentUntil, letgo, backFrame>>
-----------------------------------------------------------------------------
(* onTeleop(), on StopAll's thread; the driver's own timer ends the ramp,  *)
(* and teleop after idle_s without a command.                              *)
teleopFrame == <<lendFrame, lendVars, armVars>>

TeleopOn ==
    /\ "teleop" \in Requests /\ stopper["operator"].at = "idle" /\ main # "down"
    /\ running = None /\ lentTo = None
    /\ teleop' = "on"
    /\ stopped' = FALSE
    /\ UNCHANGED teleopFrame

TeleopOff ==
    /\ teleop = "on"
    /\ teleop' = "ramping"
    /\ UNCHANGED <<stopped, teleopFrame>>

TeleopStill ==
    /\ teleop = "ramping"
    /\ teleop' = "off"
    /\ UNCHANGED <<stopped, teleopFrame>>
=============================================================================
