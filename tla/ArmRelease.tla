---------------------------- MODULE ArmRelease ----------------------------
(***************************************************************************)
(* MissionExecutor::letGoOfArms(), which four threads call: the mission's  *)
(* at its end, the releaser after a lend, onLend() when a stop overtook    *)
(* it, and the main thread at shutdown.  It looks at the hands under       *)
(* live_mutex_, reads the fingers from /joint_states without it, looks     *)
(* again, releases through controller_manager (seconds), and only then     *)
(* clears arms_held_.                                                      *)
(***************************************************************************)
EXTENDS ExecutorState

letGoFrame == <<claimVars, timerVars, missionVars, leafVars, lendVars,
                stopVars, teleop, main>>

(* Nothing held, or a hand that holds something or may: the arms stay. *)
LetGoLook(t) ==
    /\ letgo[t] = "look"
    /\ letgo' = [letgo EXCEPT ![t] =
                    IF armsHeld /\ ~MayHold(holding, unknown) THEN "read" ELSE "idle"]
    /\ UNCHANGED <<armsHeld, handVars, robotVars, letGoFrame>>

(* Slip: the fingers are not read before the release. *)
ReadFingersBlind(t) ==
    /\ letgo[t] = "read"
    /\ letgo' = [letgo EXCEPT ![t] = "release"]
    /\ UNCHANGED <<armsHeld, handVars, robotVars, letGoFrame>>

(* A closed hand counts as holding something, and with no joint states both *)
(* hands count as closed.                                                   *)
ReadFingers(t) ==
    /\ letgo[t] = "read"
    /\ \E shut \in {closed, Hands} :
          /\ unknown' = unknown \union shut
          /\ letgo' = [letgo EXCEPT ![t] =
                          IF MayHold(holding, unknown \union shut) THEN "idle" ELSE "release"]
    /\ UNCHANGED <<armsHeld, holding, robotVars, letGoFrame>>

(* ControllerManagerAuthority::release(): the hands go limp and the freeze *)
(* controller takes the arms, or the call fails and nothing is switched.   *)
ReleaseArms(t) ==
    /\ letgo[t] = "release"
    /\ letgo' = [letgo EXCEPT ![t] = "clear"]
    /\ \/ Limp
       \/ "noarms" \in Requests /\ UNCHANGED robotVars
    /\ UNCHANGED <<armsHeld, handVars, letGoFrame>>

ClearHeld(t) ==
    /\ letgo[t] = "clear"
    /\ armsHeld' = FALSE
    /\ letgo' = [letgo EXCEPT ![t] = "idle"]
    /\ UNCHANGED <<handVars, robotVars, letGoFrame>>

LetGoStep(t) ==
    \/ LetGoLook(t)
    \/ ReadFingers(t)
    \/ ReleaseArms(t)
    \/ ClearHeld(t)
=============================================================================
