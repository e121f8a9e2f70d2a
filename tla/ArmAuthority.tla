--------------------------- MODULE ArmAuthority ---------------------------
(***************************************************************************)
(* Who takes and gives back the arms and the hands: acquireArm and         *)
(* releaseArm of the mission executor (arm_authority.cpp), and the scripts *)
(* activate_arm and deactivate_arm, which swap the same controllers from a *)
(* process of their own.  The executor lists the controllers, decides, and *)
(* only then asks for the switch, so a script's may fall in between; it    *)
(* gives up on a call that is not answered in time, and the call goes on.  *)
(* RobotClaim and MissionExecutor see all this as one claim of the arms.   *)
(***************************************************************************)
EXTENDS ControllerManager

CONSTANTS
  MaxArmCalls \* bound: acquisitions, releases and scripts begun

ASSUME MaxArmCallsAssumption == MaxArmCalls \in Nat

VARIABLES
  arm,     \* the executor's call: where it stands, what it does, whom it displaces
  armCalls \* calls begun so far

armVars == <<arm, armCalls>>

ArmSteps == {"idle", "list", "send", "swapping", "handUp", "handComing",
             "handTake", "handTaking", "handGive", "handGiving", "handDown",
             "handGoing"}
ArmResults == {"none", "failed", "taken", "already", "released"}

Incoming(goal) == IF goal = "take" THEN "armTraj" ELSE "armFreeze"
Outgoing(goal) == IF goal = "take" THEN "armFreeze" ELSE "armTraj"

At(step) == arm.pc = step
Go(step) == arm' = [arm EXCEPT !.pc = step]
Ends(result) ==
  arm' = [arm EXCEPT !.pc = "idle", !.result = result, !.displace = {}]

elsewhere == <<bodyVars, handVars, legVars>>

-----------------------------------------------------------------------------
\* Taking begins with the arm, giving back with the hand.
BeginArm(goal) ==
  /\ At("idle")
  /\ armCalls < MaxArmCalls
  /\ armCalls' = armCalls + 1
  /\ arm' = [arm EXCEPT !.pc = IF goal = "take" THEN "list" ELSE "handGive",
                        !.goal = goal, !.result = "none"]
  /\ UNCHANGED <<elsewhere, cmVars>>

\* controllerStates and planArmSwitch.  A list that did not come, or that does not know the incoming controller,
\* asks for nothing.
ListControllers ==
  /\ At("list")
  /\ LET goal == arm.goal
         incoming == Incoming(goal)
     IN \/ Ends("failed")
        \/ /\ incoming \in loaded \cap holders
           /\ IF goal = "take"
                THEN arm' = [arm EXCEPT !.pc = "handUp", !.result = "already"]
                ELSE Ends("released")
        \/ /\ incoming \in loaded \ holders
           /\ arm' = [arm EXCEPT !.pc = "send",
                        !.displace = {Outgoing(goal)} \cap holders]
  /\ UNCHANGED <<elsewhere, cmVars, armCalls>>

\* switchController: one STRICT call for both halves of the swap.
Swap == Call("executor", {Incoming(arm.goal)}, arm.displace, TRUE)

SendSwap ==
  /\ At("send")
  /\ Send(Swap)
  /\ Go("swapping")
  /\ UNCHANGED <<elsewhere, armCalls>>

SwapAnswered ==
  /\ At("swapping")
  /\ Take("executor")
  /\ CASE answers["executor"] = "refused" -> Ends("failed")
       [] answers["executor"] = "ok" /\ arm.goal = "give" -> Ends("released")
       [] OTHER -> arm' = [arm EXCEPT !.pc = "handUp", !.result = "taken"]
  /\ UNCHANGED <<elsewhere, armCalls>>

SwapTimesOut ==
  /\ At("swapping")
  /\ GiveUp("executor")
  /\ Ends("failed")
  /\ UNCHANGED <<elsewhere, armCalls>>

-----------------------------------------------------------------------------
(***************************************************************************)
(* The hand, best-effort: component, then controller, and back.            *)
(***************************************************************************)
\* setComponentState(active): served at once, or not before the time is out.
RaiseHand ==
  /\ At("handUp")
  /\ IF hop = "none" /\ hlife = "inactive" /\ hasked < MaxHandOps
       THEN HandActivate ELSE UNCHANGED handVars
  /\ Go("handComing")
  /\ UNCHANGED <<bodyVars, legVars, cmVars, armCalls>>

HandRaised ==
  /\ At("handComing")
  /\ IF hlife = "active" THEN Go("handTake") ELSE Ends(arm.result)
  /\ UNCHANGED <<elsewhere, cmVars, armCalls>>

TakeHand ==
  /\ At("handTake")
  /\ Send(Call("executor", {"hand"}, {}, FALSE))
  /\ Go("handTaking")
  /\ UNCHANGED <<elsewhere, armCalls>>

\* Answered or not, the arm is usable.
HandTaken ==
  /\ At("handTaking")
  /\ Take("executor") \/ GiveUp("executor")
  /\ Ends(arm.result)
  /\ UNCHANGED <<elsewhere, armCalls>>

GiveHand ==
  /\ At("handGive")
  /\ Send(Call("executor", {}, {"hand"}, FALSE))
  /\ Go("handGiving")
  /\ UNCHANGED <<elsewhere, armCalls>>

HandGiven ==
  /\ At("handGiving")
  /\ Take("executor") \/ GiveUp("executor")
  /\ Go("handDown")
  /\ UNCHANGED <<elsewhere, armCalls>>

\* setComponentState(inactive); the component's controller goes with it.
LowerHand ==
  /\ At("handDown")
  /\ IF hop = "none" /\ hlife = "active" /\ hasked < MaxHandOps
       THEN HandDeactivate /\ HandLoses
       ELSE UNCHANGED <<handVars, cmVars>>
  /\ Go("handGoing")
  /\ UNCHANGED <<bodyVars, legVars, armCalls>>

\* Down, or not waited for any longer: the arm's turn.
HandLowered ==
  /\ At("handGoing")
  /\ Go("list")
  /\ UNCHANGED <<elsewhere, cmVars, armCalls>>

\* A script's swap: both halves, STRICT, whatever it found listed before.
ScriptSwap(goal) ==
  /\ armCalls < MaxArmCalls
  /\ armCalls' = armCalls + 1
  /\ Send(Call("nobody", {Incoming(goal)}, {Outgoing(goal)}, TRUE))
  /\ UNCHANGED <<elsewhere, arm>>

ArmStep ==
  \/ ListControllers \/ SendSwap \/ SwapAnswered \/ SwapTimesOut
  \/ RaiseHand \/ HandRaised \/ TakeHand \/ HandTaken
  \/ GiveHand \/ HandGiven \/ LowerHand \/ HandLowered

ArmInit ==
  /\ arm = [pc |-> "idle", goal |-> "take", displace |-> {}, result |-> "none"]
  /\ armCalls = 0

ArmTypeOK ==
  /\ arm \in [pc: ArmSteps, goal: {"take", "give"},
              displace: SUBSET Controllers, result: ArmResults]
  /\ armCalls \in 0..MaxArmCalls
=============================================================================
