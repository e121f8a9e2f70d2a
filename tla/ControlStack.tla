---------------------------- MODULE ControlStack ----------------------------
(***************************************************************************)
(* The process that drives the motors: the body's and the hand's           *)
(* components, the controllers of legs and arms, controller_manager, and   *)
(* those who call it: the spawners of control.launch.py, the safety        *)
(* controller's emergency, the executor's arm authority, the arm scripts.  *)
(*                                                                         *)
(* One update thread runs a cycle: the body's read, the controllers'       *)
(* updates, a switch if one waits, the writes.  Lifecycle services, the    *)
(* SDK's receive threads, the emergency timer and the callers run beside.  *)
(*                                                                         *)
(* A behaviour has a scene, chosen at its start: what else happens in it   *)
(* beside bring-up and the cycle.  Scenes keep apart what does not meet.   *)
(* For the same reason those who call controller_manager move only at two  *)
(* places of the body's cycle (the reads and writes neither see nor touch  *)
(* what they do), and what happens to the hand falls in its share of it.   *)
(***************************************************************************)
EXTENDS ArmAuthority

CONSTANTS
  Scenes \* bound: the scenes a run looks at, sets of Ingredients

Ingredients == {"error",     \* lowstates go silent, DDS refuses a write
                "release",   \* deactivation, shutdown, and back up again
                "emergency", \* speeds out of range and failing inference
                "blend",     \* blend_ratio is set, and the policy moves the legs
                "arms",      \* the executor and the scripts trade the arms
                "hand"}      \* the hand comes up, goes down, or falls silent

ASSUME ScenesAssumption == Scenes \subseteq SUBSET Ingredients /\ Scenes # {}

VARIABLES
  scene,   \* what happens in this behaviour
  spawned  \* the spawners of control.launch.py that have called

vars == <<bodyVars, handVars, legVars, cmVars, armVars, scene, spawned>>

With(ingredient) == ingredient \in scene

CallersTurn == rt \in {"read", "switch"}
HandsTurn == rt = "done"

othersOfBody == <<handVars, legVars, cmVars, armVars, scene, spawned>>
othersOfHand == <<bodyVars, legVars, cmVars, armVars, scene, spawned>>

-----------------------------------------------------------------------------
(***************************************************************************)
(* The update thread.                                                      *)
(***************************************************************************)
\* Without the ingredient "error" nothing fails on the bus.
BodyCycle ==
  /\ WriteStep
  /\ rt' = "error" => With("error")
  /\ UNCHANGED othersOfBody

\* A speed out of range is met only by the policy's legs.
ReadingsNow == IF With("emergency") /\ "agile" \in holders THEN Readings ELSE {"calm"}

\* Where the legs are matters to the blend only.
Poses == IF With("blend") THEN PolicyPoses ELSE {0}

RunControllers ==
  /\ \E infers, fails \in IF With("emergency") THEN BOOLEAN ELSE {FALSE},
        wants \in Poses, reading \in ReadingsNow,
        legsBad \in IF With("release") THEN {{}, {"gains"}} ELSE {{}} :
       ControllersUpdate(infers, fails, wants, reading,
                         [p \in Parts |-> IF p = "legs" THEN legsBad ELSE {}])
  /\ UNCHANGED <<armVars, scene, spawned>>

Switch ==
  /\ \E m \in Poses : ServeCall(m)
  /\ UNCHANGED <<armVars, scene, spawned>>

SkipSwitch ==
  /\ NoSwitch
  /\ UNCHANGED othersOfBody

\* A hand that has not been activated leaves its cycle as it entered it.
HandAtRest == hrt = "read" /\ ~seeded

\* The hand's share of the cycle comes after the body's here: the two share
\* nothing.  Only a controller that holds the hand moves its target.
HandCycle ==
  /\ HandsTurn /\ ~HandAtRest
  /\ HandWriteStep
  /\ ramped' = ramped \/ "hand" \in holders
  /\ UNCHANGED othersOfHand

EndCycle ==
  /\ NextCycle
  /\ \/ hrt = "done" /\ HandNextCycle
     \/ HandAtRest /\ UNCHANGED handVars
  /\ UNCHANGED <<legVars, cmVars, armVars, scene, spawned>>

-----------------------------------------------------------------------------
(***************************************************************************)
(* The components' lifecycles.                                             *)
(***************************************************************************)
\* After an error the controllers of the body go with it.
BodyTransition ==
  \/ TransitionStep /\ UNCHANGED othersOfBody
  \/ /\ Close
     /\ IF tr.by = "rt" THEN BodyLetsGo ELSE UNCHANGED <<cmVars, legVars>>
     /\ UNCHANGED <<handVars, armVars, scene, spawned>>

\* ros2_control_node activates the component when it starts.
BringUp ==
  /\ asked = 0 \/ With("release")
  /\ BeginActivate
  /\ UNCHANGED othersOfBody

Reconfigure ==
  /\ Configure
  /\ UNCHANGED othersOfBody

TakeDown ==
  /\ With("release")
  /\ \E to \in {"inactive", "finalized"} : BeginRelease(to)
  /\ BodyLetsGo
  /\ UNCHANGED <<handVars, armVars, scene, spawned>>

BodySamples ==
  /\ LowState \/ (GoStale /\ With("error"))
  /\ UNCHANGED othersOfBody

HandLifecycle ==
  /\ HandsTurn
  /\ HandTransition \/ HandConfigure
  /\ UNCHANGED othersOfHand

\* A hand that fails loses its controller.
HandFails ==
  /\ HandsTurn
  /\ HandOnError
  /\ HandLoses
  /\ UNCHANGED <<bodyVars, legVars, armVars, scene, spawned>>

HandSamples ==
  /\ HandsTurn /\ With("hand")
  /\ HandWorld
  /\ UNCHANGED othersOfHand

-----------------------------------------------------------------------------
(***************************************************************************)
(* Those who call controller_manager.                                      *)
(***************************************************************************)
\* The policy and the safety controller it chains into come up in one call, the
\* arms' freeze in another; the latter matters where the arms do, the former not
\* where nothing happens but to the arms and the hand.
Groups == (IF With("arms") THEN {{"armFreeze"}} ELSE {})
          \cup (IF scene = {"arms", "hand"} THEN {} ELSE {{"safety", "agile"}})

Spawn(group) ==
  /\ CallersTurn /\ life = "active"
  /\ group \in Groups \ spawned
  /\ spawned' = spawned \cup {group}
  /\ Send(Call("nobody", group, {}, TRUE))
  /\ UNCHANGED <<bodyVars, handVars, legVars, armVars, scene>>

SpawnFreeze ==
  /\ CallersTurn
  /\ LoadFreeze
  /\ UNCHANGED <<armVars, scene, spawned>>

\* Slip: whatever part of the switch can be done is done.
EmergencyBestEffort == Call("safety", {"freeze"}, {"agile", "safety"}, FALSE)

\* requestEmergencySwitch: the freeze for the policy and its safety controller.
EmergencyCall == Call("safety", {"freeze"}, {"agile", "safety"}, TRUE)

EmergencyTimer ==
  /\ CallersTurn /\ EmergencyDue
  /\ MarkSwitchPending
  /\ Send(EmergencyCall)
  /\ UNCHANGED <<bodyVars, handVars, armVars, scene, spawned>>

EmergencyAnswer ==
  /\ CallersTurn
  /\ Take("safety")
  /\ EmergencyAnswered(answers["safety"] = "ok")
  /\ UNCHANGED <<bodyVars, handVars, armVars, scene, spawned>>

SafetyNode ==
  /\ CallersTurn
  /\ \/ RetryDue
     \/ With("blend") /\ \E v \in 0..BlendSteps : SetBlend(v)
  /\ UNCHANGED <<bodyVars, handVars, cmVars, armVars, scene, spawned>>

\* Beside a failing robot the arms are traded once.
ArmCallsNow == IF scene \cap {"error", "emergency"} = {} THEN MaxArmCalls ELSE 1

\* The executor's calls, and the scripts'.
Arms ==
  /\ IF arm.pc \in {"handUp", "handDown"} THEN HandsTurn ELSE CallersTurn
  /\ \/ ArmStep
     \/ /\ With("arms") /\ armCalls < ArmCallsNow
        /\ \E goal \in {"take", "give"} : BeginArm(goal)
     \/ /\ With("arms") /\ ~With("hand") /\ armCalls < ArmCallsNow
        /\ \E goal \in {"take", "give"} : ScriptSwap(goal)
  /\ UNCHANGED <<scene, spawned>>

-----------------------------------------------------------------------------
Init ==
  /\ BodyInit /\ HandInit /\ LegsInit /\ CmInit /\ ArmInit
  /\ scene \in Scenes
  /\ spawned = {}

UpdateThread == BodyCycle \/ RunControllers \/ SkipSwitch \/ HandCycle \/ EndCycle

Next ==
  \/ UpdateThread \/ Switch
  \/ BodyTransition \/ BringUp \/ Reconfigure \/ TakeDown \/ BodySamples
  \/ HandLifecycle \/ HandFails \/ HandSamples
  \/ \E group \in Groups : Spawn(group)
  \/ SpawnFreeze \/ EmergencyTimer \/ EmergencyAnswer \/ SafetyNode
  \/ Arms

Spec == Init /\ [][Next]_vars

-----------------------------------------------------------------------------
ControlTypeOK ==
  /\ BodyTypeOK /\ HandTypeOK /\ LegsTypeOK /\ CmTypeOK /\ ArmTypeOK
  /\ scene \in Scenes /\ spawned \subseteq Groups

\* While the component drives the robot, a motor that a controller has taken is
\* never left unpowered: swaps of the arms, the emergency's switch, failing and
\* refused calls included (g1_controllers/README.md; control.launch.py 45-48).
MotorsHeld ==
  [][\A p \in Parts :
       active /\ active' /\ joint[p].mode # "disabled" => joint'[p].mode # "disabled"]_vars

\* As long as the safety controller keeps the legs their command moves no faster
\* than max_velocity, and not at all once the emergency is latched, whatever the
\* policy writes and wherever the blend is (g1_safety_controller.cpp 405-470).
LegsCommandIsSmooth ==
  [][LET moved == legsCmd'.pose - legsCmd.pose
         bound == IF latched' THEN 0 ELSE MaxStep
     IN "safety" \in holders /\ "safety" \in holders' /\ timer =>
          -bound <= moved /\ moved <= bound]_vars

\* A latched emergency does not go to sleep: as long as the safety controller has
\* the legs, a request it waits for is queued or its answer is on its way, through
\* refusals, errors and whoever else trades controllers (g1_safety_controller.cpp
\* 363-403: switch_pending_ is the only thing that keeps the timer from asking).
EmergencyIsUnderWay ==
  latched /\ switchPending /\ "safety" \in holders =>
    \/ answers["safety"] \in {"ok", "refused"}
    \/ \E i \in DOMAIN calls : calls[i] = EmergencyCall
=============================================================================
