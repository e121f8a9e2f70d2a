------------------------ MODULE ControlMotors_proofs ------------------------
(***************************************************************************)
(* Theorems of what the controllers' trade does to the motors: a motor     *)
(* that was taken is never left unpowered, and the legs' command is smooth.*)
(*                                                                         *)
(* A motor is powered by what is claimed on it, and claims go only in a    *)
(* switch.  The calls queued are such that whoever takes a part's owner    *)
(* away brings another for that part in the same STRICT call (Legal); the  *)
(* update thread does all of such a call or nothing.                       *)
(***************************************************************************)
EXTENDS ControlStack_proofs

\* Controller c claims something on part p.
ClaimsPart(c, p) == c \in {"safety", "freeze", "armFreeze", "armTraj"} /\ PartOf(c) = p

\* What the callers ask for.
Legal(call) ==
  /\ call.act \cap call.deact = {}
  /\ ~call.strict => call.act \cup call.deact \subseteq {"hand"}
  /\ \A p \in Parts : (\E c \in call.deact : ClaimsPart(c, p))
                        => \E c \in call.act : ClaimsPart(c, p)

CallsLegal == \A i \in DOMAIN calls : Legal(calls[i])

\* planArmSwitch displaces the other controller of the arms, or nobody.
ArmDisplaces ==
  /\ arm.displace \subseteq {Outgoing(arm.goal)}
  /\ arm.pc = "idle" => arm.displace = {}

ModesOfClaims == \A p \in Parts : joint[p].mode = ModeOf(joint[p].claims)

OneOwner == ~({"safety", "freeze"} \subseteq holders)

\* The safety controller commands the pose it integrates.
LegsFollow == "safety" \in holders /\ timer => legsCmd.pose = pose

MotorsInv == CallsLegal /\ ArmDisplaces /\ ModesOfClaims /\ OneOwner /\ LegsFollow

LegsMoved == legsCmd'.pose - legsCmd.pose

-----------------------------------------------------------------------------
(* The calls.                                                              *)
LEMMA ArmsDisplace ==
  ASSUME ArmTypeOK, ArmDisplaces, Arms
  PROVE  ArmDisplaces'
<1>1. arm \in [pc: ArmSteps, goal: {"take", "give"},
               displace: SUBSET Controllers, result: ArmResults]
  BY DEF ArmTypeOK
<1>2. \A goal \in {"take", "give"} : Outgoing(goal)' = Outgoing(goal)
  BY DEF Outgoing
<1>3. ASSUME arm'.goal = arm.goal, arm'.displace = arm.displace, arm'.pc # "idle"
      PROVE  ArmDisplaces'
  BY <1>1, <1>2, <1>3 DEF ArmDisplaces, Outgoing
<1>4. ASSUME NEW result, Ends(result)
      PROVE  ArmDisplaces'
  BY <1>1, <1>4 DEF ArmDisplaces, Ends
<1>5. ASSUME NEW step, step # "idle", Go(step)
      PROVE  ArmDisplaces'
  BY <1>1, <1>3, <1>5 DEF Go
<1>6. CASE ListControllers
  <2>1. \/ Ends("failed") \/ Ends("released")
        \/ arm' = [arm EXCEPT !.pc = "handUp", !.result = "already"]
        \/ arm' = [arm EXCEPT !.pc = "send",
                     !.displace = {Outgoing(arm.goal)} \cap holders]
    BY <1>6 DEF ListControllers
  <2>2. CASE arm' = [arm EXCEPT !.pc = "handUp", !.result = "already"]
    BY <1>1, <1>3, <2>2
  <2>3. CASE arm' = [arm EXCEPT !.pc = "send",
                       !.displace = {Outgoing(arm.goal)} \cap holders]
    <3>1. arm'.goal = arm.goal /\ arm'.pc = "send"
          /\ arm'.displace \subseteq {Outgoing(arm.goal)}
      BY <1>1, <2>3
    <3> QED
      BY <3>1 DEF ArmDisplaces, Outgoing
  <2> QED
    BY <1>4, <2>1, <2>2, <2>3
<1>7. CASE SendSwap \/ TakeHand \/ GiveHand \/ RaiseHand \/ LowerHand \/ HandLowered
           \/ HandGiven
  BY <1>5, <1>7
  DEF SendSwap, TakeHand, GiveHand, RaiseHand, LowerHand, HandLowered, HandGiven
<1>8. CASE SwapAnswered
  <2>1. Ends("failed") \/ Ends("released")
        \/ arm' = [arm EXCEPT !.pc = "handUp", !.result = "taken"]
    BY <1>8 DEF SwapAnswered
  <2> QED
    BY <1>1, <1>3, <1>4, <2>1
<1>9. CASE SwapTimesOut \/ HandTaken \/ HandRaised
  BY <1>4, <1>5, <1>9 DEF SwapTimesOut, HandTaken, HandRaised
<1>10. CASE \E goal \in {"take", "give"} : BeginArm(goal)
  <2> PICK goal \in {"take", "give"} : BeginArm(goal)
    BY <1>10
  <2>1. arm.displace = {}
    BY DEF BeginArm, At, ArmDisplaces
  <2>2. arm'.displace = {}
    BY <1>1, <2>1 DEF BeginArm
  <2> QED
    BY <2>2 DEF ArmDisplaces
<1>11. CASE \E goal \in {"take", "give"} : ScriptSwap(goal)
  BY <1>11 DEF ScriptSwap, ArmDisplaces, Outgoing
<1> QED
  BY <1>6, <1>7, <1>8, <1>9, <1>10, <1>11 DEF Arms, ArmStep

LEMMA StackDisplaces ==
  ASSUME CallersInv, ArmDisplaces, [Next]_vars
  PROVE  ArmDisplaces'
<1>1. CASE Arms
  BY <1>1, ArmsDisplace DEF CallersInv
<1>2. CASE ~Arms
  <2>1. arm' = arm
    BY <1>2
    DEF Next, UpdateThread, BodyCycle, RunControllers, SkipSwitch, HandCycle, EndCycle,
        Switch, BodyTransition, BringUp, Reconfigure, TakeDown, BodySamples, HandLifecycle,
        HandFails, HandSamples, Spawn, SpawnFreeze, EmergencyTimer, EmergencyAnswer,
        SafetyNode, othersOfBody, othersOfHand, armVars, vars
  <2> QED
    BY <2>1 DEF ArmDisplaces, Outgoing
<1> QED
  BY <1>1, <1>2

\* A swap of the arms exchanges their two controllers; the hand is asked for by itself.
LEMMA SwapIsLegal ==
  ASSUME NEW by, NEW goal \in {"take", "give"}, NEW displace \in SUBSET {Outgoing(goal)}
  PROVE  Legal(Call(by, {Incoming(goal)}, displace, TRUE))
<1>1. \A p \in Parts : (\E c \in displace : ClaimsPart(c, p))
                         => ClaimsPart(Incoming(goal), p)
  BY DEF ClaimsPart, PartOf, Incoming, Outgoing
<1>2. {Incoming(goal)} \cap displace = {}
  BY DEF Incoming, Outgoing
<1> QED
  BY <1>1, <1>2 DEF Legal, Call

LEMMA HandCallIsLegal ==
  ASSUME NEW by
  PROVE  Legal(Call(by, {"hand"}, {}, FALSE)) /\ Legal(Call(by, {}, {"hand"}, FALSE))
  BY DEF Legal, Call, ClaimsPart

LEMMA SpawnIsLegal ==
  ASSUME NEW by, NEW group
  PROVE  Legal(Call(by, group, {}, TRUE))
  BY DEF Legal, Call

LEMMA EmergencyIsLegal == Legal(EmergencyCall)
<1>1. PartOf("freeze") = "legs" /\ PartOf("safety") = "legs"
  BY DEF PartOf
<1> QED
  BY <1>1 DEF Legal, EmergencyCall, Call, ClaimsPart

\* What a step does to the queue.
LEMMA QueueMoves ==
  ASSUME CallersInv, ArmDisplaces, [Next]_vars
  PROVE  \/ calls' = calls
         \/ \E call \in CallRecords : Legal(call) /\ Send(call)
         \/ GiveUp("executor")
         \/ Switch
<1>1. CASE Arms
  <2>1. arm.goal \in {"take", "give"} /\ arm.displace \in SUBSET {Outgoing(arm.goal)}
        /\ arm.displace \in SUBSET Controllers
    BY DEF CallersInv, ArmTypeOK, ArmDisplaces
  <2>2. /\ "executor" \in Callers \cup {"nobody"} /\ "nobody" \in Callers \cup {"nobody"}
        /\ {} \in SUBSET Controllers /\ {"hand"} \in SUBSET Controllers
        /\ FALSE \in BOOLEAN /\ TRUE \in BOOLEAN
        /\ \A goal \in {"take", "give"} : {Incoming(goal)} \in SUBSET Controllers
                                          /\ {Outgoing(goal)} \in SUBSET Controllers
    BY DEF Callers, Controllers, Incoming, Outgoing
  <2>3. CASE ListControllers \/ RaiseHand \/ HandRaised \/ HandLowered \/ LowerHand
             \/ SwapAnswered \/ \E goal \in {"take", "give"} : BeginArm(goal)
    BY <2>3
    DEF ListControllers, RaiseHand, HandRaised, HandLowered, LowerHand, SwapAnswered,
        BeginArm, HandLoses, Take, cmVars
  <2>4. CASE SwapTimesOut \/ HandTaken \/ HandGiven
    BY <2>4 DEF SwapTimesOut, HandTaken, HandGiven, Take
  <2>5. CASE SendSwap
    <3>1. Swap \in CallRecords /\ Legal(Swap)
      BY <2>1, <2>2, CallsAreRecords, SwapIsLegal DEF Swap
    <3> QED
      BY <2>5, <3>1 DEF SendSwap
  <2>6. CASE TakeHand
    <3>1. Call("executor", {"hand"}, {}, FALSE) \in CallRecords
          /\ Legal(Call("executor", {"hand"}, {}, FALSE))
      BY <2>2, CallsAreRecords, HandCallIsLegal
    <3> QED
      BY <2>6, <3>1 DEF TakeHand
  <2>7. CASE GiveHand
    <3>1. Call("executor", {}, {"hand"}, FALSE) \in CallRecords
          /\ Legal(Call("executor", {}, {"hand"}, FALSE))
      BY <2>2, CallsAreRecords, HandCallIsLegal
    <3> QED
      BY <2>7, <3>1 DEF GiveHand
  <2>8. CASE \E goal \in {"take", "give"} : ScriptSwap(goal)
    <3> PICK goal \in {"take", "give"} : ScriptSwap(goal)
      BY <2>8
    <3> DEFINE call == Call("nobody", {Incoming(goal)}, {Outgoing(goal)}, TRUE)
    <3>1. call \in CallRecords /\ Legal(call)
      BY <2>2, CallsAreRecords, SwapIsLegal
    <3>2. Send(call)
      BY DEF ScriptSwap
    <3> QED
      BY <3>1, <3>2
  <2> QED
    BY <1>1, <2>3, <2>4, <2>5, <2>6, <2>7, <2>8 DEF Arms, ArmStep
<1>2. CASE \E group \in Groups : Spawn(group)
  <2> PICK group \in Groups : Spawn(group)
    BY <1>2
  <2> DEFINE call == Call("nobody", group, {}, TRUE)
  <2>1. group \in SUBSET Controllers /\ "nobody" \in Callers \cup {"nobody"}
    BY DEF Groups, Controllers
  <2>2. call \in CallRecords /\ Legal(call) /\ Send(call)
    BY <2>1, CallsAreRecords, SpawnIsLegal DEF Spawn
  <2> QED
    BY <2>2
<1>3. CASE EmergencyTimer
  BY <1>3, EmergencyCallIsOne, EmergencyIsLegal DEF EmergencyTimer
<1>4. CASE ~Arms /\ ~EmergencyTimer /\ ~Switch /\ ~(\E group \in Groups : Spawn(group))
  BY <1>4
  DEF Next, UpdateThread, BodyCycle, RunControllers, ControllersUpdate, SkipSwitch,
      HandCycle, EndCycle, BodyTransition, BodyLetsGo, BringUp, Reconfigure, TakeDown,
      BodySamples, HandLifecycle, HandFails, HandLoses, HandSamples, SpawnFreeze,
      LoadFreeze, EmergencyAnswer, Take, SafetyNode, othersOfBody, othersOfHand, cmVars,
      vars
<1> QED
  BY <1>1, <1>2, <1>3, <1>4

LEMMA GiveUpKeepsCalls ==
  ASSUME CmInv, NEW by \in Callers, GiveUp(by), NEW i \in DOMAIN calls
  PROVE  calls'[i].act = calls[i].act /\ calls'[i].deact = calls[i].deact
         /\ calls'[i].strict = calls[i].strict
<1>1. calls[i] \in CallRecords
  BY LenProperties, ElementOfSeq DEF CmInv
<1> QED
  BY <1>1 DEF GiveUp, CallRecords

LEMMA StackKeepsLegal ==
  ASSUME CallersInv, ArmDisplaces, CallsLegal, [Next]_vars
  PROVE  CallsLegal'
<1>1. calls \in Seq(CallRecords)
  BY DEF CallersInv, CmInv
<1>3. CASE calls' = calls
  BY <1>3 DEF CallsLegal, Legal, ClaimsPart, PartOf
<1>4. CASE \E call \in CallRecords : Legal(call) /\ Send(call)
  <2> PICK call \in CallRecords : Legal(call) /\ Send(call)
    BY <1>4
  <2>1. calls' = Append(calls, call)
    BY DEF Send
  <2>2. \A i \in DOMAIN calls' : Legal(calls'[i])
    BY <1>1, <2>1, QueueAppends DEF CallsLegal
  <2> QED
    BY <2>2 DEF CallsLegal, Legal, ClaimsPart, PartOf
<1>5. CASE GiveUp("executor")
  <2>1. "executor" \in Callers
    BY DEF Callers
  <2>2. DOMAIN calls' = DOMAIN calls
    BY <1>5, <2>1, GiveUpRenames DEF CallersInv
  <2>3. \A i \in DOMAIN calls :
          calls'[i].act = calls[i].act /\ calls'[i].deact = calls[i].deact
          /\ calls'[i].strict = calls[i].strict
    BY <1>5, <2>1, GiveUpKeepsCalls DEF CallersInv
  <2> QED
    BY <2>2, <2>3 DEF CallsLegal, Legal, ClaimsPart, PartOf
<1>6. CASE Switch
  <2>1. calls # <<>> /\ calls' = Tail(calls)
    BY <1>6 DEF Switch, ServeCall
  <2>2. \A i \in DOMAIN calls' : Legal(calls'[i])
    BY <1>1, <2>1, QueueServes DEF CallsLegal
  <2> QED
    BY <2>2 DEF CallsLegal, Legal, ClaimsPart, PartOf
<1> QED
  BY <1>3, <1>4, <1>5, <1>6, QueueMoves

-----------------------------------------------------------------------------
(* A switch.                                                               *)
LEMMA HeadIsLegal ==
  ASSUME CallersInv, CallsLegal, calls # <<>>
  PROVE  Head(calls) \in CallRecords /\ Legal(Head(calls))
<1>1. /\ calls \in Seq(CallRecords)
      /\ Head(calls) \in CallRecords /\ Head(calls) = calls[1]
      /\ Len(calls) \in Nat \ {0} /\ DOMAIN calls = 1..Len(calls)
  BY QueueServes DEF CallersInv, CmInv
<1> QED
  BY <1>1 DEF CallsLegal

\* All of a STRICT call or nothing; the others are about the hand.
LEMMA AfterALegalCall ==
  ASSUME NEW call \in CallRecords, Legal(call)
  PROVE  \/ After(call) = holders
         \/ /\ After(call) = (holders \ call.deact) \cup call.act
            /\ call.act \cap (holders \ call.deact) = {}
            /\ Consistent(After(call))
         \/ /\ call.act \cup call.deact \subseteq {"hand"}
            /\ After(call) \ holders \subseteq {"hand"}
            /\ holders \ After(call) \subseteq {"hand"}
<1>1. call.strict \in BOOLEAN
  BY DEF CallRecords
<1>2. CASE call.strict
  BY <1>2 DEF After
<1>3. CASE ~call.strict
  BY <1>3 DEF After, Legal
<1> QED
  BY <1>1, <1>2, <1>3

\* Interfaces of controllers that claim nothing of part p.
LEMMA NothingClaimed ==
  ASSUME NEW cs, NEW p \in Parts, \A c \in cs : ~ClaimsPart(c, p)
  PROVE  InterfacesOf(cs, p) = {}
<1>1. \A c \in cs : c \notin {"agile", "hand"} /\ PartOf(c) = p => Claimed(c) = {}
  BY DEF ClaimsPart, Claimed
<1> QED
  BY <1>1 DEF InterfacesOf

LEMMA SomethingClaimed ==
  ASSUME NEW cs, NEW p \in Parts, NEW c \in cs, ClaimsPart(c, p)
  PROVE  "position" \in InterfacesOf(cs, p)
<1>1. c \notin {"agile", "hand"} /\ PartOf(c) = p /\ "position" \in Claimed(c)
  BY DEF ClaimsPart, Claimed, AllInterfaces
<1> QED
  BY <1>1 DEF InterfacesOf

\* Per part, a switch brings a new owner or changes nothing.
LEMMA SwitchBringsAnOwner ==
  ASSUME CallersInv, CallsLegal, NEW m, ServeCall(m), NEW p \in Parts
  PROVE  \/ "position" \in InterfacesOf(holders' \ holders, p)
         \/ /\ InterfacesOf(holders' \ holders, p) = {}
            /\ InterfacesOf(holders \ holders', p) = {}
<1> DEFINE call == Head(calls)
<1>1. calls # <<>> /\ holders' = After(call)
  BY DEF ServeCall
<1>2. call \in CallRecords /\ Legal(call)
  BY <1>1, HeadIsLegal
<1> HIDE DEF call
<1>3. CASE holders' = holders
  BY <1>3, NothingClaimed
<1>4. CASE /\ holders' = (holders \ call.deact) \cup call.act
           /\ call.act \cap (holders \ call.deact) = {}
  <2>1. CASE \E c \in holders' \ holders : ClaimsPart(c, p)
    BY <2>1, SomethingClaimed
  <2>2. CASE \A c \in holders' \ holders : ~ClaimsPart(c, p)
    <3>1. \A c \in call.act : ~ClaimsPart(c, p)
      <4> SUFFICES ASSUME NEW c \in call.act, ClaimsPart(c, p) PROVE FALSE
        OBVIOUS
      <4>1. c \notin call.deact
        BY <1>2 DEF Legal
      <4>2. c \notin holders
        BY <1>4, <4>1
      <4> QED
        BY <1>4, <2>2, <4>2
    <3>2. \A c \in call.deact : ~ClaimsPart(c, p)
      BY <1>2, <3>1 DEF Legal
    <3>3. \A c \in holders \ holders' : ~ClaimsPart(c, p)
      BY <1>4, <3>2
    <3> QED
      BY <2>2, <3>3, NothingClaimed
  <2> QED
    BY <2>1, <2>2
<1>5. CASE /\ holders' \ holders \subseteq {"hand"}
           /\ holders \ holders' \subseteq {"hand"}
  BY <1>5, NothingClaimed DEF ClaimsPart
<1> QED
  BY <1>1, <1>2, <1>3, <1>4, <1>5, AfterALegalCall

-----------------------------------------------------------------------------
(* Modes.                                                                  *)
LEMMA ModeSwitchModes ==
  ASSUME BodyInv, NEW start, NEW stop, ModeSwitch(start, stop), NEW p \in Parts
  PROVE  /\ joint'[p].claims = (joint[p].claims \ ClaimsIn(stop[p])) \cup ClaimsIn(start[p])
         /\ joint'[p].mode = ModeOf(joint'[p].claims)
<1>1. joint[p] \in Joints
  BY DEF BodyInv, BodyTypeOK
<1> QED
  BY <1>1 DEF ModeSwitch, Joints

\* A step that is not a switch and does not seed the joints leaves their modes.
LEMMA ModesRest ==
  ASSUME BodyInv, [Next]_vars, ~Switch
  PROVE  \/ Seed
         \/ \A p \in Parts : joint'[p].claims = joint[p].claims /\ joint'[p].mode = joint[p].mode
<1>1. \A p \in Parts : joint[p] \in Joints
  BY DEF BodyInv, BodyTypeOK
<1>2. CASE RunControllers
  <2>1. \E kp, bad : Update(kp, bad)
    BY <1>2 DEF RunControllers, ControllersUpdate
  <2> PICK kp, bad : Update(kp, bad)
    BY <2>1
  <2> QED
    BY <1>1 DEF Update, Joints
<1>3. CASE BodyCycle \/ SkipSwitch \/ EndCycle
  BY <1>3
  DEF BodyCycle, WriteStep, SkipSwitch, NoSwitch, EndCycle, NextCycle, Read, EnterWrite,
      CheckActive, FillPart, PublishWrite
<1>4. CASE BodyTransition
  <2>1. CASE Drain
    BY <1>1, <2>1 DEF Drain, Joints
  <2>2. CASE ~Drain
    BY <1>4, <2>2
    DEF BodyTransition, TransitionStep, Close, ReleaseMotionMode, FirstState,
        FirstStateTimeout, FillRelease, PublishRelease, OnError, Release
  <2> QED
    BY <2>1, <2>2
<1>5. CASE BringUp \/ Reconfigure \/ TakeDown \/ BodySamples
  BY <1>5
  DEF BringUp, BeginActivate, Reconfigure, Configure, TakeDown, BeginRelease, BodySamples,
      LowState, GoStale
<1>6. CASE HandCycle \/ HandLifecycle \/ HandFails \/ HandSamples
  BY <1>6 DEF HandCycle, HandLifecycle, HandFails, HandSamples, othersOfHand, bodyVars
<1>7. CASE Arms \/ SpawnFreeze \/ EmergencyTimer \/ EmergencyAnswer \/ SafetyNode
           \/ \E group \in Groups : Spawn(group)
  BY <1>7, CallersLeaveBody DEF bodyVars
<1>8. CASE UNCHANGED vars
  BY <1>8 DEF vars, bodyVars
<1> QED
  BY <1>2, <1>3, <1>4, <1>5, <1>6, <1>7, <1>8 DEF Next, UpdateThread

LEMMA StackKeepsModes ==
  ASSUME BodyInv, ModesOfClaims, [Next]_vars
  PROVE  ModesOfClaims'
<1>1. CASE Switch
  <2>1. \E start, stop : ModeSwitch(start, stop)
    BY <1>1 DEF Switch, ServeCall
  <2> QED
    BY <2>1, ModeSwitchModes DEF ModesOfClaims, ModeOf
<1>2. CASE Seed
  BY <1>2 DEF Seed, ModesOfClaims, ModeOf
<1>3. CASE ~Switch /\ ~Seed
  BY <1>3, ModesRest DEF ModesOfClaims, ModeOf
<1> QED
  BY <1>1, <1>2, <1>3

\* While the component is active a powered joint stays powered.
LEMMA StackHoldsMotors ==
  ASSUME BodyInv, CallersInv, MotorsInv, [Next]_vars, active,
         NEW p \in Parts, joint[p].mode # "disabled"
  PROVE  joint'[p].mode # "disabled"
<1>1. CASE Switch
  <2> PICK m \in Poses : ServeCall(m)
    BY <1>1 DEF Switch
  <2> DEFINE start == [q \in Parts |-> InterfacesOf(holders' \ holders, q)]
             stop == [q \in Parts |-> InterfacesOf(holders \ holders', q)]
  <2>1. ModeSwitch(start, stop)
    BY DEF ServeCall
  <2>2. /\ joint'[p].claims = (joint[p].claims \ ClaimsIn(stop[p])) \cup ClaimsIn(start[p])
        /\ joint'[p].mode = ModeOf(joint'[p].claims)
    BY <2>1, ModeSwitchModes
  <2>3. \/ "position" \in start[p]
        \/ start[p] = {} /\ stop[p] = {}
    BY SwitchBringsAnOwner DEF MotorsInv
  <2> HIDE DEF start, stop
  <2>4. CASE "position" \in start[p]
    <3>1. "position" \in joint'[p].claims
      BY <2>2, <2>4 DEF ClaimsIn
    <3> QED
      BY <2>2, <3>1 DEF ModeOf
  <2>5. CASE start[p] = {} /\ stop[p] = {}
    <3>1. ClaimsIn({}) = {}
      BY DEF ClaimsIn
    <3>2. joint'[p].claims = joint[p].claims
      BY <2>2, <2>5, <3>1
    <3> QED
      BY <2>2, <3>2 DEF MotorsInv, ModesOfClaims
  <2> QED
    BY <2>3, <2>4, <2>5
<1>2. ~Seed
  <2>1. tr.pc = "none"
    BY DEF BodyInv, ActiveIsUp, Idle
  <2> QED
    BY <2>1 DEF Seed
<1> QED
  BY <1>1, <1>2, ModesRest

-----------------------------------------------------------------------------
(* The legs.                                                               *)
\* A step that moves nothing of the legs and lets nobody in.
LEMMA LegsRest ==
  ASSUME LegsTypeOK, LegsFollow, OneOwner, legsCmd' = legsCmd, pose' = pose,
         timer' => timer, holders' \subseteq holders \cup {"hand"}
  PROVE  LegsFollow' /\ OneOwner' /\ LegsMoved = 0
<1>1. legsCmd.pose \in Int
  BY DEF LegsTypeOK, Positions
<1> QED
  BY <1>1 DEF LegsFollow, OneOwner, LegsMoved

LEMMA LegsControlled ==
  ASSUME LegsTypeOK, LegsFollow, OneOwner, RunControllers
  PROVE  /\ LegsFollow' /\ OneOwner'
         /\ "safety" \in holders /\ timer =>
              LegsMoved \in IF latched' THEN {0}
                            ELSE IF MaxStep = 0 THEN Int ELSE -MaxStep..MaxStep
<1> PICK infers \in BOOLEAN, fails \in BOOLEAN, wants \in Poses, reading \in ReadingsNow,
         legsBad \in {{}, {"gains"}} :
      ControllersUpdate(infers, fails, wants, reading,
                        [p \in Parts |-> IF p = "legs" THEN legsBad ELSE {}])
  BY DEF RunControllers
<1>1. LegsUpdate(holders, infers /\ ~fails, wants, reading)
      /\ holders' \in {holders, holders \ {"agile"}}
  BY DEF ControllersUpdate
<1>2. timer' = timer /\ startPose \in 0..Span /\ pose \in 0..Span
      /\ legsCmd \in [pose: Positions, gains: Gains]
  BY <1>1 DEF LegsUpdate, LegsTypeOK, Positions
<1>3. wants \in 0..Span
  BY SpanAssumption DEF Poses
<1>4. CASE "safety" \in holders
  <2>1. SafetyUpdate(reading)
    BY <1>1, <1>4 DEF LegsUpdate
  <2>2. legsCmd'.pose = pose'
    BY <2>1 DEF SafetyUpdate
  <2>3. LegsFollow' /\ OneOwner'
    BY <1>1, <1>4, <2>2 DEF LegsFollow, OneOwner
  <2>4. ASSUME timer
        PROVE  LegsMoved \in IF latched' THEN {0}
                             ELSE IF MaxStep = 0 THEN Int ELSE -MaxStep..MaxStep
    <3>1. LegsMoved = pose' - pose
      BY <1>4, <2>2, <2>4 DEF LegsMoved, LegsFollow
    <3>2. CASE latched'
      BY <1>2, <2>1, <3>1, <3>2 DEF SafetyUpdate
    <3>3. CASE ~latched'
      <4> DEFINE to == IF ref' = NaN THEN startPose ELSE ref'
      <4>1. pose' = BlendAndSlew(startPose, to, BlendStep, pose)
        BY <2>1, <3>3 DEF SafetyUpdate
      <4>2. to \in Positions /\ startPose \in Positions /\ pose \in Positions
            /\ BlendStep \in 0..BlendSteps
        BY <1>1, <1>2, <1>3, BlendStepStays
        DEF LegsUpdate, AgileUpdate, LegsTypeOK, Positions
      <4> HIDE DEF to
      <4>3. pose' \in Positions
        BY <4>1, <4>2, BlendStays
      <4> DEFINE blended == startPose + (BlendStep * (to - startPose)) \div BlendSteps
      <4>4. MaxStep # 0 => pose' = pose + Clamped(blended - pose, -MaxStep, MaxStep)
        BY <4>1 DEF BlendAndSlew
      <4>5. blended \in Int
        <5>1. BlendStep \in Nat /\ to \in Int /\ startPose \in Int /\ BlendSteps \in Nat \ {0}
          BY <4>2, SpanAssumption, BlendAssumption DEF Positions
        <5>2. BlendStep * (to - startPose) \in Int
          BY <5>1
        <5> QED
          BY <5>1, <5>2
      <4> HIDE DEF blended
      <4> QED
        BY <1>2, <3>1, <3>3, <4>3, <4>4, <4>5, MaxStepAssumption, SpanAssumption
        DEF Clamped, Positions
    <3> QED
      BY <3>2, <3>3
  <2> QED
    BY <2>3, <2>4
<1>5. CASE "safety" \notin holders
  BY <1>1, <1>5 DEF LegsFollow, OneOwner
<1> QED
  BY <1>4, <1>5

LEMMA LegsSwitched ==
  ASSUME CallersInv, CallsLegal, LegsFollow, OneOwner, Switch
  PROVE  /\ LegsFollow' /\ OneOwner'
         /\ "safety" \in holders /\ "safety" \in holders' => LegsMoved = 0
<1> PICK m \in Poses : ServeCall(m)
  BY DEF Switch
<1> DEFINE call == Head(calls)
<1>1. calls # <<>> /\ holders' = After(call) /\ LegsSwitch(holders, holders', m)
  BY DEF ServeCall
<1>2. call \in CallRecords /\ Legal(call)
  BY <1>1, HeadIsLegal
<1> HIDE DEF call
<1>3. OneOwner'
  BY <1>1, <1>2, AfterALegalCall DEF OneOwner, Consistent
<1>4. legsCmd \in [pose: Positions, gains: Gains] /\ m \in Positions
  BY SpanAssumption DEF CallersInv, LegsTypeOK, Poses, Positions
<1>5. CASE "safety" \in holders' \ holders
  BY <1>1, <1>3, <1>4, <1>5 DEF LegsSwitch, SafetyActivates, LegsFollow
<1>6. CASE "safety" \notin holders'
  BY <1>3, <1>6 DEF LegsFollow
<1>7. CASE "safety" \in holders /\ "safety" \in holders'
  <2>1. "freeze" \notin holders'
    BY <1>3, <1>7 DEF OneOwner
  <2>2. legsCmd' = legsCmd /\ UNCHANGED safetyVars
    BY <1>1, <1>7, <2>1 DEF LegsSwitch
  <2>3. legsCmd.pose \in Int
    BY <1>4 DEF Positions
  <2> QED
    BY <1>3, <1>7, <2>2, <2>3 DEF LegsFollow, LegsMoved, safetyVars
<1> QED
  BY <1>3, <1>5, <1>6, <1>7

LEMMA LegsOtherwise ==
  ASSUME CallersInv, LegsFollow, OneOwner, [Next]_vars, ~RunControllers, ~Switch
  PROVE  LegsFollow' /\ OneOwner' /\ LegsMoved = 0
<1>1. LegsTypeOK
  BY DEF CallersInv
<1>2. CASE UNCHANGED <<legVars, cmVars>>
  BY <1>1, <1>2, LegsRest DEF legVars, cmVars
<1>3. CASE BodyLetsGo
  <2>1. holders' = holders \cap {"hand"} /\ LegsSwitch(holders, holders', 0)
    BY <1>3 DEF BodyLetsGo
  <2>2. legsCmd' = legsCmd /\ pose' = pose /\ (timer' => timer)
    BY <2>1 DEF LegsSwitch, SafetyDeactivates, safetyVars
  <2> QED
    BY <1>1, <2>1, <2>2, LegsRest
<1>4. CASE HandLoses /\ UNCHANGED legVars
  BY <1>1, <1>4, LegsRest DEF HandLoses, legVars
<1>5. CASE Arms
  <2>1. UNCHANGED legVars /\ holders' \subseteq holders
    BY <1>5, ArmsCall DEF CallersInv, Send, Take, GiveUp, HandLoses, cmVars
  <2> QED
    BY <1>1, <2>1, LegsRest DEF legVars
<1>6. CASE SpawnFreeze \/ EmergencyTimer \/ EmergencyAnswer \/ SafetyNode
           \/ \E group \in Groups : Spawn(group)
  <2>1. UNCHANGED <<holders, legsCmd, pose, timer>>
    BY <1>6
    DEF SpawnFreeze, LoadFreeze, EmergencyTimer, MarkSwitchPending, Send, EmergencyAnswer,
        Take, EmergencyAnswered, SafetyNode, RetryDue, SetBlend, Spawn, legVars, cmVars
  <2> QED
    BY <1>1, <2>1, LegsRest
<1>7. CASE ~Arms /\ ~(SpawnFreeze \/ EmergencyTimer \/ EmergencyAnswer \/ SafetyNode
                      \/ \E group \in Groups : Spawn(group))
  <2>1. UNCHANGED <<legVars, cmVars>> \/ BodyLetsGo \/ (HandLoses /\ UNCHANGED legVars)
    BY <1>7
    DEF Next, UpdateThread, BodyCycle, SkipSwitch, HandCycle, EndCycle, BodyTransition,
        BringUp, Reconfigure, TakeDown, BodySamples, HandLifecycle, HandFails, HandSamples,
        othersOfBody, othersOfHand, vars
  <2> QED
    BY <1>2, <1>3, <1>4, <2>1
<1> QED
  BY <1>5, <1>6, <1>7

-----------------------------------------------------------------------------
LEMMA MotorsInit == Init => MotorsInv
<1> SUFFICES ASSUME Init PROVE MotorsInv
  OBVIOUS
<1>1. calls = <<>> /\ DOMAIN calls = {}
  BY EmptySeq DEF Init, CmInit
<1>2. CallsLegal /\ ArmDisplaces /\ OneOwner /\ LegsFollow
  BY <1>1 DEF Init, CmInit, ArmInit, CallsLegal, ArmDisplaces, OneOwner, LegsFollow
<1>3. ModesOfClaims
  BY DEF Init, BodyInit, ModesOfClaims, ModeOf
<1> QED
  BY <1>2, <1>3 DEF MotorsInv

LEMMA StackKeepsMotors ==
  BodyInv /\ CallersInv /\ MotorsInv /\ [Next]_vars => MotorsInv'
<1> SUFFICES ASSUME BodyInv, CallersInv, MotorsInv, [Next]_vars PROVE MotorsInv'
  OBVIOUS
<1>1. CallsLegal' /\ ArmDisplaces' /\ ModesOfClaims'
  BY StackKeepsLegal, StackDisplaces, StackKeepsModes DEF MotorsInv
<1>2. LegsFollow' /\ OneOwner'
  BY LegsControlled, LegsSwitched, LegsOtherwise DEF MotorsInv, CallersInv
<1> QED
  BY <1>1, <1>2 DEF MotorsInv

LEMMA MotorsKeep == Spec => [](BodyInv /\ CallersInv /\ MotorsInv)
<1>1. BodyInv /\ HandInv /\ CallersInv /\ MotorsInv /\ [Next]_vars
        => (CallersInv /\ MotorsInv)'
  BY StackKeepsCallers, StackKeepsMotors
<1> QED
  BY <1>1, ComponentsKeep, CallersInit, MotorsInit, PTL DEF Spec

\* While the component drives the robot, a motor that a controller has taken is never
\* left unpowered (g1_controllers/README.md; control.launch.py 45-48).
THEOREM MotorsStayHeld == Spec => MotorsHeld
<1>1. BodyInv /\ CallersInv /\ MotorsInv /\ [Next]_vars =>
        [\A p \in Parts :
           active /\ active' /\ joint[p].mode # "disabled"
             => joint'[p].mode # "disabled"]_vars
  BY StackHoldsMotors
<1> QED
  BY <1>1, MotorsKeep, PTL DEF Spec, MotorsHeld

\* With a velocity limit, the legs' command moves no faster than it, and not at all once
\* the emergency is latched (g1_safety_controller.cpp 405-470).
THEOREM LegsStaySmooth ==
  ASSUME MaxStep # 0
  PROVE  Spec => LegsCommandIsSmooth
<1>1. BodyInv /\ CallersInv /\ MotorsInv /\ [Next]_vars =>
        [LET moved == legsCmd'.pose - legsCmd.pose
             bound == IF latched' THEN 0 ELSE MaxStep
         IN "safety" \in holders /\ "safety" \in holders' /\ timer =>
              -bound <= moved /\ moved <= bound]_vars
  <2> SUFFICES ASSUME BodyInv, CallersInv, MotorsInv, [Next]_vars,
                      "safety" \in holders, "safety" \in holders', timer
               PROVE  LET bound == IF latched' THEN 0 ELSE MaxStep
                      IN -bound <= LegsMoved /\ LegsMoved <= bound
    BY DEF LegsMoved
  <2>1. LegsMoved \in IF latched' THEN {0} ELSE -MaxStep..MaxStep
    BY LegsControlled, LegsSwitched, LegsOtherwise, MaxStepAssumption
    DEF MotorsInv, CallersInv
  <2> QED
    BY <2>1, MaxStepAssumption
<1> QED
  BY <1>1, MotorsKeep, PTL DEF Spec, LegsCommandIsSmooth
=============================================================================
