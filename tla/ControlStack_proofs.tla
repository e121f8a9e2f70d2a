------------------------- MODULE ControlStack_proofs -------------------------
(***************************************************************************)
(* Theorems of the process that drives the motors, for any scenes, bounds  *)
(* and numbers of ramp ticks and finger positions.                         *)
(*                                                                         *)
(* The body and a hand take part in it as components under controllers of  *)
(* some kind (StackMoves), so what is proved of each alone carries over.   *)
(*                                                                         *)
(* Of controller_manager and its callers: the types of all that is kept,   *)
(* and that a latched emergency never goes to sleep.  The flag             *)
(* switch_pending_ stops the timer from asking.  It goes up with the       *)
(* request (so the request is queued), a request that is served leaves an  *)
(* answer, a refusal lowers the flag, and "ok" means that the safety       *)
(* controller has lost the legs; when it gets them back it starts anew.    *)
(***************************************************************************)
EXTENDS ControlStack, Hardware_proofs, SequenceTheorems

-----------------------------------------------------------------------------
(* Each step of the process is one of the body, or leaves it alone; the    *)
(* same for the hand.                                                      *)
LEMMA CallersLeaveBody ==
  ASSUME Arms \/ SpawnFreeze \/ EmergencyTimer \/ EmergencyAnswer \/ SafetyNode
         \/ \E group \in Groups : Spawn(group)
  PROVE  UNCHANGED bodyVars
<1>1. CASE Arms
  BY <1>1
  DEF Arms, ArmStep, ListControllers, SendSwap, SwapAnswered, SwapTimesOut, RaiseHand,
      HandRaised, TakeHand, HandTaken, GiveHand, HandGiven, LowerHand, HandLowered,
      BeginArm, ScriptSwap, elsewhere
<1>2. CASE ~Arms
  BY <1>2 DEF SpawnFreeze, LoadFreeze, EmergencyTimer, EmergencyAnswer, SafetyNode, Spawn
<1> QED
  BY <1>1, <1>2

\* What the controllers of a tick command is a stiffness the component knows.
LEMMA UpdateIsOfTheBody ==
  ASSUME BodyInv, RunControllers
  PROVE  BodyMoves
<1> PICK infers \in BOOLEAN, fails \in BOOLEAN, wants \in Poses, reading \in ReadingsNow,
         legsBad \in {{}, {"gains"}} :
      ControllersUpdate(infers, fails, wants, reading,
                        [p \in Parts |-> IF p = "legs" THEN legsBad ELSE {}])
  BY DEF RunControllers
<1> DEFINE kp == [p \in Parts |->
                    IF InterfacesOf(holders, p) = AllInterfaces THEN Ticks ELSE joint[p].kp]
           bad == [p \in Parts |-> IF p = "legs" THEN legsBad ELSE {}]
<1>1. kp \in [Parts -> {0, Ticks}]
  BY DEF BodyInv, BodyTypeOK, Joints
<1>2. bad \in [Parts -> SUBSET {"position", "gains"}]
  OBVIOUS
<1>3. Update(kp, bad)
  BY DEF ControllersUpdate
<1> QED
  BY <1>1, <1>2, <1>3 DEF BodyMoves

LEMMA StackMovesBody ==
  ASSUME BodyInv, [Next]_vars
  PROVE  BodyMoves \/ UNCHANGED bodyVars
<1>1. CASE BodyCycle \/ SkipSwitch \/ EndCycle
  BY <1>1 DEF BodyCycle, SkipSwitch, EndCycle, BodyMoves
<1>2. CASE RunControllers
  BY <1>2, UpdateIsOfTheBody
<1>3. CASE Switch
  BY <1>3 DEF Switch, ServeCall, BodyMoves
<1>4. CASE BodyTransition \/ BringUp \/ Reconfigure \/ TakeDown \/ BodySamples
  BY <1>4
  DEF BodyTransition, BringUp, Reconfigure, TakeDown, BodySamples, BodyMoves, LifecycleCall
<1>5. CASE HandCycle \/ HandLifecycle \/ HandFails \/ HandSamples
  BY <1>5 DEF HandCycle, HandLifecycle, HandFails, HandSamples, othersOfHand
<1>6. CASE Arms \/ SpawnFreeze \/ EmergencyTimer \/ EmergencyAnswer \/ SafetyNode
           \/ \E group \in Groups : Spawn(group)
  BY <1>6, CallersLeaveBody
<1>7. CASE UNCHANGED vars
  BY <1>7 DEF vars
<1> QED
  BY <1>1, <1>2, <1>3, <1>4, <1>5, <1>6, <1>7 DEF Next, UpdateThread

LEMMA StackMovesHand ==
  ASSUME [Next]_vars
  PROVE  HandNext \/ UNCHANGED handVars
<1>1. CASE BodyCycle \/ SkipSwitch \/ EndCycle \/ RunControllers \/ Switch
  BY <1>1
  DEF BodyCycle, SkipSwitch, EndCycle, RunControllers, ControllersUpdate, Switch, ServeCall,
      othersOfBody, HandNext
<1>2. CASE BodyTransition \/ BringUp \/ Reconfigure \/ TakeDown \/ BodySamples
  BY <1>2 DEF BodyTransition, BringUp, Reconfigure, TakeDown, BodySamples, othersOfBody
<1>3. CASE HandCycle \/ HandLifecycle \/ HandFails \/ HandSamples
  BY <1>3 DEF HandCycle, HandLifecycle, HandFails, HandSamples, HandNext
<1>4. CASE Arms
  BY <1>4
  DEF Arms, ArmStep, ListControllers, SendSwap, SwapAnswered, SwapTimesOut, RaiseHand,
      HandRaised, TakeHand, HandTaken, GiveHand, HandGiven, LowerHand, HandLowered,
      BeginArm, ScriptSwap, elsewhere, HandNext
<1>5. CASE SpawnFreeze \/ EmergencyTimer \/ EmergencyAnswer \/ SafetyNode
           \/ \E group \in Groups : Spawn(group)
  BY <1>5 DEF SpawnFreeze, LoadFreeze, EmergencyTimer, EmergencyAnswer, SafetyNode, Spawn
<1>6. CASE UNCHANGED vars
  BY <1>6 DEF vars
<1> QED
  BY <1>1, <1>2, <1>3, <1>4, <1>5, <1>6 DEF Next, UpdateThread

-----------------------------------------------------------------------------
\* The body and the hand keep their invariants, whatever the controllers, the callers
\* and each other do (g1_lowcmd_system.cpp, g1_dex3_system.cpp).
THEOREM ComponentsKeep == Spec => [](BodyInv /\ HandInv)
<1>1. Init => BodyInv /\ HandInv
  BY BodyInitInv, HandInitInv DEF Init
<1>2. BodyInv /\ HandInv /\ [Next]_vars => (BodyInv /\ HandInv)'
  BY StackMovesBody, StackMovesHand, BodyKeeps, HandKeeps
<1> QED
  BY <1>1, <1>2, PTL DEF Spec

\* Every frame the motors get was filled by one loop, by write() or by the ramp.
THEOREM FramesStayWhole == Spec => []FramesWhole
<1>1. BodyInv => FramesWhole
  BY DEF BodyInv
<1> QED
  BY ComponentsKeep, <1>1, PTL

\* No frame of write() follows a release that has begun its ramp.
THEOREM ReleasesAreFinal == Spec => ReleaseIsFinal
<1>1. BodyInv /\ [Next]_vars =>
        [\A p \in Parts :
           wire'[p] # wire[p] /\ wire'[p].by = "write" => active \/ tr.pc = "drain"]_bodyVars
  BY StackMovesBody, BodyReleases
<1> QED
  BY ComponentsKeep, <1>1, PTL DEF Spec, ReleaseIsFinal

\* A hand that is not active was sent the release frame last: no write follows it, and
\* only a frame the SDK refuses leaves the hand driven.
THEOREM HandsLetGo == Spec => []HandLetsGo
  BY ComponentsKeep, HandInvLetsGo, PTL

-----------------------------------------------------------------------------
CallRecords == [by: Callers \cup {"nobody"}, act: SUBSET Controllers,
                deact: SUBSET Controllers, strict: BOOLEAN]

CmInv == CmTypeOK /\ calls \in Seq(CallRecords)

\* What the safety controller has asked for, and what became of it.
EmergencyInv ==
  /\ \A i \in DOMAIN calls : calls[i].by = "safety" => calls[i] = EmergencyCall
  /\ answers["safety"] = "ok" => ~("safety" \in holders /\ switchPending)
  /\ switchPending => latched
  /\ EmergencyIsUnderWay

-----------------------------------------------------------------------------
(* The queue. *)
LEMMA QueueAppends ==
  ASSUME NEW q \in Seq(CallRecords), NEW call \in CallRecords
  PROVE  /\ Append(q, call) \in Seq(CallRecords)
         /\ Len(Append(q, call)) = Len(q) + 1 /\ Len(q) \in Nat
         /\ DOMAIN q = 1..Len(q) /\ DOMAIN Append(q, call) = 1..(Len(q) + 1)
         /\ \A i \in 1..Len(q) : Append(q, call)[i] = q[i]
         /\ Append(q, call)[Len(q) + 1] = call
  BY AppendProperties, LenProperties

LEMMA QueueServes ==
  ASSUME NEW q \in Seq(CallRecords), q # <<>>
  PROVE  /\ Head(q) \in CallRecords /\ Head(q) = q[1]
         /\ Tail(q) \in Seq(CallRecords)
         /\ Len(q) \in Nat \ {0} /\ Len(Tail(q)) = Len(q) - 1
         /\ DOMAIN q = 1..Len(q) /\ DOMAIN Tail(q) = 1..(Len(q) - 1)
         /\ \A i \in 1..(Len(q) - 1) : Tail(q)[i] = q[i + 1]
  BY HeadTailProperties, LenProperties, EmptySeq

LEMMA CallsAreRecords ==
  ASSUME NEW by \in Callers \cup {"nobody"}, NEW act \in SUBSET Controllers,
         NEW deact \in SUBSET Controllers, NEW strict \in BOOLEAN
  PROVE  /\ Call(by, act, deact, strict) \in CallRecords
         /\ Call(by, act, deact, strict).by = by
  BY DEF Call, CallRecords

LEMMA EmergencyCallIsOne ==
  EmergencyCall \in CallRecords /\ EmergencyCall.by = "safety" /\ EmergencyCall.strict
  /\ "safety" \notin EmergencyCall.act /\ "safety" \in EmergencyCall.deact
  BY DEF EmergencyCall, Call, CallRecords, Callers, Controllers

-----------------------------------------------------------------------------
(* Types of controller_manager. *)
LEMMA SendTyped ==
  ASSUME CmInv, NEW call \in CallRecords, Send(call)
  PROVE  CmInv'
<1>1. calls' \in Seq(CallRecords) /\ Len(calls') <= MaxQueue
  BY QueueAppends, MaxQueueAssumption DEF CmInv, CmTypeOK, Send
<1>2. \A i \in DOMAIN calls' : calls'[i] \in CallRecords
  BY <1>1, LenProperties, ElementOfSeq
<1>3. answers' \in [Callers -> {"none", "waiting", "ok", "refused"}]
  BY DEF CmInv, CmTypeOK, Send
<1> QED
  BY <1>1, <1>2, <1>3 DEF CmInv, CmTypeOK, Send, CallRecords

LEMMA GiveUpRenames ==
  ASSUME CmInv, NEW by \in Callers, GiveUp(by)
  PROVE  /\ calls' \in Seq(CallRecords) /\ Len(calls') = Len(calls)
         /\ DOMAIN calls' = DOMAIN calls
         /\ \A i \in DOMAIN calls : calls[i].by # by => calls'[i] = calls[i]
         /\ \A i \in DOMAIN calls : calls[i].by = by => calls'[i].by = "nobody"
<1> DEFINE n == Len(calls)
<1>1. n \in Nat /\ DOMAIN calls = 1..n /\ \A i \in 1..n : calls[i] \in CallRecords
  BY LenProperties, ElementOfSeq DEF CmInv
<1>2. calls' = [i \in 1..n |->
         IF calls[i].by = by THEN [calls[i] EXCEPT !.by = "nobody"] ELSE calls[i]]
  BY <1>1 DEF GiveUp
<1> HIDE DEF n
<1>3. calls' \in [1..n -> CallRecords]
  BY <1>1, <1>2 DEF CallRecords
<1>4. calls' \in Seq(CallRecords)
  BY <1>1, <1>3, SeqDef
<1>5. Len(calls') = n
  BY <1>1, <1>3, <1>4, LenProperties
<1>6. \A i \in 1..n : calls[i].by = by => calls'[i].by = "nobody"
  BY <1>1, <1>2 DEF CallRecords
<1> QED
  BY <1>1, <1>2, <1>3, <1>4, <1>5, <1>6 DEF n

LEMMA GiveUpTyped ==
  ASSUME CmInv, NEW by \in Callers, GiveUp(by)
  PROVE  CmInv'
<1>1. calls' \in Seq(CallRecords) /\ Len(calls') <= MaxQueue
  BY GiveUpRenames DEF CmInv, CmTypeOK
<1>2. \A i \in DOMAIN calls' : calls'[i] \in CallRecords
  BY <1>1, LenProperties, ElementOfSeq
<1>3. answers' \in [Callers -> {"none", "waiting", "ok", "refused"}]
  BY DEF CmInv, CmTypeOK, GiveUp
<1> QED
  BY <1>1, <1>2, <1>3 DEF CmInv, CmTypeOK, GiveUp, CallRecords

LEMMA TakeTyped ==
  ASSUME CmInv, NEW by \in Callers, Take(by)
  PROVE  CmInv'
  BY DEF CmInv, CmTypeOK, Take

LEMMA AfterIsControllers ==
  ASSUME NEW call \in CallRecords, holders \subseteq Controllers
  PROVE  After(call) \subseteq Controllers
<1>1. call.act \subseteq Controllers
  BY DEF CallRecords
<1> QED
  BY <1>1 DEF After

LEMMA ServeTyped ==
  ASSUME CmInv, NEW m, ServeCall(m)
  PROVE  CmInv'
<1>1. calls \in Seq(CallRecords) /\ calls # <<>>
  BY DEF CmInv, ServeCall
<1>2. Head(calls) \in CallRecords /\ calls' \in Seq(CallRecords) /\ Len(calls') <= MaxQueue
  BY <1>1, QueueServes, MaxQueueAssumption DEF CmInv, CmTypeOK, ServeCall
<1>3. \A i \in DOMAIN calls' : calls'[i] \in CallRecords
  BY <1>2, LenProperties, ElementOfSeq
<1>4. holders' \subseteq Controllers
  BY <1>2, AfterIsControllers DEF CmInv, CmTypeOK, ServeCall
<1>5. answers' \in [Callers -> {"none", "waiting", "ok", "refused"}]
  BY DEF CmInv, CmTypeOK, ServeCall, Answer
<1> QED
  BY <1>2, <1>3, <1>4, <1>5 DEF CmInv, CmTypeOK, ServeCall, CallRecords

-----------------------------------------------------------------------------
(* Types of the legs' controllers. *)
\* A part of a distance, in whole steps, lies between nothing and all of it.
LEMMA PartOfADistance ==
  ASSUME NEW n \in Nat \ {0}, NEW r \in 0..n, NEW d \in Int
  PROVE  /\ (r * d) \div n \in Int
         /\ d >= 0 => (r * d) \div n \in 0..d
         /\ d <= 0 => (r * d) \div n \in d..0
<1> DEFINE q == (r * d) \div n
           a == r * d
<1>1. a \in Int /\ n * d \in Int
  OBVIOUS
<1>2. q \in Int /\ n * q <= a /\ a < n * q + n
  OBVIOUS
<1>3. (d >= 0 => 0 <= a /\ a <= n * d) /\ (d <= 0 => a <= 0 /\ n * d <= a)
  OBVIOUS
<1> HIDE DEF q, a
<1>4. ASSUME d >= 0 PROVE q \in 0..d
  <2>1. n * q <= n * d /\ 0 < n * (q + 1)
    BY <1>1, <1>2, <1>3, <1>4
  <2> QED
    BY <1>2, <1>4, <2>1
<1>5. ASSUME d <= 0 PROVE q \in d..0
  <2>1. n * d < n * (q + 1) /\ n * q <= 0
    BY <1>1, <1>2, <1>3, <1>5
  <2>2. q <= 0
    BY <1>2, <2>1
  <2>3. d < q + 1
    BY <1>2, <2>1
  <2> QED
    BY <1>2, <2>2, <2>3
<1> QED
  BY <1>2, <1>4, <1>5 DEF q

\* The blended and slewed command stays within the joint's range.
LEMMA BlendStays ==
  ASSUME NEW start \in Positions, NEW to \in Positions, NEW ratio \in 0..BlendSteps,
         NEW now \in Positions
  PROVE  BlendAndSlew(start, to, ratio, now) \in Positions
<1> DEFINE part == (ratio * (to - start)) \div BlendSteps
           blended == start + part
<1>1. Span \in Nat /\ start \in 0..Span /\ to \in 0..Span /\ now \in 0..Span /\ MaxStep \in Nat
  BY SpanAssumption, MaxStepAssumption DEF Positions
<1>2. to - start \in Int
  BY <1>1
<1>3. /\ part \in Int
      /\ to - start >= 0 => part \in 0..(to - start)
      /\ to - start <= 0 => part \in (to - start)..0
  BY <1>2, BlendAssumption, PartOfADistance
<1> HIDE DEF part
<1>4. blended \in 0..Span
  BY <1>1, <1>3
<1> HIDE DEF blended
<1>5. now + Clamped(blended - now, -MaxStep, MaxStep) \in 0..Span
  BY <1>1, <1>4 DEF Clamped
<1> QED
  BY <1>4, <1>5 DEF BlendAndSlew, Positions, blended, part

LEMMA BlendStepStays ==
  ASSUME LegsTypeOK
  PROVE  BlendStep \in 0..BlendSteps
  BY BlendAssumption DEF LegsTypeOK, BlendStep, Clamped

LEMMA LegsSwitchTyped ==
  ASSUME LegsTypeOK, NEW before, NEW after, NEW m \in Positions, LegsSwitch(before, after, m)
  PROVE  LegsTypeOK'
<1>1. target' = target /\ blend' \in 0..BlendSteps
  BY BlendAssumption
  DEF LegsTypeOK, LegsSwitch, SafetyActivates, SafetyDeactivates, safetyVars
<1>2. latched' \in BOOLEAN /\ switchPending' \in BOOLEAN /\ retryWait' \in BOOLEAN
      /\ timer' \in BOOLEAN
  BY DEF LegsTypeOK, LegsSwitch, SafetyActivates, SafetyDeactivates, safetyVars
<1>3. startPose' \in Positions /\ pose' \in Positions /\ ref' \in Positions \cup {NaN}
  BY DEF LegsTypeOK, LegsSwitch, SafetyActivates, SafetyDeactivates, safetyVars
<1>4. frozen' \in Positions /\ legsCmd' \in [pose: Positions, gains: Gains]
  BY DEF LegsTypeOK, LegsSwitch
<1> QED
  BY <1>1, <1>2, <1>3, <1>4 DEF LegsTypeOK

LEMMA LegsUpdateTyped ==
  ASSUME LegsTypeOK, NEW cs, NEW infers \in BOOLEAN, NEW wants \in Positions,
         NEW reading \in Readings, LegsUpdate(cs, infers, wants, reading)
  PROVE  LegsTypeOK'
<1>1. ref' \in Positions \cup {NaN}
  BY DEF LegsTypeOK, LegsUpdate, AgileUpdate
<1>2. CASE "safety" \in cs
  <2>1. SafetyUpdate(reading)
    BY <1>2 DEF LegsUpdate
  <2> DEFINE to == IF ref' = NaN THEN startPose ELSE ref'
  <2>2. to \in Positions /\ startPose \in Positions /\ pose \in Positions
        /\ BlendStep \in 0..BlendSteps
    BY <1>1, BlendStepStays DEF LegsTypeOK
  <2> DEFINE slewed == BlendAndSlew(startPose, to, BlendStep, pose)
  <2>5. \/ latched' /\ blend' = blend /\ pose' = pose
        \/ blend' = BlendStep /\ pose' = slewed
    BY <2>1 DEF SafetyUpdate
  <2>6. latched' \in BOOLEAN
    BY <2>1 DEF SafetyUpdate, LegsTypeOK
  <2> HIDE DEF to
  <2>7. slewed \in Positions
    BY <2>2, BlendStays
  <2> HIDE DEF slewed
  <2>3. blend' \in 0..BlendSteps /\ pose' \in Positions /\ latched' \in BOOLEAN
    BY <2>2, <2>5, <2>6, <2>7 DEF LegsTypeOK
  <2>4. legsCmd' \in [pose: Positions, gains: Gains]
    BY <2>1, <2>3 DEF SafetyUpdate, LegsTypeOK, Gains
  <2> QED
    BY <1>1, <2>3, <2>4 DEF LegsTypeOK, LegsUpdate
<1>3. CASE "safety" \notin cs
  <2>1. latched' = latched /\ blend' = blend /\ pose' = pose
    BY <1>3 DEF LegsUpdate
  <2>2. legsCmd' \in [pose: Positions, gains: Gains]
    BY <1>3 DEF LegsUpdate, FreezeUpdate, LegsTypeOK, Gains
  <2> QED
    BY <1>1, <2>1, <2>2 DEF LegsTypeOK, LegsUpdate
<1> QED
  BY <1>2, <1>3

LEMMA SafetyNodeTyped ==
  ASSUME LegsTypeOK,
         \/ MarkSwitchPending \/ RetryDue
         \/ \E ok \in BOOLEAN : EmergencyAnswered(ok)
         \/ \E v \in 0..BlendSteps : SetBlend(v)
  PROVE  LegsTypeOK'
  BY DEF LegsTypeOK, MarkSwitchPending, RetryDue, EmergencyAnswered, SetBlend

-----------------------------------------------------------------------------
(* The emergency.                                                          *)
\* A step that leaves the queue and the safety controller's answer alone, sends
\* nothing and does not give the legs back.
LEMMA EmergencyWaits ==
  ASSUME EmergencyInv, calls' = calls, answers'["safety"] = answers["safety"],
         switchPending' => switchPending /\ latched',
         "safety" \in holders' => "safety" \in holders
  PROVE  EmergencyInv'
<1>1. EmergencyCall' = EmergencyCall
  BY DEF EmergencyCall, Call
<1> QED
  BY <1>1 DEF EmergencyInv, EmergencyIsUnderWay

\* A call of somebody else waits behind the emergency's.
LEMMA EmergencyOvertakesNobody ==
  ASSUME CmInv, EmergencyInv, NEW call \in CallRecords, call.by # "safety", Send(call),
         UNCHANGED <<switchPending, latched>>
  PROVE  EmergencyInv'
<1>1. calls \in Seq(CallRecords) /\ calls' = Append(calls, call)
  BY DEF CmInv, Send
<1>2. /\ Len(calls) \in Nat /\ DOMAIN calls = 1..Len(calls)
      /\ DOMAIN calls' = 1..(Len(calls) + 1)
      /\ \A i \in 1..Len(calls) : calls'[i] = calls[i]
      /\ calls'[Len(calls) + 1] = call
  BY <1>1, QueueAppends
<1>3. answers'["safety"] = answers["safety"] /\ holders' = holders
  BY DEF Send, Callers
<1>4. \A i \in DOMAIN calls' : calls'[i].by = "safety" => calls'[i] = EmergencyCall
  BY <1>2 DEF EmergencyInv
<1>5. \A i \in DOMAIN calls : i \in DOMAIN calls' /\ calls'[i] = calls[i]
  BY <1>2
<1> QED
  BY <1>3, <1>4, <1>5 DEF EmergencyInv, EmergencyIsUnderWay, EmergencyCall, Call

\* So does a caller that gives up: only its own calls change hands.
LEMMA EmergencyOutlivesOthers ==
  ASSUME CmInv, EmergencyInv, GiveUp("executor"), UNCHANGED <<switchPending, latched>>
  PROVE  EmergencyInv'
<1>1. "executor" \in Callers
  BY DEF Callers
<1>2. /\ DOMAIN calls' = DOMAIN calls
      /\ \A i \in DOMAIN calls : calls[i].by # "executor" => calls'[i] = calls[i]
      /\ \A i \in DOMAIN calls : calls[i].by = "executor" => calls'[i].by = "nobody"
  BY <1>1, GiveUpRenames
<1>3. answers'["safety"] = answers["safety"] /\ holders' = holders
  BY DEF GiveUp, CmInv, CmTypeOK, Callers
<1>4. EmergencyCall.by = "safety" /\ EmergencyCall' = EmergencyCall
  BY DEF EmergencyCall, Call
<1>5. \A i \in DOMAIN calls' : calls'[i].by = "safety" => calls'[i] = EmergencyCall
  BY <1>2 DEF EmergencyInv
<1>6. \A i \in DOMAIN calls : calls[i] = EmergencyCall => calls'[i] = EmergencyCall
  BY <1>2, <1>4
<1> QED
  BY <1>2, <1>3, <1>4, <1>5, <1>6 DEF EmergencyInv, EmergencyIsUnderWay

\* What serving a call does to the flags of the safety controller.
LEMMA SwitchAndFlags ==
  ASSUME NEW m, ServeCall(m)
  PROVE  \/ "safety" \in holders' /\ "safety" \notin holders /\ ~switchPending'
         \/ /\ "safety" \in holders' => "safety" \in holders
            /\ switchPending' = switchPending /\ latched' = latched
  BY DEF ServeCall, LegsSwitch, SafetyActivates, SafetyDeactivates, safetyVars

\* "ok" to the emergency's call: the safety controller has lost the legs.
LEMMA EmergencyTakesTheLegs ==
  ASSUME After(EmergencyCall) # holders
  PROVE  "safety" \notin After(EmergencyCall)
  BY DEF After, EmergencyCall, Call

LEMMA EmergencyServed ==
  ASSUME CmInv, EmergencyInv, NEW m, ServeCall(m)
  PROVE  EmergencyInv'
<1> DEFINE call == Head(calls)
<1>1. calls \in Seq(CallRecords) /\ calls # <<>> /\ calls' = Tail(calls)
      /\ holders' = After(call)
      /\ answers' = [c \in Callers |-> IF c = call.by THEN Answer(call) ELSE answers[c]]
  BY DEF CmInv, ServeCall
<1>2. /\ call = calls[1] /\ Len(calls) \in Nat \ {0}
      /\ DOMAIN calls = 1..Len(calls) /\ DOMAIN calls' = 1..(Len(calls) - 1)
      /\ \A i \in 1..(Len(calls) - 1) : calls'[i] = calls[i + 1]
  BY <1>1, QueueServes
<1> HIDE DEF call
<1>3. EmergencyCall.by = "safety" /\ EmergencyCall.strict /\ EmergencyCall' = EmergencyCall
  BY DEF EmergencyCall, Call
<1>4. \A i \in DOMAIN calls' : calls'[i].by = "safety" => calls'[i] = EmergencyCall
  BY <1>2 DEF EmergencyInv
<1>5. call.by = "safety" => call = EmergencyCall
  BY <1>2 DEF EmergencyInv
<1>6. CASE "safety" \in holders' /\ "safety" \notin holders /\ ~switchPending'
  BY <1>3, <1>4, <1>6 DEF EmergencyInv, EmergencyIsUnderWay
<1>7. CASE /\ "safety" \in holders' => "safety" \in holders
           /\ switchPending' = switchPending /\ latched' = latched
  <2>1. CASE call = EmergencyCall
    <3>1. answers'["safety"] = Answer(EmergencyCall) /\ holders' = After(EmergencyCall)
      BY <1>1, <1>3, <2>1 DEF Callers
    <3>2. \/ answers'["safety"] = "refused"
          \/ "safety" \notin holders'
      BY <3>1, <1>3, EmergencyTakesTheLegs DEF Answer
    <3> QED
      BY <1>3, <1>4, <1>7, <3>2 DEF EmergencyInv, EmergencyIsUnderWay
  <2>2. CASE call # EmergencyCall
    <3>1. answers'["safety"] = answers["safety"]
      BY <1>1, <1>5, <2>2 DEF Callers
    <3>2. ASSUME NEW i \in DOMAIN calls, calls[i] = EmergencyCall
          PROVE  \E j \in DOMAIN calls' : calls'[j] = EmergencyCall
      <4>1. i \in 2..Len(calls)
        BY <1>2, <2>2, <3>2
      <4>2. i - 1 \in 1..(Len(calls) - 1) /\ (i - 1) + 1 = i
        BY <4>1, <1>2
      <4>3. calls'[i - 1] = calls[i]
        BY <4>2, <1>2
      <4> QED
        BY <4>2, <4>3, <3>2, <1>2
    <3> QED
      BY <1>3, <1>4, <1>7, <3>1, <3>2 DEF EmergencyInv, EmergencyIsUnderWay
  <2> QED
    BY <2>1, <2>2
<1> QED
  BY <1>6, <1>7, SwitchAndFlags

\* The timer's request goes up with the flag.
LEMMA EmergencyAsked ==
  ASSUME CmInv, EmergencyInv, EmergencyTimer
  PROVE  EmergencyInv'
<1>1. calls \in Seq(CallRecords) /\ calls' = Append(calls, EmergencyCall)
  BY DEF CmInv, EmergencyTimer, Send
<1>2. /\ Len(calls) \in Nat /\ DOMAIN calls = 1..Len(calls)
      /\ DOMAIN calls' = 1..(Len(calls) + 1)
      /\ \A i \in 1..Len(calls) : calls'[i] = calls[i]
      /\ calls'[Len(calls) + 1] = EmergencyCall
  BY <1>1, EmergencyCallIsOne, QueueAppends
<1>3. answers'["safety"] = "waiting" /\ latched /\ latched' = latched
  BY EmergencyCallIsOne
  DEF EmergencyTimer, Send, Callers, EmergencyDue, MarkSwitchPending
<1>4. \A i \in DOMAIN calls' : calls'[i].by = "safety" => calls'[i] = EmergencyCall
  BY <1>2 DEF EmergencyInv
<1>5. Len(calls) + 1 \in DOMAIN calls' /\ calls'[Len(calls) + 1] = EmergencyCall
  BY <1>2
<1>6. EmergencyCall' = EmergencyCall
  BY DEF EmergencyCall, Call
<1> QED
  BY <1>3, <1>4, <1>5, <1>6 DEF EmergencyInv, EmergencyIsUnderWay

\* A refusal lowers the flag; after an "ok" the legs are gone.
LEMMA EmergencyTold ==
  ASSUME CmInv, EmergencyInv, EmergencyAnswer
  PROVE  EmergencyInv'
<1>1. /\ calls' = calls /\ holders' = holders /\ latched' = latched
      /\ answers'["safety"] = "none"
      /\ answers["safety"] \in {"ok", "refused"}
  BY DEF EmergencyAnswer, Take, EmergencyAnswered, CmInv, CmTypeOK, Callers
<1>2. \/ answers["safety"] = "ok" /\ switchPending' = switchPending
      \/ ~switchPending'
  BY <1>1 DEF EmergencyAnswer, EmergencyAnswered
<1>3. EmergencyCall' = EmergencyCall
  BY DEF EmergencyCall, Call
<1> QED
  BY <1>1, <1>2, <1>3 DEF EmergencyInv, EmergencyIsUnderWay

-----------------------------------------------------------------------------
(* The executor's calls and the scripts'.                                  *)
LEMMA ArmsTyped ==
  ASSUME ArmTypeOK, Arms
  PROVE  ArmTypeOK'
<1>1. arm \in [pc: ArmSteps, goal: {"take", "give"},
               displace: SUBSET Controllers, result: ArmResults]
      /\ armCalls \in 0..MaxArmCalls
  BY DEF ArmTypeOK
<1>2. ASSUME armCalls' = armCalls,
             arm' \in [pc: ArmSteps, goal: {"take", "give"},
                       displace: SUBSET Controllers, result: ArmResults]
      PROVE  ArmTypeOK'
  BY <1>1, <1>2 DEF ArmTypeOK
<1>3. CASE ListControllers
  <2>1. {Outgoing(arm.goal)} \cap holders \in SUBSET Controllers
    BY DEF Outgoing, Controllers
  <2>2. armCalls' = armCalls
    BY <1>3 DEF ListControllers
  <2>3. \/ Ends("failed") \/ Ends("released")
        \/ arm' = [arm EXCEPT !.pc = "handUp", !.result = "already"]
        \/ arm' = [arm EXCEPT !.pc = "send",
                     !.displace = {Outgoing(arm.goal)} \cap holders]
    BY <1>3 DEF ListControllers
  <2>4. CASE Ends("failed") \/ Ends("released")
    BY <1>1, <1>2, <2>2, <2>4 DEF Ends, ArmSteps, ArmResults
  <2>5. CASE arm' = [arm EXCEPT !.pc = "handUp", !.result = "already"]
    BY <1>1, <1>2, <2>2, <2>5 DEF ArmSteps, ArmResults
  <2>6. CASE arm' = [arm EXCEPT !.pc = "send",
                       !.displace = {Outgoing(arm.goal)} \cap holders]
    BY <1>1, <1>2, <2>1, <2>2, <2>6 DEF ArmSteps
  <2> QED
    BY <2>3, <2>4, <2>5, <2>6
<1>4. CASE SendSwap \/ TakeHand \/ GiveHand \/ RaiseHand \/ LowerHand \/ HandLowered
           \/ HandGiven
  BY <1>1, <1>2, <1>4
  DEF SendSwap, TakeHand, GiveHand, RaiseHand, LowerHand, HandLowered, HandGiven, Go,
      ArmSteps
<1>5. CASE SwapAnswered
  BY <1>1, <1>2, <1>5 DEF SwapAnswered, Ends, ArmSteps, ArmResults
<1>6. CASE SwapTimesOut \/ HandTaken \/ HandRaised
  BY <1>1, <1>2, <1>6 DEF SwapTimesOut, HandTaken, HandRaised, Ends, Go, ArmSteps, ArmResults
<1>7. CASE \E goal \in {"take", "give"} : BeginArm(goal)
  <2> PICK goal \in {"take", "give"} : BeginArm(goal)
    BY <1>7
  <2> DEFINE opening == IF goal = "take" THEN "list" ELSE "handGive"
  <2>1. armCalls' \in 0..MaxArmCalls
    BY <1>1, MaxArmCallsAssumption DEF BeginArm
  <2>2. arm' = [arm EXCEPT !.pc = opening, !.goal = goal, !.result = "none"]
        /\ opening \in ArmSteps /\ "none" \in ArmResults
    BY DEF BeginArm, ArmSteps, ArmResults
  <2> HIDE DEF opening
  <2> QED
    BY <1>1, <2>1, <2>2 DEF ArmTypeOK
<1>8. CASE \E goal \in {"take", "give"} : ScriptSwap(goal)
  BY <1>1, <1>8, MaxArmCallsAssumption DEF ScriptSwap, ArmTypeOK
<1> QED
  BY <1>3, <1>4, <1>5, <1>6, <1>7, <1>8 DEF Arms, ArmStep

\* They reach controller_manager by Send, Take, GiveUp and by lowering the hand.
LEMMA ArmsCall ==
  ASSUME ArmTypeOK, Arms
  PROVE  /\ UNCHANGED legVars
         /\ \/ \E call \in CallRecords : call.by # "safety" /\ Send(call)
            \/ Take("executor") \/ GiveUp("executor")
            \/ HandLoses \/ UNCHANGED cmVars
<1>1. arm.displace \in SUBSET Controllers
  BY DEF ArmTypeOK
<1>2. UNCHANGED legVars
  BY DEF Arms, ArmStep, ListControllers, SendSwap, SwapAnswered, SwapTimesOut, RaiseHand,
         HandRaised, TakeHand, HandTaken, GiveHand, HandGiven, LowerHand, HandLowered,
         BeginArm, ScriptSwap, elsewhere
<1>9. /\ "executor" \in Callers \cup {"nobody"} /\ "nobody" \in Callers \cup {"nobody"}
      /\ {} \in SUBSET Controllers /\ {"hand"} \in SUBSET Controllers /\ FALSE \in BOOLEAN
      /\ \A goal \in {"take", "give"} : {Incoming(goal)} \in SUBSET Controllers
                                        /\ {Outgoing(goal)} \in SUBSET Controllers
  BY DEF Callers, Controllers, Incoming, Outgoing
<1>3. CASE ListControllers \/ RaiseHand \/ HandRaised \/ HandLowered \/ LowerHand
           \/ \E goal \in {"take", "give"} : BeginArm(goal)
  BY <1>2, <1>3
  DEF ListControllers, RaiseHand, HandRaised, HandLowered, LowerHand, BeginArm
<1>4. CASE SwapAnswered \/ SwapTimesOut \/ HandTaken \/ HandGiven
  BY <1>2, <1>4 DEF SwapAnswered, SwapTimesOut, HandTaken, HandGiven
<1>5. CASE SendSwap
  <2>1. Swap \in CallRecords /\ Swap.by # "safety"
    BY <1>1, CallsAreRecords DEF Swap, Callers, Incoming, Controllers
  <2> QED
    BY <1>2, <1>5, <2>1 DEF SendSwap
<1>6. CASE TakeHand
  <2>1. Call("executor", {"hand"}, {}, FALSE) \in CallRecords
        /\ Call("executor", {"hand"}, {}, FALSE).by # "safety"
    BY <1>9, CallsAreRecords
  <2> QED
    BY <1>2, <1>6, <2>1 DEF TakeHand
<1>7. CASE GiveHand
  <2>1. Call("executor", {}, {"hand"}, FALSE) \in CallRecords
        /\ Call("executor", {}, {"hand"}, FALSE).by # "safety"
    BY <1>9, CallsAreRecords
  <2> QED
    BY <1>2, <1>7, <2>1 DEF GiveHand
<1>8. CASE \E goal \in {"take", "give"} : ScriptSwap(goal)
  <2> PICK goal \in {"take", "give"} : ScriptSwap(goal)
    BY <1>8
  <2> DEFINE call == Call("nobody", {Incoming(goal)}, {Outgoing(goal)}, TRUE)
  <2>1. call \in CallRecords /\ call.by # "safety"
    BY <1>9, CallsAreRecords
  <2>2. Send(call)
    BY DEF ScriptSwap
  <2> QED
    BY <1>2, <2>1, <2>2
<1> QED
  BY <1>3, <1>4, <1>5, <1>6, <1>7, <1>8 DEF Arms, ArmStep

-----------------------------------------------------------------------------
(* All of them together.                                                   *)
CallersInv ==
  /\ LegsTypeOK /\ CmInv /\ ArmTypeOK /\ EmergencyInv
  /\ scene \in Scenes /\ spawned \subseteq Groups

LEMMA CallersInit == Init => CallersInv
<1> SUFFICES ASSUME Init PROVE CallersInv
  OBVIOUS
<1>1. LegsTypeOK
  <2>1. 0 \in Positions /\ 0 \in 0..BlendSteps /\ BlendSteps \in 0..BlendSteps
        /\ "none" \in Gains
    BY SpanAssumption, BlendAssumption DEF Positions, Gains
  <2> QED
    BY <2>1 DEF Init, LegsInit, LegsTypeOK
<1>2. calls = <<>> /\ calls \in Seq(CallRecords) /\ Len(calls) = 0 /\ DOMAIN calls = {}
  BY EmptySeq DEF Init, CmInit
<1>3. CmInv
  BY <1>2, MaxQueueAssumption DEF Init, CmInit, CmInv, CmTypeOK, Controllers
<1>4. ArmTypeOK
  BY MaxArmCallsAssumption DEF Init, ArmInit, ArmTypeOK, ArmSteps, ArmResults
<1>5. EmergencyInv
  BY <1>2 DEF Init, LegsInit, CmInit, EmergencyInv, EmergencyIsUnderWay, Callers
<1> QED
  BY <1>1, <1>3, <1>4, <1>5 DEF Init, CallersInv

LEMMA StackIsStill ==
  ASSUME CallersInv, UNCHANGED <<legVars, cmVars, armVars, scene, spawned>>
  PROVE  CallersInv'
<1>1. LegsTypeOK'
  BY DEF CallersInv, LegsTypeOK, legVars
<1>2. CmInv'
  BY DEF CallersInv, CmInv, CmTypeOK, cmVars
<1>3. ArmTypeOK'
  BY DEF CallersInv, ArmTypeOK, armVars
<1>4. EmergencyInv'
  BY EmergencyWaits DEF CallersInv, EmergencyInv, legVars, cmVars
<1>5. (scene \in Scenes /\ spawned \subseteq Groups)'
  BY DEF CallersInv, Groups, With
<1> QED
  BY <1>1, <1>2, <1>3, <1>4, <1>5 DEF CallersInv

LEMMA StackRuns ==
  ASSUME CallersInv, RunControllers
  PROVE  CallersInv'
<1> PICK infers \in BOOLEAN, fails \in BOOLEAN, wants \in Poses, reading \in ReadingsNow,
         legsBad \in {{}, {"gains"}} :
      ControllersUpdate(infers, fails, wants, reading,
                        [p \in Parts |-> IF p = "legs" THEN legsBad ELSE {}])
  BY DEF RunControllers
<1>1. wants \in Positions /\ reading \in Readings /\ (infers /\ ~fails) \in BOOLEAN
  BY SpanAssumption DEF Poses, Positions, ReadingsNow, Readings
<1>2. LegsUpdate(holders, infers /\ ~fails, wants, reading)
      /\ holders' \subseteq holders /\ UNCHANGED <<loaded, calls, answers>>
  BY DEF ControllersUpdate
<1>3. LegsTypeOK'
  BY <1>1, <1>2, LegsUpdateTyped DEF CallersInv
<1>4. CmInv'
  BY <1>2 DEF CallersInv, CmInv, CmTypeOK
<1>5. switchPending' = switchPending /\ (latched => latched')
  BY <1>2 DEF LegsUpdate, SafetyUpdate
<1>6. EmergencyInv'
  BY <1>2, <1>5, EmergencyWaits DEF CallersInv, EmergencyInv
<1>7. (ArmTypeOK /\ scene \in Scenes /\ spawned \subseteq Groups)'
  BY DEF CallersInv, RunControllers, ArmTypeOK, armVars, Groups, With
<1> QED
  BY <1>3, <1>4, <1>6, <1>7 DEF CallersInv

LEMMA StackSwitches ==
  ASSUME CallersInv, Switch
  PROVE  CallersInv'
<1> PICK m \in Poses : ServeCall(m)
  BY DEF Switch
<1>1. m \in Positions
  BY SpanAssumption DEF Poses, Positions
<1>2. LegsTypeOK'
  BY <1>1, LegsSwitchTyped DEF CallersInv, ServeCall
<1>3. CmInv' /\ EmergencyInv'
  BY ServeTyped, EmergencyServed DEF CallersInv
<1>4. (ArmTypeOK /\ scene \in Scenes /\ spawned \subseteq Groups)'
  BY DEF CallersInv, Switch, ArmTypeOK, armVars, Groups, With
<1> QED
  BY <1>2, <1>3, <1>4 DEF CallersInv

\* A component that goes takes its controllers with it.
LEMMA StackLetsGo ==
  ASSUME CallersInv, BodyLetsGo \/ (HandLoses /\ UNCHANGED legVars),
         UNCHANGED <<armVars, scene, spawned>>
  PROVE  CallersInv'
<1>1. 0 \in Positions
  BY SpanAssumption DEF Positions
<1>2. LegsTypeOK'
  <2>1. CASE BodyLetsGo
    BY <1>1, <2>1, LegsSwitchTyped DEF CallersInv, BodyLetsGo
  <2>2. CASE UNCHANGED legVars
    BY <2>2 DEF CallersInv, LegsTypeOK, legVars
  <2> QED
    BY <2>1, <2>2
<1>3. holders' \subseteq holders /\ UNCHANGED <<loaded, calls, answers>>
  BY DEF BodyLetsGo, HandLoses
<1>4. CmInv'
  BY <1>3 DEF CallersInv, CmInv, CmTypeOK
<1>5. switchPending' = switchPending /\ latched' = latched
  <2>1. CASE BodyLetsGo
    BY <1>3, <2>1 DEF BodyLetsGo, LegsSwitch, SafetyDeactivates, safetyVars
  <2>2. CASE UNCHANGED legVars
    BY <2>2 DEF legVars
  <2> QED
    BY <2>1, <2>2
<1>6. EmergencyInv'
  BY <1>3, <1>5, EmergencyWaits DEF CallersInv, EmergencyInv
<1>7. (ArmTypeOK /\ scene \in Scenes /\ spawned \subseteq Groups)'
  BY DEF CallersInv, ArmTypeOK, armVars, Groups, With
<1> QED
  BY <1>2, <1>4, <1>6, <1>7 DEF CallersInv

LEMMA StackSpawns ==
  ASSUME CallersInv, SpawnFreeze \/ \E group \in Groups : Spawn(group)
  PROVE  CallersInv'
<1>1. UNCHANGED <<legVars, armVars, scene>> /\ spawned' \subseteq Groups
  BY DEF CallersInv, SpawnFreeze, LoadFreeze, Spawn
<1>2. (LegsTypeOK /\ ArmTypeOK /\ scene \in Scenes /\ spawned \subseteq Groups)'
  BY <1>1 DEF CallersInv, LegsTypeOK, legVars, ArmTypeOK, armVars, Groups, With
<1>3. CASE SpawnFreeze
  <2>1. UNCHANGED <<holders, calls, answers>> /\ loaded' \subseteq loaded \cup {"freeze"}
    BY <1>3 DEF SpawnFreeze, LoadFreeze
  <2>2. CmInv'
    BY <2>1 DEF CallersInv, CmInv, CmTypeOK, Controllers
  <2>3. EmergencyInv'
    BY <1>1, <2>1, EmergencyWaits DEF CallersInv, EmergencyInv, legVars
  <2> QED
    BY <1>2, <2>2, <2>3 DEF CallersInv
<1>4. CASE \E group \in Groups : Spawn(group)
  <2> PICK group \in Groups : Spawn(group)
    BY <1>4
  <2> DEFINE call == Call("nobody", group, {}, TRUE)
  <2>1. group \in SUBSET Controllers
    BY DEF Groups, Controllers
  <2>2. call \in CallRecords /\ call.by # "safety" /\ Send(call)
    BY <2>1, CallsAreRecords, ZenonT(40) DEF Spawn, Callers
  <2>3. CmInv' /\ EmergencyInv'
    BY <1>1, <2>2, SendTyped, EmergencyOvertakesNobody DEF CallersInv, legVars
  <2> QED
    BY <1>2, <2>3 DEF CallersInv
<1> QED
  BY <1>3, <1>4

LEMMA StackEmergency ==
  ASSUME CallersInv, EmergencyTimer \/ EmergencyAnswer \/ SafetyNode
  PROVE  CallersInv'
<1>1. (ArmTypeOK /\ scene \in Scenes /\ spawned \subseteq Groups)'
  BY DEF CallersInv, EmergencyTimer, EmergencyAnswer, SafetyNode, ArmTypeOK, armVars, Groups,
         With
<1>2. LegsTypeOK'
  BY SafetyNodeTyped DEF CallersInv, EmergencyTimer, EmergencyAnswer, SafetyNode
<1>3. CASE EmergencyTimer
  <2>1. CmInv'
    BY <1>3, EmergencyCallIsOne, SendTyped DEF CallersInv, EmergencyTimer
  <2> QED
    BY <1>1, <1>2, <1>3, <2>1, EmergencyAsked DEF CallersInv
<1>4. CASE EmergencyAnswer
  <2>1. CmInv'
    BY <1>4, TakeTyped DEF CallersInv, EmergencyAnswer, Callers
  <2> QED
    BY <1>1, <1>2, <1>4, <2>1, EmergencyTold DEF CallersInv
<1>5. CASE SafetyNode
  <2>1. CmInv'
    BY <1>5 DEF CallersInv, SafetyNode, CmInv, CmTypeOK, cmVars
  <2>2. UNCHANGED <<holders, calls, answers, switchPending, latched>>
    BY <1>5 DEF SafetyNode, cmVars, RetryDue, SetBlend
  <2>3. EmergencyInv'
    BY <2>2, EmergencyWaits DEF CallersInv, EmergencyInv
  <2> QED
    BY <1>1, <1>2, <2>1, <2>3 DEF CallersInv
<1> QED
  BY <1>3, <1>4, <1>5

LEMMA StackArms ==
  ASSUME CallersInv, Arms
  PROVE  CallersInv'
<1>1. ArmTypeOK'
  BY ArmsTyped DEF CallersInv
<1>2. UNCHANGED legVars
  BY ArmsCall DEF CallersInv
<1>3. LegsTypeOK'
  BY <1>2 DEF CallersInv, LegsTypeOK, legVars
<1>4. (scene \in Scenes /\ spawned \subseteq Groups)'
  BY DEF CallersInv, Arms, Groups, With
<1>5. CmInv' /\ EmergencyInv'
  <2>1. CASE \E call \in CallRecords : call.by # "safety" /\ Send(call)
    BY <1>2, <2>1, SendTyped, EmergencyOvertakesNobody DEF CallersInv, legVars
  <2>2. CASE Take("executor")
    <3>1. UNCHANGED <<holders, calls>> /\ answers'["safety"] = answers["safety"]
      BY <2>2 DEF Take, CallersInv, CmInv, CmTypeOK, Callers
    <3> QED
      BY <1>2, <2>2, <3>1, TakeTyped, EmergencyWaits
      DEF CallersInv, EmergencyInv, legVars, Callers
  <2>3. CASE GiveUp("executor")
    BY <1>2, <2>3, GiveUpTyped, EmergencyOutlivesOthers DEF CallersInv, legVars, Callers
  <2>4. CASE HandLoses \/ UNCHANGED cmVars
    <3>1. holders' \subseteq holders /\ UNCHANGED <<loaded, calls, answers>>
      BY <2>4 DEF HandLoses, cmVars
    <3>2. CmInv'
      BY <3>1 DEF CallersInv, CmInv, CmTypeOK
    <3>3. EmergencyInv'
      BY <1>2, <3>1, EmergencyWaits DEF CallersInv, EmergencyInv, legVars
    <3> QED
      BY <3>2, <3>3
  <2> QED
    BY <2>1, <2>2, <2>3, <2>4, ArmsCall DEF CallersInv
<1> QED
  BY <1>1, <1>3, <1>4, <1>5 DEF CallersInv

LEMMA StackKeepsCallers == CallersInv /\ [Next]_vars => CallersInv'
<1> SUFFICES ASSUME CallersInv, [Next]_vars PROVE CallersInv'
  OBVIOUS
<1>1. CASE BodyCycle \/ SkipSwitch \/ HandCycle \/ EndCycle
  BY <1>1, StackIsStill
  DEF BodyCycle, SkipSwitch, HandCycle, EndCycle, othersOfBody, othersOfHand
<1>2. CASE BringUp \/ Reconfigure \/ BodySamples \/ HandLifecycle \/ HandSamples
  BY <1>2, StackIsStill
  DEF BringUp, Reconfigure, BodySamples, HandLifecycle, HandSamples, othersOfBody,
      othersOfHand
<1>3. CASE BodyTransition
  BY <1>3, StackIsStill, StackLetsGo DEF BodyTransition, othersOfBody
<1>4. CASE TakeDown \/ HandFails
  BY <1>4, StackLetsGo DEF TakeDown, HandFails
<1>5. CASE UNCHANGED vars
  BY <1>5, StackIsStill DEF vars
<1> QED
  BY <1>1, <1>2, <1>3, <1>4, <1>5, StackRuns, StackSwitches, StackSpawns, StackEmergency,
     StackArms
  DEF Next, UpdateThread

\* Every variable of the process keeps to its type: the calls queued are calls that its
\* callers make, the poses commanded are poses of the legs.
THEOREM ControlTypes == Spec => []ControlTypeOK
<1>1. BodyInv /\ HandInv /\ CallersInv => ControlTypeOK
  BY DEF BodyInv, HandInv, CallersInv, CmInv, ControlTypeOK
<1> QED
  BY <1>1, ComponentsKeep, CallersInit, StackKeepsCallers, PTL DEF Spec

\* A latched emergency does not go to sleep while the safety controller has the legs,
\* whoever else trades controllers (g1_safety_controller.cpp 363-403).
THEOREM EmergencyStaysUnderWay == Spec => []EmergencyIsUnderWay
<1>1. CallersInv => EmergencyIsUnderWay
  BY DEF CallersInv, EmergencyInv
<1> QED
  BY <1>1, CallersInit, StackKeepsCallers, PTL DEF Spec
=============================================================================
