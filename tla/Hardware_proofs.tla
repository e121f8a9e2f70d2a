--------------------------- MODULE Hardware_proofs ---------------------------
(***************************************************************************)
(* Theorems of the two hardware components, each under any controllers     *)
(* whatever.                                                               *)
(*                                                                         *)
(* The body: its types, whole frames, a final release, and no frame on a   *)
(* closed channel.  The argument is the comment at write(): in_write_ is   *)
(* up from before active_ is read until the frame is out, and a release    *)
(* clears active_ and then waits for in_write_.  So a write past its test  *)
(* still has an active component or a release that waits for it            *)
(* (WriteIsCovered), the ramp has the frame for itself, and each loop      *)
(* publishes what it filled.                                               *)
(*                                                                         *)
(* A hand: its types, and that one which is not active was left with the   *)
(* release frame.  A driven frame goes out only past the test of seeded_,  *)
(* so the hand is active, or a deactivation waits for that write           *)
(* (HandWriteIsCovered).  The release frame then undrives it, unless the   *)
(* channels were closed before, and they are closed only on a hand that is *)
(* not driven.                                                             *)
(***************************************************************************)
EXTENDS LowCmdSystem, Dex3System, TLAPS

(***************************************************************************)
(* The body                                                                *)
(***************************************************************************)
\* in_write_ says where the update thread is.
FlagIsTheWrite == inWrite <=> rt \in {"check", "fill", "publish"}

\* The component drives the motors only when it is up and nothing is under way.
ActiveIsUp == active => life = "active" /\ sdk /\ channels /\ tr = Idle

\* A write past its test has an active component, or the release waits for it.
WriteIsCovered == rt \in {"fill", "publish"} => active \/ tr.pc = "drain"

\* How far a transition has come, and that on_error holds the update thread.
TransitionShape ==
  /\ tr.pc = "none" => tr = Idle
  /\ tr.pc \in {"wait", "seed", "drain", "ramp", "off"} => channels
  /\ tr.pc \in {"seed", "drain", "ramp", "off"} => sdk
  /\ tr.by = "rt" => rt = "error" /\ tr.pc \in {"drain", "ramp", "off", "close"}

\* What is filled of the frame was filled by the loop that will publish it.
FilledByItsLoop ==
  /\ rt = "fill" => \A p \in Parts \ wtodo : lowCmd[p].by = "write"
  /\ rt = "publish" => \A p \in Parts : lowCmd[p].by = "write"
  /\ tr.pc \in {"ramp", "off"} => \A p \in Parts \ rtodo : lowCmd[p].by = tr.pc

BodyInv ==
  /\ BodyTypeOK
  /\ FlagIsTheWrite
  /\ ActiveIsUp
  /\ WriteIsCovered
  /\ TransitionShape
  /\ FilledByItsLoop
  /\ FramesWhole
-----------------------------------------------------------------------------
(* Helpers. *)
LEMMA ModesAreModes == \A claims : ModeOf(claims) \in Modes
  BY DEF ModeOf, Modes

LEMMA ClaimsAreClaims == \A list : ClaimsIn(list) \subseteq Claims
  BY DEF ClaimsIn, Claims

\* A frame of write is a frame, and says whose it is.
LEMMA MotorCmdWrites ==
  ASSUME NEW j \in Joints, NEW mode \in Modes
  PROVE  MotorCmd(mode, j) \in Motors /\ MotorCmd(mode, j).by = "write"
<1>1. Ticks \in 0..Ticks /\ 0 \in 0..Ticks /\ j.kp \in 0..Ticks
  BY TicksAssumption DEF Joints
<1> QED
  BY <1>1 DEF MotorCmd, Motors, Off, Joints

LEMMA ReleaseCmdRamps ==
  ASSUME NEW j \in Joints, NEW tick \in 0..Ticks
  PROVE  ReleaseCmd(j, tick) \in Motors /\ ReleaseCmd(j, tick).by = "ramp"
<1>1. Ticks - tick \in 0..Ticks /\ 0 \in 0..Ticks
  BY TicksAssumption
<1> QED
  BY <1>1 DEF ReleaseCmd, Motors

LEMMA OffIsOff ==
  ASSUME NEW by \in {"write", "ramp", "off"}
  PROVE  Off(by) \in Motors /\ Off(by).by = by
  BY TicksAssumption DEF Off, Motors

LEMMA IdleTyped == Idle \in Transitions /\ Idle.pc = "none" /\ Idle.by = "none"
  BY TicksAssumption DEF Idle, Transitions, LifeStates

-----------------------------------------------------------------------------
LEMMA BodyInitInv == BodyInit => BodyInv
<1> SUFFICES ASSUME BodyInit PROVE BodyInv
  OBVIOUS
<1> USE DEF BodyInit
<1>1. BodyTypeOK
  <2>1. joint \in [Parts -> Joints]
    BY DEF Joints, Modes
  <2>2. lowCmd \in [Parts -> Motors] /\ wire \in [Parts -> Motors]
    BY OffIsOff
  <2>3. asked \in 0..MaxTransitions
    BY MaxTransitionsAssumption
  <2>4. life \in LifeStates /\ rt \in RtSteps /\ tr \in Transitions
    BY IdleTyped DEF LifeStates, RtSteps
  <2> QED
    BY <2>1, <2>2, <2>3, <2>4 DEF BodyTypeOK
<1>2. FramesWhole
  BY DEF FramesWhole
<1> QED
  BY <1>1, <1>2, IdleTyped
  DEF BodyInv, FlagIsTheWrite, ActiveIsUp, WriteIsCovered, TransitionShape,
      FilledByItsLoop
-----------------------------------------------------------------------------
(* The SDK's thread and the steps of the update thread. *)
LEMMA SampleKeeps ==
  ASSUME BodyInv, LowState \/ GoStale
  PROVE  BodyInv'
<1> USE DEF LowState, GoStale
<1>1. BodyTypeOK'
  BY DEF BodyInv, BodyTypeOK
<1>2. FilledByItsLoop' /\ FramesWhole'
  BY DEF BodyInv, FilledByItsLoop, FramesWhole
<1> QED
  BY <1>1, <1>2 DEF BodyInv, FlagIsTheWrite, ActiveIsUp, WriteIsCovered, TransitionShape

\* Read, the entry to write, a switch left out, and the end of the cycle.
LEMMA CycleKeeps ==
  ASSUME BodyInv, Read \/ NoSwitch \/ EnterWrite \/ NextCycle
  PROVE  BodyInv'
<1> USE DEF Read, NoSwitch, EnterWrite, NextCycle, ToRt
<1>1. BodyTypeOK'
  BY ZenonT(40) DEF BodyInv, BodyTypeOK, RtSteps
<1>2. FilledByItsLoop' /\ FramesWhole'
  BY DEF BodyInv, FilledByItsLoop, FramesWhole
<1> QED
  BY <1>1, <1>2 DEF BodyInv, FlagIsTheWrite, ActiveIsUp, WriteIsCovered, TransitionShape

\* Whatever the controllers command.
LEMMA UpdateKeeps ==
  ASSUME BodyInv, NEW kp \in [Parts -> {0, Ticks}],
         NEW bad \in [Parts -> SUBSET {"position", "gains"}], Update(kp, bad)
  PROVE  BodyInv'
<1> USE DEF Update, ToRt
<1>1. joint' \in [Parts -> Joints]
  BY ZenonT(40) DEF BodyInv, BodyTypeOK, Joints
<1>2. BodyTypeOK'
  BY <1>1 DEF BodyInv, BodyTypeOK, RtSteps
<1>3. FilledByItsLoop' /\ FramesWhole'
  BY DEF BodyInv, FilledByItsLoop, FramesWhole
<1> QED
  BY <1>2, <1>3 DEF BodyInv, FlagIsTheWrite, ActiveIsUp, WriteIsCovered, TransitionShape

\* Whatever interfaces change hands.
LEMMA ModeSwitchKeeps ==
  ASSUME BodyInv, NEW start, NEW stop, ModeSwitch(start, stop)
  PROVE  BodyInv'
<1> USE DEF ModeSwitch, ToRt
<1>1. joint' \in [Parts -> Joints]
  <2> SUFFICES ASSUME NEW p \in Parts PROVE joint'[p] \in Joints
    OBVIOUS
  <2> DEFINE claims == (joint[p].claims \ ClaimsIn(stop[p])) \cup ClaimsIn(start[p])
  <2>1. joint[p] \in Joints
    BY DEF BodyInv, BodyTypeOK
  <2>2. claims \subseteq Claims /\ ModeOf(claims) \in Modes
    BY <2>1, ModesAreModes, ClaimsAreClaims DEF Joints
  <2>3. joint'[p] = [joint[p] EXCEPT !.claims = claims, !.mode = ModeOf(claims),
             !.bad = IF "position" \in start[p] THEN @ \ {"position"} ELSE @]
    OBVIOUS
  <2> HIDE DEF claims
  <2> QED
    BY <2>1, <2>2, <2>3, ZenonT(40) DEF Joints
<1>2. BodyTypeOK'
  BY <1>1 DEF BodyInv, BodyTypeOK, RtSteps
<1>3. FilledByItsLoop' /\ FramesWhole'
  BY DEF BodyInv, FilledByItsLoop, FramesWhole
<1> QED
  BY <1>2, <1>3 DEF BodyInv, FlagIsTheWrite, ActiveIsUp, WriteIsCovered, TransitionShape

LEMMA CheckActiveKeeps ==
  ASSUME BodyInv, CheckActive
  PROVE  BodyInv'
<1> USE DEF CheckActive, ToRt
<1>1. BodyTypeOK'
  BY DEF BodyInv, BodyTypeOK, RtSteps
<1>2. FilledByItsLoop' /\ FramesWhole'
  BY DEF BodyInv, BodyTypeOK, FilledByItsLoop, FramesWhole
<1> QED
  BY <1>1, <1>2 DEF BodyInv, FlagIsTheWrite, ActiveIsUp, WriteIsCovered, TransitionShape

LEMMA FillPartKeeps ==
  ASSUME BodyInv, NEW p \in Parts, FillPart(p)
  PROVE  BodyInv'
<1> USE DEF FillPart, ToRt
<1>1. joint[p] \in Joints /\ joint[p].mode \in Modes
  BY DEF BodyInv, BodyTypeOK, Joints
<1>2. MotorCmd(joint[p].mode, joint[p]) \in Motors
      /\ MotorCmd(joint[p].mode, joint[p]).by = "write"
  BY <1>1, MotorCmdWrites
<1>3. BodyTypeOK'
  BY <1>2 DEF BodyInv, BodyTypeOK, RtSteps
<1>4. tr.pc \notin {"ramp", "off"}
  BY DEF BodyInv, WriteIsCovered, ActiveIsUp, Idle
<1>5. \A q \in Parts \ wtodo' : lowCmd'[q].by = "write"
  BY <1>2 DEF BodyInv, BodyTypeOK, FilledByItsLoop
<1>6. FilledByItsLoop'
  BY <1>4, <1>5 DEF FilledByItsLoop
<1>7. FramesWhole'
  BY DEF BodyInv, FramesWhole
<1> QED
  BY <1>3, <1>6, <1>7
  DEF BodyInv, FlagIsTheWrite, ActiveIsUp, WriteIsCovered, TransitionShape

LEMMA PublishWriteKeeps ==
  ASSUME BodyInv, PublishWrite
  PROVE  BodyInv'
<1> USE DEF PublishWrite, ToRt
<1>1. BodyTypeOK'
  BY DEF BodyInv, BodyTypeOK, RtSteps
<1>2. FilledByItsLoop' /\ FramesWhole'
  BY DEF BodyInv, FilledByItsLoop, FramesWhole
<1> QED
  BY <1>1, <1>2 DEF BodyInv, FlagIsTheWrite, ActiveIsUp, WriteIsCovered, TransitionShape
-----------------------------------------------------------------------------
(* Lifecycle. *)
\* A transition that ends in an error state, or asks for one, moves no frame.
LEMMA BeginActivateKeeps ==
  ASSUME BodyInv, BeginActivate
  PROVE  BodyInv'
<1> USE DEF BeginActivate
<1>1. tr' \in Transitions /\ tr'.pc = "motion" /\ tr'.by = "life"
  <2>1. tr' = [by |-> "life", pc |-> "motion", tick |-> 0, to |-> "active"]
    BY DEF Idle
  <2> QED
    BY <2>1, TicksAssumption DEF Transitions, LifeStates
<1>2. BodyTypeOK'
  BY <1>1, MaxTransitionsAssumption DEF BodyInv, BodyTypeOK
<1>3. FilledByItsLoop' /\ FramesWhole'
  BY <1>1 DEF BodyInv, FilledByItsLoop, FramesWhole
<1>4. ~active
  BY DEF BodyInv, ActiveIsUp
<1> QED
  BY <1>1, <1>2, <1>3, <1>4, IdleTyped
  DEF BodyInv, FlagIsTheWrite, ActiveIsUp, WriteIsCovered, TransitionShape

LEMMA ReleaseMotionModeKeeps ==
  ASSUME BodyInv, ReleaseMotionMode
  PROVE  BodyInv'
<1> USE DEF ReleaseMotionMode, ShutdownSdk
<1>1. tr \in Transitions /\ tr.pc = "motion" /\ tr.by # "rt" /\ ~active
  BY IdleTyped DEF BodyInv, BodyTypeOK, ActiveIsUp, TransitionShape
<1>2. rt \notin {"fill", "publish"}
  BY <1>1 DEF BodyInv, WriteIsCovered
<1>3. tr' \in Transitions /\ tr'.by # "rt" /\ (tr' = Idle \/ (tr'.pc = "wait" /\ channels'))
  <2>1. CASE ReleaseModeParam /\ motion'
    BY <2>1, IdleTyped
  <2>2. CASE ~(ReleaseModeParam /\ motion')
    <3>1. channels' /\ tr' = [tr EXCEPT !.pc = "wait"]
      BY <2>2
    <3> QED
      BY <1>1, <3>1 DEF Transitions
  <2> QED
    BY <2>1, <2>2
<1>4. BodyTypeOK'
  BY <1>3 DEF BodyInv, BodyTypeOK, LifeStates
<1>5. FilledByItsLoop' /\ FramesWhole'
  BY <1>2, <1>3, IdleTyped DEF BodyInv, FilledByItsLoop, FramesWhole
<1> QED
  BY <1>1, <1>2, <1>3, <1>4, <1>5, IdleTyped
  DEF BodyInv, FlagIsTheWrite, ActiveIsUp, WriteIsCovered, TransitionShape

LEMMA FirstStateKeeps ==
  ASSUME BodyInv, FirstState
  PROVE  BodyInv'
<1> USE DEF FirstState
<1>1. tr' \in Transitions /\ tr'.pc = "seed" /\ tr'.by = tr.by /\ ~active
  BY IdleTyped DEF BodyInv, BodyTypeOK, ActiveIsUp, Transitions
<1>2. BodyTypeOK'
  BY <1>1 DEF BodyInv, BodyTypeOK
<1>3. FilledByItsLoop' /\ FramesWhole'
  BY <1>1 DEF BodyInv, FilledByItsLoop, FramesWhole
<1> QED
  BY <1>1, <1>2, <1>3
  DEF BodyInv, FlagIsTheWrite, ActiveIsUp, WriteIsCovered, TransitionShape

LEMMA FirstStateTimeoutKeeps ==
  ASSUME BodyInv, FirstStateTimeout
  PROVE  BodyInv'
<1> USE DEF FirstStateTimeout, ShutdownSdk
<1>1. ~active
  BY IdleTyped DEF BodyInv, ActiveIsUp
<1>2. BodyTypeOK'
  BY IdleTyped DEF BodyInv, BodyTypeOK, LifeStates
<1>3. FilledByItsLoop' /\ FramesWhole'
  BY IdleTyped DEF BodyInv, FilledByItsLoop, FramesWhole
<1> QED
  BY <1>1, <1>2, <1>3, IdleTyped
  DEF BodyInv, FlagIsTheWrite, ActiveIsUp, WriteIsCovered, TransitionShape

LEMMA SeedKeeps ==
  ASSUME BodyInv, Seed
  PROVE  BodyInv'
<1> USE DEF Seed
<1>1. joint' \in [Parts -> Joints]
  BY DEF BodyInv, BodyTypeOK, Joints, Modes
<1>2. BodyTypeOK'
  BY <1>1, IdleTyped DEF BodyInv, BodyTypeOK, LifeStates
<1>3. FilledByItsLoop' /\ FramesWhole'
  BY IdleTyped DEF BodyInv, FilledByItsLoop, FramesWhole
<1> QED
  BY <1>2, <1>3, IdleTyped
  DEF BodyInv, FlagIsTheWrite, ActiveIsUp, WriteIsCovered, TransitionShape

LEMMA ConfigureKeeps ==
  ASSUME BodyInv, Configure
  PROVE  BodyInv'
<1> USE DEF Configure
<1>1. ~active
  BY DEF BodyInv, ActiveIsUp
<1>2. BodyTypeOK'
  BY MaxTransitionsAssumption DEF BodyInv, BodyTypeOK, LifeStates
<1>3. FilledByItsLoop' /\ FramesWhole'
  BY DEF BodyInv, FilledByItsLoop, FramesWhole
<1> QED
  BY <1>1, <1>2, <1>3
  DEF BodyInv, FlagIsTheWrite, ActiveIsUp, WriteIsCovered, TransitionShape

\* A release clears active_; the write that is past its test goes on under "drain".
LEMMA BeginReleaseKeeps ==
  ASSUME BodyInv, NEW to \in {"inactive", "finalized"}, BeginRelease(to)
  PROVE  BodyInv'
<1> USE DEF BeginRelease, Release
<1>1. /\ tr' \in Transitions /\ tr'.by = "life" /\ tr'.pc \in {"drain", "close"}
      /\ tr'.pc = "drain" <=> active /\ sdk
  BY TicksAssumption DEF Transitions, LifeStates
<1>2. BodyTypeOK'
  <2>1. asked' \in 0..MaxTransitions
    BY MaxTransitionsAssumption DEF BodyInv, BodyTypeOK
  <2> QED
    BY <1>1, <2>1 DEF BodyInv, BodyTypeOK
<1>3. FilledByItsLoop' /\ FramesWhole'
  BY <1>1 DEF BodyInv, FilledByItsLoop, FramesWhole
<1>4. rt \in {"fill", "publish"} => active
  BY IdleTyped DEF BodyInv, WriteIsCovered
<1> QED
  BY <1>1, <1>2, <1>3, <1>4
  DEF BodyInv, FlagIsTheWrite, ActiveIsUp, WriteIsCovered, TransitionShape

LEMMA OnErrorKeeps ==
  ASSUME BodyInv, OnError
  PROVE  BodyInv'
<1> USE DEF OnError, Release
<1>1. /\ tr' \in Transitions /\ tr'.by = "rt" /\ tr'.pc \in {"drain", "close"}
      /\ tr'.pc = "drain" <=> active /\ sdk
  BY TicksAssumption DEF Transitions, LifeStates
<1>2. BodyTypeOK'
  BY <1>1 DEF BodyInv, BodyTypeOK
<1>3. FilledByItsLoop' /\ FramesWhole'
  BY <1>1 DEF BodyInv, FilledByItsLoop, FramesWhole
<1> QED
  BY <1>1, <1>2, <1>3
  DEF BodyInv, FlagIsTheWrite, ActiveIsUp, WriteIsCovered, TransitionShape

\* Once the write is waited out the frame is the ramp's.
LEMMA DrainKeeps ==
  ASSUME BodyInv, Drain
  PROVE  BodyInv'
<1> USE DEF Drain
<1>1. joint' \in [Parts -> Joints]
  BY ZenonT(40) DEF BodyInv, BodyTypeOK, Joints
<1>2. tr' \in Transitions /\ tr'.pc = "ramp" /\ tr'.by = tr.by /\ ~active
  BY IdleTyped DEF BodyInv, BodyTypeOK, ActiveIsUp, Transitions
<1>3. BodyTypeOK'
  BY <1>1, <1>2 DEF BodyInv, BodyTypeOK
<1>4. rt \notin {"fill", "publish"}
  BY DEF BodyInv, FlagIsTheWrite
<1>5. FilledByItsLoop' /\ FramesWhole'
  BY <1>2, <1>4 DEF BodyInv, BodyTypeOK, FilledByItsLoop, FramesWhole
<1> QED
  BY <1>2, <1>3, <1>4, <1>5
  DEF BodyInv, FlagIsTheWrite, ActiveIsUp, WriteIsCovered, TransitionShape

LEMMA FillReleaseKeeps ==
  ASSUME BodyInv, NEW p \in Parts, FillRelease(p)
  PROVE  BodyInv'
<1> USE DEF FillRelease
<1> DEFINE cmd == IF tr.pc = "ramp" THEN ReleaseCmd(joint[p], tr.tick) ELSE Off("off")
<1>1. joint[p] \in Joints /\ tr.tick \in 0..Ticks
  BY DEF BodyInv, BodyTypeOK, Transitions
<1>2. cmd \in Motors /\ cmd.by = tr.pc
  BY <1>1, ReleaseCmdRamps, OffIsOff
<1>3. lowCmd' = [lowCmd EXCEPT ![p] = cmd]
  OBVIOUS
<1> HIDE DEF cmd
<1>4. lowCmd' \in [Parts -> Motors]
  BY <1>2, <1>3 DEF BodyInv, BodyTypeOK
<1>5. BodyTypeOK'
  BY <1>4 DEF BodyInv, BodyTypeOK
<1>6. rt \notin {"fill", "publish"}
  BY IdleTyped DEF BodyInv, WriteIsCovered, ActiveIsUp
<1>7. \A q \in Parts \ rtodo' : lowCmd'[q].by = tr.pc
  BY <1>2, <1>3 DEF BodyInv, BodyTypeOK, FilledByItsLoop
<1>8. FilledByItsLoop' /\ FramesWhole'
  BY <1>6, <1>7 DEF BodyInv, FilledByItsLoop, FramesWhole
<1> QED
  BY <1>5, <1>6, <1>8
  DEF BodyInv, FlagIsTheWrite, ActiveIsUp, WriteIsCovered, TransitionShape

LEMMA PublishReleaseKeeps ==
  ASSUME BodyInv, PublishRelease
  PROVE  BodyInv'
<1> USE DEF PublishRelease
<1>1. tr \in Transitions /\ tr.pc \in {"ramp", "off"} /\ tr # Idle /\ ~active
  BY IdleTyped DEF BodyInv, BodyTypeOK, ActiveIsUp
<1>2. rt \notin {"fill", "publish"}
  BY <1>1 DEF BodyInv, WriteIsCovered
<1>3. /\ tr' \in Transitions /\ tr'.by = tr.by
      /\ \/ tr'.pc \in {"ramp", "off"} /\ rtodo' = Parts
         \/ tr'.pc = "close" /\ rtodo' = rtodo
  <2>1. CASE tr.pc = "off"
    BY <1>1, <2>1 DEF Transitions
  <2>2. CASE tr.pc = "ramp" /\ tr.tick = Ticks
    BY <1>1, <2>2 DEF Transitions
  <2>3. CASE tr.pc = "ramp" /\ tr.tick # Ticks
    <3>1. tr.tick \in 0..Ticks /\ tr.tick + 1 \in 0..Ticks
      BY <1>1, <2>3, TicksAssumption DEF Transitions
    <3>2. tr' = [tr EXCEPT !.tick = tr.tick + 1] /\ rtodo' = Parts
      BY <2>3
    <3> QED
      BY <1>1, <2>3, <3>1, <3>2 DEF Transitions
  <2> QED
    BY <1>1, <2>1, <2>2, <2>3
<1>4. BodyTypeOK'
  BY <1>3 DEF BodyInv, BodyTypeOK
<1>5. FilledByItsLoop'
  BY <1>2, <1>3 DEF FilledByItsLoop
<1>6. FramesWhole'
  BY <1>1 DEF BodyInv, FilledByItsLoop, FramesWhole
<1> QED
  BY <1>1, <1>2, <1>3, <1>4, <1>5, <1>6
  DEF BodyInv, FlagIsTheWrite, ActiveIsUp, WriteIsCovered, TransitionShape

LEMMA CloseKeeps ==
  ASSUME BodyInv, Close
  PROVE  BodyInv'
<1> USE DEF Close, ShutdownSdk
<1>1. tr \in Transitions /\ tr # Idle /\ ~active
  BY IdleTyped DEF BodyInv, BodyTypeOK, ActiveIsUp
<1>2. rt \notin {"fill", "publish"} /\ (tr.by = "rt" => rt = "error")
  BY <1>1 DEF BodyInv, WriteIsCovered, TransitionShape
<1>3. BodyTypeOK'
  BY <1>1, IdleTyped DEF BodyInv, BodyTypeOK, Transitions, RtSteps
<1>4. FilledByItsLoop' /\ FramesWhole'
  BY <1>2, IdleTyped DEF BodyInv, FilledByItsLoop, FramesWhole
<1> QED
  BY <1>1, <1>2, <1>3, <1>4, IdleTyped
  DEF BodyInv, FlagIsTheWrite, ActiveIsUp, WriteIsCovered, TransitionShape
-----------------------------------------------------------------------------
(* One step of the component, whoever its controllers are: what BodyNext   *)
(* allows with any lists of interfaces.                                    *)
BodyMoves ==
  \/ LowState \/ GoStale \/ NoSwitch \/ NextCycle \/ Close
  \/ WriteStep \/ TransitionStep \/ LifecycleCall
  \/ \E kp \in [Parts -> {0, Ticks}], bad \in [Parts -> SUBSET {"position", "gains"}] :
       Update(kp, bad)
  \/ \E start, stop : ModeSwitch(start, stop)

LEMMA BodyNextMoves == BodyNext => BodyMoves
  BY DEF BodyNext, BodyMoves, AnyControllers

LEMMA BodyKeeps ==
  ASSUME BodyInv, BodyMoves \/ UNCHANGED bodyVars
  PROVE  BodyInv'
<1>1. CASE LowState \/ GoStale
  BY <1>1, SampleKeeps
<1>2. CASE NoSwitch \/ NextCycle
  BY <1>2, CycleKeeps
<1>3. CASE Close
  BY <1>3, CloseKeeps
<1>4. CASE WriteStep
  BY <1>4, CycleKeeps, CheckActiveKeeps, PublishWriteKeeps, FillPartKeeps DEF WriteStep
<1>5. CASE TransitionStep
  BY <1>5, ReleaseMotionModeKeeps, FirstStateKeeps, FirstStateTimeoutKeeps, SeedKeeps,
     OnErrorKeeps, DrainKeeps, PublishReleaseKeeps, FillReleaseKeeps DEF TransitionStep
<1>6. CASE LifecycleCall
  BY <1>6, BeginActivateKeeps, ConfigureKeeps, BeginReleaseKeeps DEF LifecycleCall
<1>7. CASE \E kp \in [Parts -> {0, Ticks}],
             bad \in [Parts -> SUBSET {"position", "gains"}] : Update(kp, bad)
  BY <1>7, UpdateKeeps
<1>8. CASE \E start, stop : ModeSwitch(start, stop)
  BY <1>8, ModeSwitchKeeps
<1>9. CASE UNCHANGED bodyVars
  <2>1. BodyTypeOK'
    BY <1>9 DEF BodyInv, BodyTypeOK, bodyVars
  <2>2. FilledByItsLoop' /\ FramesWhole'
    BY <1>9 DEF BodyInv, FilledByItsLoop, FramesWhole, bodyVars
  <2> QED
    BY <1>9, <2>1, <2>2
    DEF BodyInv, FlagIsTheWrite, ActiveIsUp, WriteIsCovered, TransitionShape, bodyVars
<1> QED
  BY <1>1, <1>2, <1>3, <1>4, <1>5, <1>6, <1>7, <1>8, <1>9 DEF BodyMoves

\* A frame of write() that reaches the motors leaves under an active component or
\* under the release that waits for it.
LEMMA BodyReleases ==
  ASSUME BodyInv, BodyMoves, NEW p \in Parts, wire'[p] # wire[p], wire'[p].by = "write"
  PROVE  active \/ tr.pc = "drain"
<1>1. CASE PublishWrite
  BY <1>1 DEF PublishWrite, BodyInv, WriteIsCovered
<1>2. CASE PublishRelease
  BY <1>2 DEF PublishRelease, BodyInv, FilledByItsLoop
<1>3. PublishWrite \/ PublishRelease
  BY DEF BodyMoves, LowState, GoStale, NoSwitch, NextCycle, Close, WriteStep, Read,
     EnterWrite, CheckActive, FillPart, TransitionStep, ReleaseMotionMode, FirstState,
     FirstStateTimeout, Seed, OnError, Drain, FillRelease, LifecycleCall, BeginActivate,
     Configure, BeginRelease, Update, ModeSwitch
<1> QED
  BY <1>1, <1>2, <1>3

-----------------------------------------------------------------------------
(* The component alone. *)
\* Every behaviour of the component, under any controllers, keeps its invariant, and
\* with it its types, whole frames, and open channels under every frame.
THEOREM BodyInvariant == BodySpec => []BodyInv
<1>1. BodyInv /\ [BodyNext]_bodyVars => BodyInv'
  BY BodyNextMoves, BodyKeeps
<1> QED
  BY BodyInitInv, <1>1, PTL DEF BodySpec

\* Neither the write nor the ramp publishes after shutdownSdk.
THEOREM BodyPublishesOnAChannel == BodySpec => []PublishesOnAChannel
<1>1. BodyInv => PublishesOnAChannel
  BY DEF BodyInv, PublishesOnAChannel, WriteIsCovered, ActiveIsUp, TransitionShape
<1> QED
  BY BodyInvariant, <1>1, PTL

(***************************************************************************)
(* A hand                                                                  *)
(***************************************************************************)
HandFlagIsTheWrite == hInWrite <=> hrt \in {"check", "slew", "publish"}

SeededIsUp ==
  /\ seeded => hop = "none" /\ hlife = "active" /\ hchannels /\ hsdk
  /\ hop = "wait" => hchannels

HandWriteIsCovered ==
  hrt \in {"slew", "publish"} =>
    seeded \/ (hop = "drain" /\ hlife = "active" /\ hchannels)

\* The callback that runs on the update thread keeps it from its cycle.
ErrorHolds == hop \in {"drainRt", "releaseRt", "closeRt"} => hrt = "error"

\* The frame drives the hand, and no release was refused since it was sent.
Drives(frame) == frame.driven /\ ~frame.missed

DrivenIsUp ==
  /\ Drives(hwire) => hchannels /\ hlife = "active"
  /\ hop \in {"wait", "close", "closeRt"} => ~Drives(hwire)

HandInv ==
  /\ HandTypeOK
  /\ HandFlagIsTheWrite
  /\ SeededIsUp
  /\ HandWriteIsCovered
  /\ ErrorHolds
  /\ DrivenIsUp
-----------------------------------------------------------------------------
(* The slewed command stays within the finger's range. *)
LEMMA SlewStays ==
  ASSUME NEW now \in Fingers, NEW target \in Int
  PROVE  now + Within(Within(target, 0, Reach) - now, -SlewStep, SlewStep) \in Fingers
<1> DEFINE goal == Within(target, 0, Reach)
<1>1. Reach \in Nat /\ SlewStep \in Nat /\ now \in 0..Reach
  BY ReachAssumption, SlewStepAssumption DEF Fingers
<1>2. goal \in 0..Reach
  BY <1>1 DEF Within
<1> HIDE DEF goal
<1>3. now + Within(goal - now, -SlewStep, SlewStep) \in 0..Reach
  BY <1>1, <1>2 DEF Within
<1> QED
  BY <1>3 DEF goal, Fingers

LEMMA FramesAreFrames ==
  ASSUME HandTypeOK, NEW driven \in BOOLEAN, PublishHand(driven)
  PROVE  /\ hwire' \in [driven: BOOLEAN, pos: Fingers, missed: BOOLEAN]
         /\ ~hchannels => hwire' = hwire
         /\ ~driven /\ hchannels => ~Drives(hwire')
<1>1. hwire \in [driven: BOOLEAN, pos: Fingers, missed: BOOLEAN]
  BY DEF HandTypeOK
<1>2. HandFrame(driven) \in [driven: BOOLEAN, pos: Fingers, missed: BOOLEAN]
  BY DEF HandTypeOK, HandFrame
<1>3. HandFrame(driven).driven = driven
  BY DEF HandFrame
<1> QED
  BY <1>1, <1>2, <1>3 DEF PublishHand, Drives
-----------------------------------------------------------------------------
LEMMA HandInitInv == HandInit => HandInv
<1> SUFFICES ASSUME HandInit PROVE HandInv
  OBVIOUS
<1>1. 0 \in Fingers /\ 0 \in 0..MaxHandOps
  BY ReachAssumption, MaxHandOpsAssumption DEF Fingers
<1>2. HandTypeOK
  BY <1>1 DEF HandInit, HandTypeOK, HandLives, HandOps
<1> QED
  BY <1>2
  DEF HandInit, HandInv, HandFlagIsTheWrite, SeededIsUp, HandWriteIsCovered, ErrorHolds,
      DrivenIsUp, Drives

LEMMA HandWorldKeeps ==
  ASSUME HandInv, HandWorld
  PROVE  HandInv'
<1>1. CASE HandGoesStale
  <2>1. HandTypeOK'
    BY <1>1 DEF HandGoesStale, HandInv, HandTypeOK
  <2> QED
    BY <1>1, <2>1
    DEF HandGoesStale, HandInv, HandFlagIsTheWrite, SeededIsUp, HandWriteIsCovered,
        ErrorHolds, DrivenIsUp
<1>2. ASSUME NEW whole \in BOOLEAN, NEW pos \in {Reach}, HandState(whole, pos)
      PROVE  HandInv'
  <2>1. pos \in Fingers
    BY ReachAssumption DEF Fingers
  <2>2. HandTypeOK'
    BY <1>2, <2>1 DEF HandState, HandInv, HandTypeOK
  <2> QED
    BY <1>2, <2>2
    DEF HandState, HandInv, HandFlagIsTheWrite, SeededIsUp, HandWriteIsCovered,
        ErrorHolds, DrivenIsUp
<1> QED
  BY <1>1, <1>2 DEF HandWorld

LEMMA HandCycleKeeps ==
  ASSUME HandInv, HandRead \/ HandEnterWrite \/ HandCheckSeeded \/ HandNextCycle
  PROVE  HandInv'
<1> USE DEF HandRead, HandEnterWrite, HandCheckSeeded, HandNextCycle
<1>1. HandTypeOK'
  BY DEF HandInv, HandTypeOK
<1> QED
  BY <1>1
  DEF HandInv, HandFlagIsTheWrite, SeededIsUp, HandWriteIsCovered, ErrorHolds, DrivenIsUp

LEMMA HandSlewKeeps ==
  ASSUME HandInv, NEW finite \in BOOLEAN, NEW due \in BOOLEAN, NEW target \in Int,
         HandSlew(finite, target, due)
  PROVE  HandInv'
<1> USE DEF HandSlew
<1>1. ramped' \in Fingers
  BY SlewStays DEF HandInv, HandTypeOK
<1>2. HandTypeOK'
  BY <1>1 DEF HandInv, HandTypeOK
<1> QED
  BY <1>2
  DEF HandInv, HandFlagIsTheWrite, SeededIsUp, HandWriteIsCovered, ErrorHolds, DrivenIsUp

\* The write that leaves a frame on the wire is covered.
LEMMA HandPublishKeeps ==
  ASSUME HandInv, HandPublish
  PROVE  HandInv'
<1> USE DEF HandPublish
<1>1. HandTypeOK'
  BY FramesAreFrames DEF HandInv, HandTypeOK
<1>2. hlife = "active" /\ hchannels /\ hop \in {"none", "drain"}
  BY DEF HandInv, HandWriteIsCovered, SeededIsUp
<1> QED
  BY <1>1, <1>2
  DEF HandInv, HandFlagIsTheWrite, SeededIsUp, HandWriteIsCovered, ErrorHolds, DrivenIsUp

LEMMA HandLifeKeeps ==
  ASSUME HandInv, HandActivate \/ HandConfigure \/ HandDeactivate \/ HandOnError
  PROVE  HandInv'
<1> USE DEF HandActivate, HandConfigure, HandDeactivate, HandOnError, BeginHandRelease
<1>1. hasked' \in 0..MaxHandOps
  BY MaxHandOpsAssumption DEF HandInv, HandTypeOK
<1>2. HandTypeOK'
  BY <1>1, ZenonT(40) DEF HandInv, HandTypeOK, HandLives, HandOps
<1> QED
  BY <1>2
  DEF HandInv, HandFlagIsTheWrite, SeededIsUp, HandWriteIsCovered, ErrorHolds, DrivenIsUp

LEMMA HandSeedKeeps ==
  ASSUME HandInv, HandSeed \/ HandNotSeeded
  PROVE  HandInv'
<1> USE DEF HandSeed, HandNotSeeded, HandShutdownSdk
<1>1. HandTypeOK'
  BY DEF HandInv, HandTypeOK, HandLives, HandOps
<1>2. hchannels /\ ~Drives(hwire)
  BY DEF HandInv, DrivenIsUp, SeededIsUp
<1>3. ~seeded /\ hrt \notin {"slew", "publish"}
  BY DEF HandInv, HandWriteIsCovered, SeededIsUp
<1>4. CASE HandSeed
  BY <1>1, <1>2, <1>3, <1>4
  DEF HandInv, HandFlagIsTheWrite, SeededIsUp, HandWriteIsCovered, ErrorHolds, DrivenIsUp
<1>5. CASE HandNotSeeded
  BY <1>1, <1>2, <1>3, <1>5
  DEF HandInv, HandFlagIsTheWrite, SeededIsUp, HandWriteIsCovered, ErrorHolds, DrivenIsUp
<1> QED
  BY <1>4, <1>5

\* The release: the write is out, so the release frame is the last.
LEMMA HandReleaseKeeps ==
  ASSUME HandInv, HandDrain \/ HandRelease \/ HandClose
  PROVE  HandInv'
<1> USE DEF HandDrain, HandRelease, HandClose, HandShutdownSdk
<1>1. HandTypeOK'
  BY FramesAreFrames, ZenonT(40) DEF HandInv, HandTypeOK, HandLives, HandOps
<1>2. ~seeded /\ (HandDrain => hrt \notin {"slew", "publish"})
  BY DEF HandInv, SeededIsUp, HandFlagIsTheWrite
<1>3. HandRelease => ~Drives(hwire')
  BY FramesAreFrames DEF HandInv, DrivenIsUp
<1>4. CASE HandDrain
  BY <1>1, <1>2, <1>4
  DEF HandInv, HandFlagIsTheWrite, SeededIsUp, HandWriteIsCovered, ErrorHolds, DrivenIsUp
<1>5. CASE HandRelease
  BY <1>1, <1>2, <1>3, <1>5
  DEF HandInv, HandFlagIsTheWrite, SeededIsUp, HandWriteIsCovered, ErrorHolds, DrivenIsUp
<1>6. CASE HandClose
  BY <1>1, <1>2, <1>6
  DEF HandInv, HandFlagIsTheWrite, SeededIsUp, HandWriteIsCovered, ErrorHolds, DrivenIsUp
<1> QED
  BY <1>4, <1>5, <1>6

LEMMA HandKeeps ==
  ASSUME HandInv, HandNext \/ UNCHANGED handVars
  PROVE  HandInv'
<1>1. CASE HandWorld
  BY <1>1, HandWorldKeeps
<1>2. CASE HandWriteStep
  <2>1. Reach + 1 \in Int /\ 0 \in Int
    BY ReachAssumption
  <2> QED
    BY <1>2, <2>1, HandCycleKeeps, HandPublishKeeps, HandSlewKeeps DEF HandWriteStep
<1>3. CASE HandNextCycle
  BY <1>3, HandCycleKeeps
<1>4. CASE HandTransition
  BY <1>4, HandSeedKeeps, HandReleaseKeeps DEF HandTransition
<1>5. CASE HandActivate \/ HandConfigure \/ HandDeactivate \/ HandOnError
  BY <1>5, HandLifeKeeps
<1>6. CASE UNCHANGED handVars
  <2>1. HandTypeOK'
    BY <1>6 DEF HandInv, HandTypeOK, handVars
  <2> QED
    BY <1>6, <2>1
    DEF HandInv, HandFlagIsTheWrite, SeededIsUp, HandWriteIsCovered, ErrorHolds,
        DrivenIsUp, handVars
<1> QED
  BY <1>1, <1>2, <1>3, <1>4, <1>5, <1>6 DEF HandNext

\* A hand that is not active and has nothing under way was released last.
LEMMA HandInvLetsGo == HandInv => HandLetsGo
  BY DEF HandInv, HandLetsGo, DrivenIsUp, Drives

\* Of a hand alone, under any controller.
THEOREM HandInvariant == HandSpec => []HandInv
  BY HandInitInv, HandKeeps, PTL DEF HandSpec
=============================================================================
