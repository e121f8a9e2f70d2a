-------------------------- MODULE LegControllers --------------------------
(***************************************************************************)
(* What may drive the legs: the policy (G1AgileController) through the     *)
(* safety controller chained below it (G1SafetyController), or the freeze  *)
(* the emergency switches in (G1FreezeController).  All three run on the   *)
(* update thread; the safety controller's emergency timer and the answer   *)
(* to its switch request run on its node's executor.                       *)
(*                                                                         *)
(* One joint stands for the legs.  Its positions are the numbers 0..Span,  *)
(* the blend ratio runs 0..BlendSteps, one step a tick.                    *)
(***************************************************************************)
EXTENDS Integers

CONSTANTS
  Span,        \* leg positions are 0..Span
  BlendSteps,  \* ticks in which the blend arrives
  MaxStep,     \* max_velocity, per tick; 0 leaves the joint unclamped
  PolicyPoses, \* what the policy may ask for
  NaN          \* a reference that nothing upstream wrote

ASSUME SpanAssumption == Span \in Nat /\ PolicyPoses \subseteq 0..Span
ASSUME BlendAssumption == BlendSteps \in Nat \ {0}
ASSUME MaxStepAssumption == MaxStep \in Nat
ASSUME NaNAssumption == NaN \notin 0..Span

VARIABLES
  target,        \* target_blend_ratio_
  blend,         \* blend_ratio_
  latched,       \* emergency_latched_
  switchPending, \* switch_pending_
  retryWait,     \* next_switch_attempt_ lies ahead
  timer,         \* emergency_timer_ exists
  startPose,     \* activation_position_
  pose,          \* integrated_position_
  ref,           \* the position reference the policy last wrote
  frozen,        \* frozen_positions_ of the freeze
  legsCmd        \* what the legs' command interfaces hold

safetyVars == <<target, blend, latched, switchPending, retryWait, timer,
                startPose, pose, ref>>
legVars == <<target, blend, latched, switchPending, retryWait, timer, startPose,
             pose, ref, frozen, legsCmd>>

Positions == 0..Span
Gains == {"none", "policy", "fallback", "freeze"}

\* The joint speeds of a tick, as outOfDomain tells them apart: it fails closed
\* on a speed that is not finite and on having none at all.
Readings == {"calm", "fast", "notFinite", "missing"}
OutOfDomain(reading) == reading # "calm"

Clamped(x, low, high) == IF x < low THEN low ELSE IF x > high THEN high ELSE x

\* blendAndSlew.
BlendAndSlew(activation, commanded, ratio, integrated) ==
  LET blended == activation + (ratio * (commanded - activation)) \div BlendSteps
  IN IF MaxStep = 0 THEN blended
     ELSE integrated + Clamped(blended - integrated, -MaxStep, MaxStep)

-----------------------------------------------------------------------------
(***************************************************************************)
(* Activation and deactivation, inside a controller switch.                *)
(***************************************************************************)
\* on_activate of the safety controller: both ramps start at the measured pose,
\* the references are unwritten again and the emergency is forgotten.
SafetyActivates(measuredPose) ==
  /\ blend' = 0
  /\ latched' = FALSE
  /\ switchPending' = FALSE
  /\ retryWait' = FALSE
  /\ timer' = TRUE
  /\ startPose' = measuredPose
  /\ pose' = measuredPose
  /\ ref' = NaN
  /\ UNCHANGED target

\* on_deactivate takes the timer away, and nothing else of note.
SafetyDeactivates ==
  /\ timer' = FALSE
  /\ UNCHANGED <<target, blend, latched, switchPending, retryWait, startPose, pose, ref>>

\* What a switch from holders to after does to the legs' controllers.  Claiming
\* a position seeds its command at the measured one.
LegsSwitch(holders, after, measuredPose) ==
  /\ CASE "safety" \in after \ holders -> SafetyActivates(measuredPose)
       [] "safety" \in holders \ after -> SafetyDeactivates
       [] OTHER -> UNCHANGED safetyVars
  /\ frozen' = IF "freeze" \in after \ holders THEN measuredPose ELSE frozen
  /\ legsCmd' = IF {"safety", "freeze"} \cap (after \ holders) # {}
                  THEN [legsCmd EXCEPT !.pose = measuredPose] ELSE legsCmd

(***************************************************************************)
(* One tick of the controllers that hold the legs.                         *)
(***************************************************************************)
\* update of the policy: on one tick in "decimation" it infers and writes its
\* targets into the safety controller's references, which hold them in between.
AgileUpdate(holders, infers, wants) ==
  ref' = IF "agile" \in holders /\ infers THEN wants ELSE ref

\* Slip: the step is taken whole, past the target.
BlendStepWhole == IF blend < target THEN blend + 1 ELSE blend - 1

\* The blend's next step toward its target.
BlendStep == Clamped(target, blend - 1, blend + 1)

\* Slip: the tick that leaves the range is still the policy's.
SafetyUpdateLate(reading) ==
  /\ latched' = (latched \/ OutOfDomain(reading))
  /\ IF latched
       THEN legsCmd' = [pose |-> pose, gains |-> "fallback"] /\ UNCHANGED <<blend, pose>>
       ELSE /\ blend' = BlendStep
            /\ pose' = BlendAndSlew(startPose, IF ref' = NaN THEN startPose ELSE ref',
                                    BlendStep, pose)
            /\ legsCmd' = [pose |-> pose', gains |-> "policy"]

\* update_and_write_commands, after the policy's update of the same tick: a tick
\* out of the trained range latches; once latched nothing the policy wrote is
\* used and the last integrated pose is held on the fallback gains.
SafetyUpdate(reading) ==
  /\ latched' = (latched \/ OutOfDomain(reading))
  /\ IF latched'
       THEN /\ legsCmd' = [pose |-> pose, gains |-> "fallback"]
            /\ UNCHANGED <<blend, pose>>
       ELSE /\ blend' = BlendStep
            /\ pose' = BlendAndSlew(startPose, IF ref' = NaN THEN startPose ELSE ref',
                                    BlendStep, pose)
            /\ legsCmd' = [pose |-> pose',
                           gains |-> IF ref' = NaN THEN "fallback" ELSE "policy"]

\* update of the freeze: the pose it found, on its own gains.
FreezeUpdate == legsCmd' = [pose |-> frozen, gains |-> "freeze"]

LegsUpdate(holders, infers, wants, reading) ==
  /\ AgileUpdate(holders, infers, wants)
  /\ CASE "safety" \in holders -> SafetyUpdate(reading)
       [] "freeze" \in holders /\ "safety" \notin holders ->
            FreezeUpdate /\ UNCHANGED <<latched, blend, pose>>
       [] OTHER -> UNCHANGED <<latched, blend, pose, legsCmd>>
  /\ UNCHANGED <<target, switchPending, retryWait, timer, startPose, frozen>>

(***************************************************************************)
(* The safety controller's node: parameter, timer and answer.              *)
(***************************************************************************)
\* The parameter callback stores blend_ratio only within its range.
SetBlend(value) ==
  /\ value \in 0..BlendSteps
  /\ value # target
  /\ target' = value
  /\ UNCHANGED <<blend, latched, switchPending, retryWait, timer, startPose, pose,
                 ref, frozen, legsCmd>>

\* requestEmergencySwitch goes on to send.
EmergencyDue == timer /\ latched /\ ~switchPending /\ ~retryWait

MarkSwitchPending ==
  /\ switchPending' = TRUE
  /\ UNCHANGED <<target, blend, latched, retryWait, timer, startPose, pose, ref,
                 frozen, legsCmd>>

\* Slip: a refusal arms the retry and leaves the flag up.
EmergencyAnsweredHalf(ok) ==
  /\ retryWait' = (retryWait \/ ~ok)
  /\ UNCHANGED <<target, blend, latched, switchPending, timer, startPose, pose, ref,
                 frozen, legsCmd>>

\* The answer's callback: only a refusal arms the retry and frees the flag.
EmergencyAnswered(ok) ==
  /\ IF ok THEN UNCHANGED <<switchPending, retryWait>>
           ELSE switchPending' = FALSE /\ retryWait' = TRUE
  /\ UNCHANGED <<target, blend, latched, timer, startPose, pose, ref, frozen, legsCmd>>

\* kSwitchRetryPeriod passes.
RetryDue ==
  /\ retryWait
  /\ retryWait' = FALSE
  /\ UNCHANGED <<target, blend, latched, switchPending, timer, startPose, pose, ref,
                 frozen, legsCmd>>

LegsInit ==
  /\ target = BlendSteps /\ blend = 0
  /\ latched = FALSE /\ switchPending = FALSE /\ retryWait = FALSE /\ timer = FALSE
  /\ startPose = 0 /\ pose = 0 /\ ref = NaN /\ frozen = 0
  /\ legsCmd = [pose |-> 0, gains |-> "none"]

LegsTypeOK ==
  /\ target \in 0..BlendSteps /\ blend \in 0..BlendSteps
  /\ latched \in BOOLEAN /\ switchPending \in BOOLEAN
  /\ retryWait \in BOOLEAN /\ timer \in BOOLEAN
  /\ startPose \in Positions /\ pose \in Positions /\ frozen \in Positions
  /\ ref \in Positions \cup {NaN}
  /\ legsCmd \in [pose: Positions, gains: Gains]
=============================================================================
