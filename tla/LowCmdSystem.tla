--------------------------- MODULE LowCmdSystem ---------------------------
(***************************************************************************)
(* G1LowCmdSystem, the ros2_control component that owns the body's motors  *)
(* (g1_hardware_interface).  Three threads meet in it: the update thread   *)
(* (read, mode switch, write, over and over), the executor thread that     *)
(* runs the lifecycle callbacks, and the SDK's receive thread.  The update *)
(* thread and a release ramp fill the one low_cmd_ frame, so their steps   *)
(* are kept apart: a frame is filled part by part and then published.      *)
(*                                                                         *)
(* A motor's stiffness is counted in ramp ticks: a full one is Ticks.      *)
(* Angles are left out: what a frame says is whether a motor is driven,    *)
(* how stiffly, and which loop filled it (the ghost field "by").           *)
(***************************************************************************)
EXTENDS Integers, FiniteSets

CONSTANTS
  Parts,            \* the groups of motors that controllers claim together
  Ticks,            \* publishing ticks of the release ramp
  Lists,            \* the sets of interfaces that controllers claim of a part
  ReleaseModeParam, \* the parameter release_motion_mode
  MaxTransitions    \* bound: lifecycle transitions asked for

ASSUME PartsAssumption == Parts # {} /\ IsFiniteSet(Parts)
\* releaseSynchronously takes max(1, ...) ticks.
ASSUME TicksAssumption == Ticks \in Nat \ {0}
ASSUME ListsAssumption ==
  Lists \subseteq SUBSET {"position", "velocity", "effort", "kp", "kd"}
ASSUME ReleaseModeAssumption == ReleaseModeParam \in BOOLEAN
ASSUME MaxTransitionsAssumption == MaxTransitions \in Nat

VARIABLES
  life,       \* the component's lifecycle state
  tr,         \* the transition under way: who runs it, where it stands
  asked,      \* transitions the lifecycle service was asked for
  motion,     \* TRUE: an onboard motion mode still holds the motors
  active,     \* active_
  sdk,        \* sdk_initialized_
  channels,   \* lowcmd_publisher_ and lowstate_subscriber_ exist
  first,      \* first_state_received_
  fresh,      \* the newest lowstate is younger than lowstate_timeout_s_
  rt,         \* where the update thread stands
  inWrite,    \* in_write_
  wtodo,      \* parts write() has not filled yet
  rtodo,      \* parts the release has not filled yet
  joint,      \* joint_data_, per part
  lowCmd,     \* low_cmd_, the frame both loops fill
  wire        \* the last frame the motors were sent

bodyVars == <<life, tr, asked, motion, active, sdk, channels, first, fresh, rt,
              inWrite, wtodo, rtodo, joint, lowCmd, wire>>

LifeStates == {"inactive", "active", "unconfigured", "finalized"}
RtSteps == {"read", "update", "switch", "write", "check", "fill", "publish",
            "error", "done"}
Claims == {"position", "velocity", "effort", "impedance"}
Modes == {"disabled", "position", "effort", "impedance"}

\* One motor's slot of a frame: driven or off, its stiffness, who filled it.
Motors == [driven: BOOLEAN, kp: 0..Ticks, by: {"write", "ramp", "off"}]
Off(by) == [driven |-> FALSE, kp |-> 0, by |-> by]

\* One part's joint_data_: what its controllers claim and last commanded, and
\* which of the commanded numbers are not finite.
Joints == [claims: SUBSET Claims, mode: Modes, kp: {0, Ticks},
           bad: SUBSET {"position", "gains"}, releaseKp: {0, Ticks}]

Idle == [by |-> "none", pc |-> "none", tick |-> 0, to |-> "inactive"]
Transitions == [by: {"none", "life", "rt"},
                pc: {"none", "motion", "wait", "seed", "drain", "ramp", "off",
                     "close"},
                tick: 0..Ticks, to: LifeStates]

(***************************************************************************)
(* The mode table: what a motor is told, from the claims on it.            *)
(***************************************************************************)
\* resolveJointMode: impedance outranks effort, effort outranks position, and
\* velocity alone powers nothing.
ModeOf(claims) ==
  CASE "impedance" \in claims -> "impedance"
    [] "effort" \in claims /\ "impedance" \notin claims -> "effort"
    [] claims \cap {"impedance", "effort"} = {} /\ "position" \in claims -> "position"
    [] OTHER -> "disabled"

\* A list of interfaces as claims: kp and kd count only as a pair.
ClaimsIn(list) ==
  (list \cap {"position", "velocity", "effort"})
    \cup (IF {"kp", "kd"} \subseteq list THEN {"impedance"} ELSE {})

\* fillMotorCmd: anything not finite disables the motor for the tick; effort
\* forces kp to 0, position uses the component's own gains.
MotorCmd(mode, j) ==
  IF mode = "disabled" \/ j.bad # {}
    THEN Off("write")
    ELSE [driven |-> TRUE, by |-> "write",
          kp |-> CASE mode = "impedance" -> j.kp
                   [] mode = "effort" -> 0
                   [] OTHER -> Ticks]

\* fillReleaseCmd at one tick: the stiffness of the release, fading.
ReleaseCmd(j, tick) ==
  [driven |-> TRUE, by |-> "ramp",
   kp |-> IF j.releaseKp = 0 THEN 0 ELSE Ticks - tick]

-----------------------------------------------------------------------------
(***************************************************************************)
(* The SDK's thread.                                                       *)
(***************************************************************************)
\* lowStateCallback: a sample arrives while the subscriber exists.
LowState ==
  /\ channels
  /\ ~first \/ ~fresh
  /\ first' = TRUE
  /\ fresh' = TRUE
  /\ UNCHANGED <<life, tr, asked, motion, active, sdk, channels, rt, inWrite,
                 wtodo, rtodo, joint, lowCmd, wire>>

\* lowstate_timeout_s_ passes with no sample.
GoStale ==
  /\ fresh
  /\ fresh' = FALSE
  /\ UNCHANGED <<life, tr, asked, motion, active, sdk, channels, first, rt,
                 inWrite, wtodo, rtodo, joint, lowCmd, wire>>

(***************************************************************************)
(* The update thread.                                                      *)
(***************************************************************************)
ToRt(step) == rt' = step

\* read: a stale lowstate is an error only while the component is active.
Read ==
  /\ rt = "read"
  /\ ToRt(IF active /\ ~fresh THEN "error" ELSE "update")
  /\ UNCHANGED <<life, tr, asked, motion, active, sdk, channels, first, fresh,
                 inWrite, wtodo, rtodo, joint, lowCmd, wire>>

\* The controllers' updates: a claimed part gets stiffness kp[p], and bad[p]
\* names the numbers that are not finite.  Nobody writes an unclaimed one.
Update(kp, bad) ==
  /\ rt = "update"
  /\ ToRt("switch")
  /\ joint' = [p \in Parts |->
       IF joint[p].mode = "disabled" THEN joint[p]
       ELSE [joint[p] EXCEPT !.kp = kp[p], !.bad = bad[p]]]
  /\ UNCHANGED <<life, tr, asked, motion, active, sdk, channels, first, fresh,
                 inWrite, wtodo, rtodo, lowCmd, wire>>

\* perform_command_mode_switch: what stops is applied before what starts, and
\* every joint's mode is resolved again.  A claimed position takes over from
\* the measured one, so it is finite.
ModeSwitch(start, stop) ==
  /\ rt = "switch"
  /\ ToRt("write")
  /\ joint' = [p \in Parts |->
       LET claims == (joint[p].claims \ ClaimsIn(stop[p])) \cup ClaimsIn(start[p])
       IN [joint[p] EXCEPT !.claims = claims, !.mode = ModeOf(claims),
             !.bad = IF "position" \in start[p] THEN @ \ {"position"} ELSE @]]
  /\ UNCHANGED <<life, tr, asked, motion, active, sdk, channels, first, fresh,
                 inWrite, wtodo, rtodo, lowCmd, wire>>

NoSwitch ==
  /\ rt = "switch"
  /\ ToRt("write")
  /\ UNCHANGED <<life, tr, asked, motion, active, sdk, channels, first, fresh,
                 inWrite, wtodo, rtodo, joint, lowCmd, wire>>

\* Slip: in_write_ stays down.
EnterWriteUnmarked ==
  /\ rt = "write"
  /\ ToRt("check")
  /\ UNCHANGED <<life, tr, asked, motion, active, sdk, channels, first, fresh,
                 inWrite, wtodo, rtodo, joint, lowCmd, wire>>

\* write raises in_write_ before it reads active_.
EnterWrite ==
  /\ rt = "write"
  /\ ToRt("check")
  /\ inWrite' = TRUE
  /\ UNCHANGED <<life, tr, asked, motion, active, sdk, channels, first, fresh,
                 wtodo, rtodo, joint, lowCmd, wire>>

CheckActive ==
  /\ rt = "check"
  /\ IF active /\ sdk
       THEN ToRt("fill") /\ wtodo' = Parts /\ UNCHANGED inWrite
       ELSE ToRt("done") /\ inWrite' = FALSE /\ UNCHANGED wtodo
  /\ UNCHANGED <<life, tr, asked, motion, active, sdk, channels, first, fresh,
                 rtodo, joint, lowCmd, wire>>

FillPart(p) ==
  /\ rt = "fill"
  /\ p \in wtodo
  /\ lowCmd' = [lowCmd EXCEPT ![p] = MotorCmd(joint[p].mode, joint[p])]
  /\ wtodo' = wtodo \ {p}
  /\ ToRt(IF wtodo = {p} THEN "publish" ELSE "fill")
  /\ UNCHANGED <<life, tr, asked, motion, active, sdk, channels, first, fresh,
                 inWrite, rtodo, joint, wire>>

\* publishLowCmd and the guard's end; a refused DDS write is an error.
PublishWrite ==
  /\ rt = "publish"
  /\ inWrite' = FALSE
  /\ \/ wire' = lowCmd /\ ToRt("done")
     \/ UNCHANGED wire /\ ToRt("error")
  /\ UNCHANGED <<life, tr, asked, motion, active, sdk, channels, first, fresh,
                 wtodo, rtodo, joint, lowCmd>>

NextCycle ==
  /\ rt = "done"
  /\ ToRt("read")
  /\ UNCHANGED <<life, tr, asked, motion, active, sdk, channels, first, fresh,
                 inWrite, wtodo, rtodo, joint, lowCmd, wire>>

-----------------------------------------------------------------------------
(***************************************************************************)
(* Lifecycle.  ros2_control runs one transition of a component at a time   *)
(* (external); reads and writes go on beside it.                           *)
(***************************************************************************)
\* shutdownSdk, and the state the transition ends in.
ShutdownSdk(to) ==
  /\ channels' = FALSE
  /\ sdk' = FALSE
  /\ first' = FALSE
  /\ life' = to
  /\ tr' = Idle

\* on_activate, into initializeSdk: an onboard motion mode is released first.
BeginActivate ==
  /\ tr = Idle
  /\ life = "inactive"
  /\ asked < MaxTransitions
  /\ asked' = asked + 1
  /\ tr' = [Idle EXCEPT !.by = "life", !.pc = "motion", !.to = "active"]
  /\ UNCHANGED <<life, motion, active, sdk, channels, first, fresh, rt, inWrite,
                 wtodo, rtodo, joint, lowCmd, wire>>

\* releaseOnboardMotionMode, five attempts as one step, then the channels open.
\* Without the parameter the motors are taken whatever runs on board.
ReleaseMotionMode ==
  /\ tr.pc = "motion"
  /\ motion' \in IF ReleaseModeParam THEN {FALSE, motion} ELSE {motion}
  /\ IF ReleaseModeParam /\ motion'
       THEN /\ ShutdownSdk("unconfigured")
       ELSE /\ channels' = TRUE
            /\ tr' = [tr EXCEPT !.pc = "wait"]
            /\ UNCHANGED <<life, sdk, first>>
  /\ UNCHANGED <<asked, active, fresh, rt, inWrite, wtodo, rtodo, joint, lowCmd, wire>>

FirstState ==
  /\ tr.pc = "wait"
  /\ first
  /\ sdk' = TRUE
  /\ tr' = [tr EXCEPT !.pc = "seed"]
  /\ UNCHANGED <<life, asked, motion, active, channels, first, fresh, rt, inWrite,
                 wtodo, rtodo, joint, lowCmd, wire>>

\* No lowstate in ten seconds, or the SDK threw: the channels are closed, and
\* on_error has nothing left to release.
FirstStateTimeout ==
  /\ tr.pc = "wait"
  /\ ~first
  /\ ShutdownSdk("unconfigured")
  /\ UNCHANGED <<asked, motion, active, fresh, rt, inWrite, wtodo, rtodo, joint,
                 lowCmd, wire>>

\* The rest of on_activate: every joint is seeded at the measured position with
\* zero gains and no claims, and active_ comes last.
Seed ==
  /\ tr.pc = "seed"
  /\ joint' = [p \in Parts |->
       [claims |-> {}, mode |-> "disabled", kp |-> 0, bad |-> {},
        releaseKp |-> joint[p].releaseKp]]
  /\ active' = TRUE
  /\ life' = "active"
  /\ tr' = Idle
  /\ UNCHANGED <<asked, motion, sdk, channels, first, fresh, rt, inWrite, wtodo,
                 rtodo, lowCmd, wire>>

\* on_configure: the component is brought back after an error.
Configure ==
  /\ tr = Idle
  /\ life = "unconfigured"
  /\ asked < MaxTransitions
  /\ asked' = asked + 1
  /\ life' = "inactive"
  /\ UNCHANGED <<tr, motion, active, sdk, channels, first, fresh, rt, inWrite,
                 wtodo, rtodo, joint, lowCmd, wire>>

\* releaseSynchronously's first test: the exchange lets one release through, and
\* a component that is not driving the motors only closes its channels.
Release(by, to) ==
  /\ tr = Idle
  /\ active' = FALSE
  /\ tr' = [by |-> by, tick |-> 0, to |-> to,
            pc |-> IF active /\ sdk THEN "drain" ELSE "close"]

\* on_deactivate and on_shutdown, on the executor's thread.
BeginRelease(to) ==
  /\ asked < MaxTransitions
  /\ \/ to = "inactive" /\ life = "active"
     \/ to = "finalized" /\ life \in {"inactive", "active", "unconfigured"}
  /\ asked' = asked + 1
  /\ Release("life", to)
  /\ UNCHANGED <<life, motion, sdk, channels, first, fresh, rt, inWrite, wtodo,
                 rtodo, joint, lowCmd, wire>>

\* on_error after a read or a write that failed, on the update thread.
OnError ==
  /\ rt = "error"
  /\ Release("rt", IF life = "finalized" THEN life ELSE "unconfigured")
  /\ UNCHANGED <<life, asked, motion, sdk, channels, first, fresh, rt, inWrite,
                 wtodo, rtodo, joint, lowCmd, wire>>

\* Slip: a write already inside is not waited out.
DrainAtOnce ==
  /\ tr.pc = "drain"
  /\ tr' = [tr EXCEPT !.pc = "ramp"]
  /\ rtodo' = Parts
  /\ UNCHANGED <<life, asked, motion, active, sdk, channels, first, fresh, rt,
                 inWrite, wtodo, joint, lowCmd, wire>>

\* A write already inside is waited out, and the hold is latched: the last
\* stiffness of an impedance joint, none if that is not finite, and of any other
\* joint the component's own.
Drain ==
  /\ tr.pc = "drain"
  /\ ~inWrite
  /\ joint' = [p \in Parts |->
       [joint[p] EXCEPT !.releaseKp =
          CASE joint[p].mode # "impedance" -> Ticks
            [] joint[p].mode = "impedance" /\ "gains" \in joint[p].bad -> 0
            [] OTHER -> joint[p].kp]]
  /\ tr' = [tr EXCEPT !.pc = "ramp"]
  /\ rtodo' = Parts
  /\ UNCHANGED <<life, asked, motion, active, sdk, channels, first, fresh, rt,
                 inWrite, wtodo, lowCmd, wire>>

\* The ramp, and then the disabled frame, fill the frame motor by motor ...
FillRelease(p) ==
  /\ tr.pc \in {"ramp", "off"}
  /\ p \in rtodo
  /\ lowCmd' = [lowCmd EXCEPT ![p] =
       IF tr.pc = "ramp" THEN ReleaseCmd(joint[p], tr.tick) ELSE Off("off")]
  /\ rtodo' = rtodo \ {p}
  /\ UNCHANGED <<life, tr, asked, motion, active, sdk, channels, first, fresh,
                 rt, inWrite, wtodo, joint, wire>>

\* ... and publish it.  A refused write is not looked at here.
PublishRelease ==
  /\ tr.pc \in {"ramp", "off"}
  /\ rtodo = {}
  /\ wire' \in {lowCmd, wire}
  /\ CASE tr.pc = "off" -> tr' = [tr EXCEPT !.pc = "close"] /\ UNCHANGED rtodo
       [] tr.pc = "ramp" /\ tr.tick = Ticks ->
            tr' = [tr EXCEPT !.pc = "off"] /\ rtodo' = Parts
       [] OTHER -> tr' = [tr EXCEPT !.tick = @ + 1] /\ rtodo' = Parts
  /\ UNCHANGED <<life, asked, motion, active, sdk, channels, first, fresh, rt,
                 inWrite, wtodo, joint, lowCmd>>

\* The callback's end: the channels close, and after an error the update thread
\* goes on with its cycle.
Close ==
  /\ tr.pc = "close"
  /\ ShutdownSdk(tr.to)
  /\ rt' = IF tr.by = "rt" THEN "done" ELSE rt
  /\ UNCHANGED <<asked, motion, active, fresh, inWrite, wtodo, rtodo, joint,
                 lowCmd, wire>>

-----------------------------------------------------------------------------
\* on_init and on_configure are behind us; nothing has been sent yet.
BodyInit ==
  /\ life = "inactive"
  /\ tr = Idle
  /\ asked = 0
  /\ motion \in BOOLEAN
  /\ active = FALSE /\ sdk = FALSE /\ channels = FALSE /\ first = FALSE
  /\ fresh = FALSE
  /\ rt = "read"
  /\ inWrite = FALSE
  /\ wtodo = {} /\ rtodo = {}
  /\ joint = [p \in Parts |-> [claims |-> {}, mode |-> "disabled", kp |-> 0,
                               bad |-> {}, releaseKp |-> 0]]
  /\ lowCmd = [p \in Parts |-> Off("off")]
  /\ wire = [p \in Parts |-> Off("off")]

\* What the component does by itself, whoever the controllers are.
WriteStep ==
  \/ Read \/ EnterWrite \/ CheckActive \/ PublishWrite
  \/ \E p \in Parts : FillPart(p)

TransitionStep ==
  \/ ReleaseMotionMode \/ FirstState \/ FirstStateTimeout \/ Seed
  \/ OnError \/ Drain \/ PublishRelease
  \/ \E p \in Parts : FillRelease(p)

LifecycleCall ==
  \/ BeginActivate \/ Configure
  \/ \E to \in {"inactive", "finalized"} : BeginRelease(to)

\* The component under any controllers whatever.
AnyControllers ==
  \/ \E kp \in [Parts -> {0, Ticks}], bad \in [Parts -> SUBSET {"position", "gains"}] :
       Update(kp, bad)
  \/ \E start, stop \in [Parts -> Lists] : ModeSwitch(start, stop)

BodyNext ==
  \/ LowState \/ GoStale \/ NoSwitch \/ NextCycle \/ Close
  \/ WriteStep \/ TransitionStep \/ LifecycleCall \/ AnyControllers

BodySpec == BodyInit /\ [][BodyNext]_bodyVars

-----------------------------------------------------------------------------
BodyTypeOK ==
  /\ life \in LifeStates
  /\ tr \in Transitions
  /\ asked \in 0..MaxTransitions
  /\ motion \in BOOLEAN /\ active \in BOOLEAN /\ sdk \in BOOLEAN
  /\ channels \in BOOLEAN /\ first \in BOOLEAN /\ fresh \in BOOLEAN
  /\ inWrite \in BOOLEAN
  /\ rt \in RtSteps
  /\ wtodo \in SUBSET Parts /\ rtodo \in SUBSET Parts
  /\ joint \in [Parts -> Joints]
  /\ lowCmd \in [Parts -> Motors] /\ wire \in [Parts -> Motors]

\* Every frame the motors get was filled by one loop: never half a command of
\* the controllers and half a release (g1_lowcmd_system.cpp 606-609, 640-645).
FramesWhole == \A p, q \in Parts : wire[p].by = wire[q].by

\* Neither loop publishes on a channel that shutdownSdk has closed.
PublishesOnAChannel ==
  rt \in {"fill", "publish"} \/ tr.pc \in {"ramp", "off"} => channels

\* Once a release has begun its ramp, no frame of write() reaches the motors until
\* the component is active again; only the write that the release waits out may
\* still go out before the ramp (g1_lowcmd_system.cpp 606-611, 633-645).
ReleaseIsFinal ==
  [][\A p \in Parts :
       wire'[p] # wire[p] /\ wire'[p].by = "write" => active \/ tr.pc = "drain"]_bodyVars
=============================================================================
