------------------------------ MODULE Odometry ------------------------------
(***************************************************************************)
(* G1OdometryPublisher (g1_state_estimation): the odom -> base transform   *)
(* that everything which walks the base measures with.  One thread runs    *)
(* its callbacks.  The base lives on a line, side steps apart: a pose is   *)
(* where it stands; its heading, which a fallen base's samples leave as it *)
(* was, is left out.                                                       *)
(* One clock counts for the samples' stamps and for the time that passes.  *)
(***************************************************************************)
EXTENDS Integers

CONSTANTS
  Far,           \* places are 0..Far, and side steps -1..1
  MaxClock,      \* bound: the clock stops here
  SourceTimeout, \* source_timeout_ms, the shorter of the two budgets
  MaxSessions    \* bound: how often the node is configured

ASSUME FarAssumption == Far \in Nat
ASSUME MaxClockAssumption == MaxClock \in Nat
ASSUME SourceTimeoutAssumption == SourceTimeout \in Nat \ {0}
ASSUME MaxSessionsAssumption == MaxSessions \in Nat \ {0}

VARIABLES
  clock,   \* the time
  base,    \* where the base truly is
  olife,   \* the node's lifecycle state
  source,  \* the subscription that exists
  timerOn, \* timer_ exists
  sample,  \* what the callbacks have stored, with its have_ flags
  origin,  \* odom_from_lio_ if it is latched: where odometry started
  imu,     \* imu_orientation_: upright, fallen, or not known
  session, \* configurations so far
  tf       \* the last transform that was broadcast

odomVars == <<olife, source, timerOn, sample, origin, imu, session, tf>>

Places == [at: 0..Far, side: -1..1]
Nowhere == [at |-> -Far - 1, side |-> 0]
Relative == [at: -Far..Far, side: -2..2]

NoSample == [have |-> FALSE, stamp |-> 0, pose |-> Nowhere, advanced |-> 0]
NoTf == [known |-> FALSE, stamp |-> 0, pose |-> Nowhere]

\* composePose of a place with the latched start.
From(place, start) == [at |-> place.at - start.at, side |-> place.side - start.side]

-----------------------------------------------------------------------------
(***************************************************************************)
(* Lifecycle.                                                              *)
(***************************************************************************)
\* on_configure: readParameters refuses "hardware" and impossible frames, rates
\* and angles; nothing is created before they pass.
Configure(src) ==
  /\ olife = "unconfigured"
  /\ session < MaxSessions
  /\ src \in {"truth", "lidar"}
  /\ olife' = "inactive"
  /\ source' = src
  /\ session' = session + 1
  /\ UNCHANGED <<timerOn, sample, origin, imu, tf>>

Activate ==
  /\ olife = "inactive"
  /\ olife' = "active"
  /\ timerOn' = TRUE
  /\ UNCHANGED <<source, sample, origin, imu, session, tf>>

Deactivate ==
  /\ olife = "active"
  /\ olife' = "inactive"
  /\ timerOn' = FALSE
  /\ UNCHANGED <<source, sample, origin, imu, session, tf>>

\* on_cleanup: a configuration to come starts from nothing, in a new odom frame.
Cleanup ==
  /\ olife = "inactive"
  /\ olife' = "unconfigured"
  /\ source' = "none"
  /\ timerOn' = FALSE
  /\ sample' = [sample EXCEPT !.have = FALSE]
  /\ imu' = "unknown"
  /\ origin' = Nowhere
  /\ UNCHANGED <<session, tf>>

OdomShutdown ==
  /\ olife # "finalized"
  /\ olife' = "finalized"
  /\ source' = "none"
  /\ timerOn' = FALSE
  /\ UNCHANGED <<sample, origin, imu, session, tf>>

-----------------------------------------------------------------------------
(***************************************************************************)
(* The subscriptions.  A sample is stamped when it was taken.              *)
(***************************************************************************)
\* noteSample: the watchdog looks at when the stamp last changed.
Noted(stamp, pose) ==
  [have |-> TRUE, stamp |-> stamp, pose |-> pose,
   advanced |-> IF ~sample.have \/ stamp # sample.stamp THEN clock ELSE sample.advanced]

\* onGroundTruth: a sample that is not finite, or without an attitude, is dropped.
GroundTruth(stamp, where, usable) ==
  /\ source = "truth"
  /\ sample' = IF usable THEN Noted(stamp, where) ELSE sample
  /\ UNCHANGED <<olife, source, timerOn, origin, imu, session, tf>>

\* latchLidarOrigin: once, level, and never while the robot is falling.
MayLatch == imu = "upright"

\* Slip: the origin is latched again whenever the robot is upright.
LidarOdometryRelatches(stamp, where, usable) ==
  /\ source = "lidar"
  /\ IF usable /\ (origin # Nowhere \/ MayLatch)
       THEN /\ origin' = IF MayLatch THEN where ELSE origin
            /\ sample' = Noted(stamp, From(where, origin'))
       ELSE UNCHANGED <<origin, sample>>
  /\ UNCHANGED <<olife, source, timerOn, imu, session, tf>>

\* onLidarOdometry: dropped without the body's offset, without a usable pose, and
\* until the origin is latched.  The first sample is the origin itself.
LidarOdometry(stamp, where, usable) ==
  /\ source = "lidar"
  /\ IF usable /\ (origin # Nowhere \/ MayLatch)
       THEN /\ origin' = IF origin = Nowhere THEN where ELSE origin
            /\ sample' = Noted(stamp, From(where, origin'))
       ELSE UNCHANGED <<origin, sample>>
  /\ UNCHANGED <<olife, source, timerOn, imu, session, tf>>

\* onImu: an attitude that cannot be normalised is dropped.
ImuSample(attitude) ==
  /\ source = "lidar"
  /\ attitude # imu
  /\ imu' = attitude
  /\ UNCHANGED <<olife, source, timerOn, sample, origin, session, tf>>

-----------------------------------------------------------------------------
\* onTimer: silent rather than re-stamped, once the stamp no longer advances.
Fresh == clock - sample.advanced <= SourceTimeout

OnTimer ==
  /\ timerOn
  /\ sample.have /\ Fresh
  /\ tf' = [known |-> TRUE, stamp |-> sample.stamp, pose |-> sample.pose]
  /\ UNCHANGED <<olife, source, timerOn, sample, origin, imu, session>>

OdomInit ==
  /\ olife = "unconfigured" /\ source = "none" /\ timerOn = FALSE
  /\ sample = NoSample /\ origin = Nowhere /\ imu = "unknown"
  /\ session = 0
  /\ tf = NoTf

OdomTypeOK ==
  /\ olife \in {"unconfigured", "inactive", "active", "finalized"}
  /\ source \in {"none", "truth", "lidar"}
  /\ timerOn \in BOOLEAN
  /\ sample \in [have: BOOLEAN, stamp: 0..MaxClock, pose: Relative \cup {Nowhere},
                 advanced: 0..MaxClock]
  /\ origin \in Places \cup {Nowhere}
  /\ imu \in {"unknown", "upright", "fallen"}
  /\ session \in 0..MaxSessions
  /\ tf \in [known: BOOLEAN, stamp: 0..MaxClock, pose: Relative \cup {Nowhere}]
=============================================================================
