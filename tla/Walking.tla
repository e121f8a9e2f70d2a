------------------------------- MODULE Walking -------------------------------
(***************************************************************************)
(* The base under way: the approach node's goals and the odometry node     *)
(* whose transform they steer by, with the robot, its clients and the time *)
(* around them.  The clock moves when every goal's thread sleeps its tick: *)
(* a tick of 50 ms is long against what a thread does in it.               *)
(*                                                                         *)
(* A behaviour has a scene.  In "odometry" the odometry node goes through  *)
(* its life while the base is moved about; in "walk" the node is up and    *)
(* goals walk the base.                                                    *)
(***************************************************************************)
EXTENDS BaseApproach

CONSTANTS
  Scenes,    \* bound: the scenes a run looks at
  Start,     \* how far along the line the base is in the beginning
  Watched,   \* bound: how long the odometry node is watched
  Followers, \* bound: the kinds of the goals after the first
  Rooms      \* bound: what a walk may begin with, a set of records: the base's
             \* side step, whether the object is a surface, the obstacles

ASSUME SceneAssumption ==
  /\ Scenes \subseteq {"odometry", "walk"} /\ Start \in 0..Far /\ Followers \subseteq Kinds
  /\ Rooms \subseteq [side: -1..1, surface: BOOLEAN, obstacles: SUBSET (0..Far)]

VARIABLES
  scene,
  isSurface, \* the object is a table and not a thing
  was,       \* in "odometry", where the base was at every time so far
  heard      \* history, in "odometry": the stamps of the usable samples that this
             \* configuration heard, and whether it has told a transform

walkVars == <<scene, isSurface, was, heard>>
vars == <<clock, base, odomVars, baseVars, walkVars>>

StartPlace == [at |-> Start, side |-> 0]
Unheard == [stamps |-> {}, told |-> FALSE]

-----------------------------------------------------------------------------
(***************************************************************************)
(* The robot and the time.                                                 *)
(***************************************************************************)
Asleep(g) == goal[g].pc \in {"none", "ending"} \/ (goal[g].pc # "begin" /\ goal[g].tick = clock)

\* What is heard at a time is heard before the goals' threads wake, or next time.
Early == \A g \in Goals : goal[g].pc \notin {"none", "ending"} => ~Asleep(g)

\* What arrives matters to a goal that will read it.
Wants(kinds) ==
  \E g \in Goals : goal[g].kind \in kinds /\ goal[g].pc \in {"begin", "loop", "settle"}

\* The policy walks as it is told, or is held up.
Moved == [at |-> base.at + cmd.x, side |-> base.side + cmd.y]

\* A stride that is stopped ends in a sway to the side.
Swayed ==
  IF cmd = Halt /\ \E g \in Goals : goal[g].kind = "approach" /\ goal[g].pc = "settle"
    THEN {[base EXCEPT !.side = @ + 1], [base EXCEPT !.side = @ - 1]} ELSE {}

Walk ==
  /\ scene = "walk"
  /\ base' \in {base} \cup (({Moved} \cup Swayed) \cap Places)
  /\ UNCHANGED was

\* Something else moves the base, or not.
Carried ==
  /\ scene = "odometry" /\ clock < Watched
  /\ base' \in {base} \cup ({[base EXCEPT !.at = @ + 1]} \cap Places)
  /\ was' = [was EXCEPT ![clock'] = base']

\* A goal's deadline and the settle that follows fit in the time there is.
MayStart(time) == time + Timeout + 3 <= MaxClock

\* Bound: a walk is over when no goal runs and none can come.
Ongoing ==
  \E g \in Goals : \/ goal[g].pc \notin {"none", "ending"}
                   \/ goal[g].state = "none" /\ up /\ MayStart(clock + 1)

Tick ==
  /\ clock < MaxClock
  /\ scene = "walk" => Ongoing
  /\ \A g \in Goals : Asleep(g)
  /\ clock' = clock + 1
  /\ Walk \/ Carried
  /\ UNCHANGED <<odomVars, baseVars, scene, isSurface, heard>>

-----------------------------------------------------------------------------
(***************************************************************************)
(* The odometry node.                                                      *)
(***************************************************************************)
AroundOdom == <<clock, base, baseVars, scene, isSurface, was>>

OdomLifecycle ==
  /\ scene = "odometry"
  /\ \/ (Configure("truth") \/ Configure("lidar")) /\ heard' = Unheard
     \/ (Activate \/ Deactivate \/ Cleanup \/ OdomShutdown) /\ UNCHANGED heard
  /\ UNCHANGED AroundOdom

\* A sample may come a tick late, or once more, and out of order: FAST-LIO stamps
\* the scan and not the end of its solver, so that the first of a configuration may
\* be of before it.  A walk's source gives its samples at once, or goes silent.
Stamps == IF scene = "walk" THEN {clock} ELSE {s \in {clock - 1, clock} : s >= 0}

PlaceAt(stamp) == IF scene = "walk" THEN base ELSE was[stamp]

Samples ==
  /\ scene = "walk" => Early /\ Wants(Kinds)
  /\ \E stamp \in Stamps, usable \in (IF scene = "walk" THEN {TRUE} ELSE BOOLEAN) :
       /\ \/ GroundTruth(stamp, PlaceAt(stamp), usable)
          \/ LidarOdometry(stamp, PlaceAt(stamp), usable)
       /\ heard' = IF scene = "odometry" /\ usable
                     THEN [heard EXCEPT !.stamps = @ \cup {stamp}] ELSE heard
  /\ UNCHANGED AroundOdom

Attitude ==
  /\ scene = "odometry"
  /\ \E attitude \in {"upright", "fallen"} : ImuSample(attitude)
  /\ UNCHANGED <<AroundOdom, heard>>

Timer ==
  /\ scene = "walk" => Early
  /\ OnTimer
  /\ heard' = [heard EXCEPT !.told = (scene = "odometry")]
  /\ UNCHANGED AroundOdom

-----------------------------------------------------------------------------
(***************************************************************************)
(* The goals, their clients, and what else they see.                       *)
(***************************************************************************)
AroundBase == <<clock, base, odomVars, walkVars>>

IsFirst(g) == \A h \in Goals : g <= h

Client(g) ==
  /\ scene = "walk"
  /\ \/ /\ MayStart(clock)
        /\ \E kind \in Kinds : (IsFirst(g) \/ kind \in Followers) /\ Accept(g, kind)
     \/ Cancel(g)
  /\ UNCHANGED AroundBase

GoalThread(g) ==
  /\ \/ Begin(g) \/ ApproachTick(g) \/ Verify(g) \/ PulseEnds(g)
     \/ RetreatTick(g) \/ RetreatEnds(g) \/ StepClearTick(g) \/ StepClearEnds(g)
     \/ GoalReturns(g)
  /\ UNCHANGED AroundBase

GoalFails(g) ==
  /\ GoalThrows(g)
  /\ UNCHANGED AroundBase

Perception ==
  /\ scene = "walk" /\ Early
  /\ \/ Wants({"approach"}) /\ Sighting(isSurface)
     \/ Wants({"retreat", "stepClear"}) /\ Costmap
  /\ UNCHANGED AroundBase

Process ==
  /\ scene = "walk"
  /\ ShutDown \/ Destroy
  /\ UNCHANGED AroundBase

-----------------------------------------------------------------------------
Init ==
  /\ clock = 0
  /\ scene \in Scenes
  /\ \E room \in Rooms :
       /\ obstacles = room.obstacles /\ isSurface = room.surface
       /\ base = [StartPlace EXCEPT !.side = room.side]
  /\ IF scene = "walk"
       THEN /\ olife = "active" /\ source = "truth" /\ timerOn = TRUE
            /\ sample = NoSample /\ origin = Nowhere /\ imu = "unknown"
            /\ session = 1 /\ tf = NoTf
       ELSE OdomInit /\ base = StartPlace
  /\ BaseInit
  /\ was = [s \in 0..MaxClock |-> StartPlace]
  /\ heard = Unheard

Next ==
  \/ Tick
  \/ OdomLifecycle \/ Samples \/ Attitude \/ Timer
  \/ \E g \in Goals : Client(g) \/ GoalThread(g) \/ GoalFails(g)
  \/ Perception \/ Process

\* The goals' threads run, and so does the time; nothing that is heard, sent or
\* asked for has to come.
Fairness ==
  /\ WF_vars(Tick)
  /\ \A g \in Goals : WF_vars(GoalThread(g))

Spec == Init /\ [][Next]_vars /\ Fairness

-----------------------------------------------------------------------------
WalkTypeOK ==
  /\ clock \in 0..MaxClock /\ base \in Places
  /\ OdomTypeOK /\ BaseTypeOK
  /\ scene \in Scenes /\ isSurface \in BOOLEAN /\ was \in [0..MaxClock -> Places]
  /\ heard \in [stamps: SUBSET (0..clock), told: BOOLEAN]

\* A base that no goal walks has been told to stand: on success, on every abort,
\* on a cancel at any moment and on whatever a goal throws, and no second goal
\* walks it meanwhile (publish, settle and runGuarded in g1_base_approach_node.cpp;
\* a node whose context is shut down can tell nobody).
BaseStopsWithGoal ==
  up /\ (\A g \in Goals : goal[g].pc \in {"none", "ending"}) => cmd = Halt

\* How long an approach may be wrong about where it is: the odometry stays silent
\* after its source's budget, what was measured is older by a blindness or by the
\* nudges since, and a walk that brings nothing nearer is noticed at the tick after.
Longer(a, b) == IF a < b THEN b ELSE a
Patience == SourceTimeout + Longer(Grace, 2 * MaxNudges) + StallTime + 1

\* An approach does not walk for longer than that on a transform from before:
\* basePose and objectInBase take the newest transform whatever its age, and it is
\* the stall watch that ends the walk (approach_action.cpp 241-253).
ApproachNotBlind ==
  \A g \in Goals :
    goal[g].kind = "approach" /\ goal[g].pc = "loop" /\ up /\ cmd # Halt =>
      LET begun == goal[g].deadline - Timeout
      IN clock - tf.stamp <= Patience \/ clock - begun <= Patience

\* The node is free again after every goal: an arrival that keeps coasting away, a base that is
\* held up, an odometry or a detector that falls silent, a cancel during a settle
\* and a shutdown included (runApproach, runRetreat, runStepClear).
GoalsEnd ==
  busy ~> \A g \in Goals : goal[g].pc = "none" /\ goal[g].state \in Over \cup {"none"}

\* A transform says where the base was at its stamp, in this configuration's own
\* frame.  It is of a sample that this configuration heard: nothing of before a
\* cleanup comes back, whatever the stamps (on_cleanup).  LiDAR odometry starts
\* where a sample of this configuration was taken, and once: between one transform
\* and the next the frame does not jump, they are apart what the base moved between
\* their stamps (latchLidarOrigin, onLidarOdometry, onTimer).
NewOdomFrame ==
  [][LET now == tf'
     IN now # tf /\ scene = "odometry" =>
          /\ now.stamp \in heard.stamps
          /\ IF source = "truth" THEN now.pose = was[now.stamp]
             ELSE /\ \E s \in heard.stamps : now.pose = From(was[now.stamp], was[s])
                  /\ heard.told =>
                       From(now.pose, tf.pose) = From(was[now.stamp], was[tf.stamp])]_vars
=============================================================================
