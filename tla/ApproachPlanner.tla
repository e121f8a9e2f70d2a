-------------------------- MODULE ApproachPlanner --------------------------
(***************************************************************************)
(* The two planners of g1_locomotion, on whole numbers: where an object    *)
(* has to end up for the arm and which way to walk (approach_planner.cpp), *)
(* and the straight step away from obstacles (step_clear.cpp), here along  *)
(* the one line the base walks on.  A speed is the direction it goes in.   *)
(***************************************************************************)
EXTENDS Integers, FiniteSets

CONSTANTS
  TargetX, TolX, MinX, SlackX, \* the reach window ahead
  TolY, BandY,                 \* and sideways, where the target is 0
  MaxNudges,                   \* max_nudges
  BodyRadius, Longest          \* the step clear's limits

\* limitsAreUsable: the constructor refuses any others.
ASSUME LimitsAssumption ==
  /\ {TargetX, TolX, TolY} \subseteq Nat
  /\ MinX \in Nat /\ MinX < TargetX - TolX
  /\ {SlackX, BandY, MaxNudges, BodyRadius, Longest} \subseteq Nat

Magnitude(v) == IF v < 0 THEN -v ELSE v

\* axisSpeed: zero inside the tolerance, else toward the target.
Axis(error, tolerance) ==
  IF Magnitude(error) <= tolerance THEN 0 ELSE IF error > 0 THEN 1 ELSE -1

Halt == [x |-> 0, y |-> 0, turn |-> 0]

\* planApproach: an object under the robot is the one place no walk helps.
PlanApproach(x, y) ==
  LET drive == [Halt EXCEPT !.x = Axis(x - TargetX, TolX), !.y = Axis(y, TolY)]
  IN CASE x < MinX -> [state |-> "overshot", drive |-> Halt]
       [] x >= MinX /\ drive = Halt -> [state |-> "arrived", drive |-> Halt]
       [] OTHER -> [state |-> "closing", drive |-> drive]

\* settledInReach: the far side of the window has the settle's slack.
ReachAhead(x) ==
  x >= MinX /\ x - TargetX >= -TolX /\ x - TargetX <= TolX + SlackX
SettledInReach(x, y) == ReachAhead(x) /\ Magnitude(y) <= TolY

\* planNudge: a pulse for an object in reach ahead and just out of it sideways.
NudgeHelps(x, y) ==
  /\ ReachAhead(x)
  /\ Magnitude(y) > TolY
  /\ Magnitude(y) - TolY <= BandY
NudgeDrive(y) == [Halt EXCEPT !.y = IF y > 0 THEN 1 ELSE -1]

-----------------------------------------------------------------------------
Boundless == 100

Least(S) == IF S = {} THEN Boundless ELSE CHOOSE d \in S : \A e \in S : d <= e

\* clearanceAt and clearanceBehind.
Clearance(obstacles, at) == Least({Magnitude(o - at) : o \in obstacles})
ClearanceBehind(obstacles, at) == Least({at - o : o \in {k \in obstacles : k < at}})

\* The steps that end clear and on the way keep the body's radius, or the
\* clearance they start with where that is less.
FloorAt(obstacles, at) ==
  LET start == Clearance(obstacles, at)
  IN IF start < BodyRadius THEN start ELSE BodyRadius

ClearSteps(obstacles, at, wanted) ==
  {s \in -Longest..Longest :
     /\ s # 0
     /\ Clearance(obstacles, at + s) >= wanted
     /\ \A t \in -Longest..Longest :
          (0 < t /\ t <= s) \/ (s <= t /\ t < 0) =>
             Clearance(obstacles, at + t) >= FloorAt(obstacles, at)}

\* planStepClear: any of the shortest ones; 0 where it is clear already.
PlanSteps(obstacles, at, wanted) ==
  IF Clearance(obstacles, at) >= wanted THEN {0}
  ELSE {s \in ClearSteps(obstacles, at, wanted) :
          \A t \in ClearSteps(obstacles, at, wanted) : Magnitude(s) <= Magnitude(t)}
=============================================================================
