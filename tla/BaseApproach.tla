---------------------------- MODULE BaseApproach ----------------------------
(***************************************************************************)
(* BaseApproachNode (g1_locomotion): approach, retreat and step clear, the *)
(* three actions that walk the base by writing /cmd_vel.  Each goal has a  *)
(* thread that looks, decides, publishes and sleeps a tick.  What it knows *)
(* of the base is the last transform of the odometry, however old.         *)
(* The object stands at ObjectAt, a step to the side of the line at most.  *)
(***************************************************************************)
EXTENDS Odometry, ApproachPlanner

CONSTANTS
  Goals,       \* goals that clients may send, numbered as they are accepted
  ObjectAt,    \* where the object stands
  Distance,    \* what a retreat is asked for
  Slop,        \* retreat_settle_slop_m
  Gap,         \* body_radius_m + retreat_gap_m
  RetreatMin,  \* retreat_min_m
  Wanted,      \* the clearance a step clear is asked for
  Grace,       \* lookup_grace_s
  ObjectTimeout, \* object_timeout_ms
  StallTime,   \* stall_s
  SettleTime,  \* settle_s
  Timeout      \* a goal's timeout

ASSUME GoalsAssumption == Goals \subseteq Nat /\ IsFiniteSet(Goals)

ASSUME GoalNumbersAssumption ==
  {ObjectAt, Distance, Slop, Gap, RetreatMin, Wanted, Grace, ObjectTimeout,
   StallTime, Timeout} \subseteq Nat

\* settle_s is 1.0 as shipped.  Nothing checks it, and a settle of no time sends
\* no zero (Settle): the base would walk on after its goal.
ASSUME SettleAssumption == SettleTime \in Nat \ {0}

\* What stands for no distance yet is more than any distance there is.
ASSUME BoundlessAssumption == ObjectAt + TargetX + Far + 3 < Boundless

VARIABLES
  up,       \* rclcpp::ok()
  stopping, \* stopping_
  busy,     \* busy_
  running,  \* goals_running_
  goal,     \* the goals' threads
  cmd,      \* the last velocity on /cmd_vel
  seen,     \* the object's last sighting: when, and whether it is a surface
  costmap,  \* costmap_: the obstacles of the last costmap, if there was one
  obstacles \* the obstacles there are

baseVars == <<up, stopping, busy, running, goal, cmd, seen, costmap, obstacles>>

Kinds == {"approach", "retreat", "stepClear"}
GoalStates == {"none", "executing", "canceling", "succeeded", "aborted", "canceled"}
Over == {"succeeded", "aborted", "canceled"}

NoGoal == [kind |-> "approach", state |-> "none", pc |-> "none", tick |-> 0,
           deadline |-> 0, measured |-> 0, since |-> 0, best |-> Boundless,
           nudges |-> 0, usable |-> TRUE, start |-> 0, last |-> 0, planned |-> FALSE,
           step |-> 0, blocked |-> FALSE]
GoalSteps == {"none", "begin", "loop", "pulse", "settle", "ending"}

Unseen == [known |-> FALSE, at |-> 0, surface |-> FALSE]

\* A publisher of a context that was shut down sends nothing (external).
Publish(velocity) == cmd' = IF up THEN velocity ELSE cmd

\* settle: zero, again and again until settle_s is over.
Settle == IF SettleTime > 0 THEN Publish(Halt) ELSE UNCHANGED cmd

\* What basePose, objectInBase and surroundings return.  The newest transform is
\* taken whatever its age; a sighting may be object_timeout_ms old.
HereKnown == tf.known
ObjectKnown == seen.known /\ clock - seen.at <= ObjectTimeout /\ tf.known
AheadOf == ObjectAt - tf.pose.at
AsideOf == IF seen.surface THEN 0 ELSE -tf.pose.side
AroundKnown == costmap.known /\ tf.known

Blind(g) == clock - goal[g].measured > Grace

\* Slip: every measurement starts the timeout again.
PastSinceMeasured(g) == clock > goal[g].measured + Timeout

Past(g) == clock > goal[g].deadline

\* The thread's turn: it has slept its tick.
Awake(g, pc) ==
  /\ goal[g].pc = pc
  /\ goal[g].tick < clock

Set(g, record) == goal' = [goal EXCEPT ![g] = record]
Sleeps(g, record) == Set(g, [record EXCEPT !.pc = "loop", !.tick = clock])

\* The goal's result is given; its thread has runGuarded left to finish.
Ends(g, state) ==
  Set(g, [NoGoal EXCEPT !.kind = goal[g].kind, !.state = state, !.pc = "ending"])

restOfBase == <<up, stopping, busy, running, seen, costmap, obstacles>>

-----------------------------------------------------------------------------
(***************************************************************************)
(* The action servers.                                                     *)
(***************************************************************************)
\* Slip: a goal's thread is not counted.
AcceptUncounted(g, kind) ==
  /\ up /\ goal[g].state = "none" /\ ~busy
  /\ busy' = TRUE
  /\ goal' = [goal EXCEPT ![g] = [NoGoal EXCEPT !.kind = kind, !.state = "executing",
                                                !.pc = "begin"]]
  /\ UNCHANGED <<up, stopping, running, cmd, seen, costmap, obstacles>>

\* The goal callbacks: acquire() lets one goal in, whatever its kind; the others
\* are rejected.  A thread is counted before it starts.
Accept(g, kind) ==
  /\ up /\ goal[g].state = "none"
  /\ \A h \in Goals : h < g => goal[h].state # "none"
  /\ ~busy
  /\ busy' = TRUE
  /\ running' = running + 1
  /\ goal' = [goal EXCEPT ![g] = [NoGoal EXCEPT !.kind = kind, !.state = "executing",
                                                !.pc = "begin"]]
  /\ UNCHANGED <<up, stopping, cmd, seen, costmap, obstacles>>

\* Cancels are accepted as long as the goal runs.
Cancel(g) ==
  /\ up
  /\ goal[g].state = "executing"
  /\ Set(g, [goal[g] EXCEPT !.state = "canceling"])
  /\ UNCHANGED <<restOfBase, cmd>>

\* runGuarded's last lines.
GoalReturns(g) ==
  /\ goal[g].pc = "ending"
  /\ Set(g, [goal[g] EXCEPT !.pc = "none"])
  /\ busy' = FALSE
  /\ running' = running - 1
  /\ UNCHANGED <<up, stopping, cmd, seen, costmap, obstacles>>

\* Slip: the goal is aborted and the base walks on.
GoalThrowsOn(g) ==
  /\ goal[g].pc \in {"begin", "loop", "pulse", "settle"}
  /\ Ends(g, "aborted")
  /\ UNCHANGED <<restOfBase, cmd>>

\* runGuarded's catch: whatever a goal throws stops the base and aborts it.
GoalThrows(g) ==
  /\ goal[g].pc \in {"begin", "loop", "pulse", "settle"}
  /\ Publish(Halt)
  /\ Ends(g, "aborted")
  /\ UNCHANGED restOfBase

-----------------------------------------------------------------------------
(***************************************************************************)
(* runApproach.                                                            *)
(***************************************************************************)
\* Every action begins with the base's pose, but a step clear.  An approach for an
\* arm that is neither left nor right is aborted, and one to a standoff or a
\* surface's edge may have a reach window that the planner cannot use: only the
\* default window was checked (limitsFor, edgeLimits).
Begin(g) ==
  /\ goal[g].pc = "begin"
  /\ \/ /\ goal[g].kind = "approach" \/ (goal[g].kind = "retreat" /\ ~HereKnown)
        /\ Ends(g, "aborted")
     \/ /\ goal[g].kind # "stepClear" => HereKnown
        /\ \E usable \in (IF goal[g].kind = "approach" THEN BOOLEAN ELSE {TRUE}) :
             Set(g, [goal[g] EXCEPT !.pc = "loop", !.tick = clock - 1,
                       !.deadline = clock + Timeout, !.measured = clock,
                       !.since = clock, !.start = tf.pose.at, !.usable = usable])
  /\ UNCHANGED <<restOfBase, cmd>>

\* What every tick looks at first; a cancel is answered with a stop.
CancelledTick(g) ==
  /\ goal[g].state = "canceling"
  /\ Publish(Halt)
  /\ Ends(g, "canceled")

StopAndAbort(g) ==
  /\ Publish(Halt)
  /\ Ends(g, "aborted")

\* Without a measurement the base stands still, for lookup_grace_s.
BlindTick(g) ==
  /\ Publish(Halt)
  /\ IF Blind(g) THEN Ends(g, "aborted") ELSE Sleeps(g, goal[g])

\* ApproachProgress: nothing gained for stall_s.
Remaining == Magnitude(AheadOf - TargetX) + Magnitude(AsideOf)

\* Slip: any step counts as progress.
ClosingTickPatient(g) ==
  /\ Publish(PlanApproach(AheadOf, AsideOf).drive)
  /\ Sleeps(g, [goal[g] EXCEPT !.measured = clock, !.best = Remaining, !.since = clock])

ClosingTick(g) ==
  LET nearer == Remaining < goal[g].best
      record == [goal[g] EXCEPT !.measured = clock,
                   !.best = IF nearer THEN Remaining ELSE @,
                   !.since = IF nearer THEN clock ELSE @]
  IN IF ~nearer /\ clock - goal[g].since > StallTime
       THEN StopAndAbort(g)
       ELSE /\ Publish(PlanApproach(AheadOf, AsideOf).drive)
            /\ Sleeps(g, record)

\* A loop is left into the settle.
LeaveLoop(g, record) ==
  /\ Settle
  /\ Set(g, [record EXCEPT !.pc = "settle", !.tick = clock])

ApproachTick(g) ==
  /\ goal[g].kind = "approach"
  /\ Awake(g, "loop")
  /\ LET plan == PlanApproach(AheadOf, AsideOf)
     IN CASE ~up -> StopAndAbort(g)
          [] up /\ goal[g].state = "canceling" -> CancelledTick(g)
          [] up /\ goal[g].state # "canceling" /\ Past(g) -> StopAndAbort(g)
          [] OTHER ->
               IF ~ObjectKnown THEN BlindTick(g)
               ELSE CASE ~goal[g].usable \/ plan.state = "overshot" -> StopAndAbort(g)
                      [] goal[g].usable /\ plan.state = "closing" -> ClosingTick(g)
                      [] OTHER -> LeaveLoop(g, [goal[g] EXCEPT !.nudges = 0,
                                                               !.measured = clock])
  /\ UNCHANGED restOfBase

\* settle() has held zero for its time: the stopped robot is judged again.  Out of
\* the window sideways it is nudged and settles again, else it is closed on again.
Verify(g) ==
  /\ goal[g].kind = "approach"
  /\ Awake(g, "settle")
  /\ LET again == [goal[g] EXCEPT !.pc = "loop", !.tick = clock - 1,
                                  !.best = Boundless, !.since = clock]
     IN CASE ~ObjectKnown -> Set(g, again) /\ UNCHANGED cmd
          [] ObjectKnown /\ SettledInReach(AheadOf, AsideOf) ->
               Ends(g, "succeeded") /\ UNCHANGED cmd
          [] OTHER ->
               IF /\ NudgeHelps(AheadOf, AsideOf) /\ goal[g].nudges < MaxNudges
                  /\ goal[g].state # "canceling" /\ ~Past(g)
                 THEN /\ Publish(NudgeDrive(AsideOf))
                      /\ Set(g, [goal[g] EXCEPT !.pc = "pulse", !.nudges = @ + 1,
                                                !.tick = clock])
                 ELSE Set(g, again) /\ UNCHANGED cmd
  /\ UNCHANGED restOfBase

\* The end of the pulse: zero, and the settle that follows it.
PulseEnds(g) ==
  /\ Awake(g, "pulse")
  /\ Publish(Halt)
  /\ Set(g, [goal[g] EXCEPT !.pc = "settle", !.tick = clock])
  /\ UNCHANGED restOfBase

-----------------------------------------------------------------------------
(***************************************************************************)
(* runRetreat: straight back.                                              *)
(***************************************************************************)
Travelled(g) == Magnitude(tf.pose.at - goal[g].start)
SomethingBehind == AroundKnown /\ ClearanceBehind(costmap.at, tf.pose.at) < Gap

\* The way back is looked at as it is measured; the distance, at the next tick.
RetreatTick(g) ==
  /\ goal[g].kind = "retreat"
  /\ Awake(g, "loop")
  /\ LET record == [goal[g] EXCEPT !.measured = clock, !.last = Travelled(g)]
     IN CASE ~up \/ stopping \/ goal[g].last >= Distance \/ Past(g) -> LeaveLoop(g, goal[g])
          [] OTHER ->
               CASE goal[g].state = "canceling" -> CancelledTick(g)
                 [] goal[g].state # "canceling" /\ ~HereKnown -> BlindTick(g)
                 [] OTHER ->
                      IF SomethingBehind
                        THEN LeaveLoop(g, [record EXCEPT !.blocked = TRUE])
                        ELSE Publish([Halt EXCEPT !.x = -1]) /\ Sleeps(g, record)
  /\ UNCHANGED restOfBase

\* Settled: far enough, or as far as something behind allows.
RetreatEnds(g) ==
  /\ goal[g].kind = "retreat"
  /\ Awake(g, "settle")
  /\ Ends(g, IF \/ Travelled(g) + Slop >= Distance
                \/ goal[g].blocked /\ Travelled(g) >= RetreatMin
             THEN "succeeded" ELSE "aborted")
  /\ UNCHANGED <<restOfBase, cmd>>

-----------------------------------------------------------------------------
(***************************************************************************)
(* runStepClear.                                                           *)
(***************************************************************************)
ClearNow == Clearance(costmap.at, tf.pose.at)

\* One tick of a step that is planned: turned first if it has to (turning), then,
\* from where the turning ended, walked until it is clear, far enough, or nearer to
\* something than planned.
StepTick(g, record, turning) ==
  CASE turning /\ record.last = 0 ->
         Publish([Halt EXCEPT !.turn = 1]) /\ Sleeps(g, record)
    [] OTHER ->
         LET begun == IF record.last = 0
                        THEN [record EXCEPT !.last = 1, !.start = tf.pose.at] ELSE record
             stepped == Magnitude(tf.pose.at - begun.start)
         IN CASE ClearNow >= Wanted \/ stepped >= Magnitude(record.step) ->
                   LeaveLoop(g, begun)
              [] ClearNow < Wanted /\ stepped < Magnitude(record.step)
                   /\ ClearNow < record.best - 1 -> StopAndAbort(g)
              [] OTHER ->
                   /\ Publish([Halt EXCEPT !.x = IF record.step > 0 THEN 1 ELSE -1])
                   /\ Sleeps(g, begun)

StepClearTick(g) ==
  /\ goal[g].kind = "stepClear"
  /\ Awake(g, "loop")
  /\ LET record == [goal[g] EXCEPT !.measured = clock]
     IN CASE ~up \/ stopping -> LeaveLoop(g, goal[g])
          [] up /\ ~stopping /\ goal[g].state = "canceling" -> CancelledTick(g)
          [] up /\ ~stopping /\ goal[g].state # "canceling" /\ Past(g) -> StopAndAbort(g)
          [] OTHER ->
               CASE ~AroundKnown -> BlindTick(g)
                 [] AroundKnown /\ goal[g].planned ->
                      \E turning \in BOOLEAN : StepTick(g, record, turning)
                 [] OTHER ->
                      LET steps == PlanSteps(costmap.at, tf.pose.at, Wanted)
                      IN IF steps = {} THEN StopAndAbort(g)
                         ELSE \E s \in steps, turning \in BOOLEAN :
                           IF s = 0 THEN Ends(g, "succeeded") /\ UNCHANGED cmd
                           ELSE StepTick(g, [record EXCEPT !.planned = TRUE, !.step = s,
                                    !.best = FloorAt(costmap.at, tf.pose.at)], turning)
  /\ UNCHANGED restOfBase

\* Settled: within a cell of the clearance asked for.
StepClearEnds(g) ==
  /\ goal[g].kind = "stepClear"
  /\ Awake(g, "settle")
  /\ Ends(g, IF AroundKnown /\ ClearNow + 1 >= Wanted THEN "succeeded" ELSE "aborted")
  /\ UNCHANGED <<restOfBase, cmd>>

-----------------------------------------------------------------------------
\* The subscriptions: a sighting of the object, and a costmap.
Sighting(surface) ==
  /\ seen' = [known |-> TRUE, at |-> clock, surface |-> surface]
  /\ seen' # seen
  /\ UNCHANGED <<up, stopping, busy, running, goal, cmd, costmap, obstacles>>

Costmap ==
  /\ costmap' = [known |-> TRUE, at |-> obstacles]
  /\ costmap' # costmap
  /\ UNCHANGED <<up, stopping, busy, running, goal, cmd, seen, obstacles>>

\* SIGINT shuts the context down; main destroys the node once spin() returns, and
\* the destructor waits for the goals' threads.
ShutDown ==
  /\ up
  /\ up' = FALSE
  /\ UNCHANGED <<stopping, busy, running, goal, cmd, seen, costmap, obstacles>>

Destroy ==
  /\ ~up /\ ~stopping
  /\ stopping' = TRUE
  /\ UNCHANGED <<up, busy, running, goal, cmd, seen, costmap, obstacles>>

BaseInit ==
  /\ up = TRUE /\ stopping = FALSE /\ busy = FALSE /\ running = 0
  /\ goal = [g \in Goals |-> NoGoal]
  /\ cmd = Halt
  /\ seen = Unseen
  /\ costmap = [known |-> FALSE, at |-> {}]

Commands == [x: -1..1, y: -1..1, turn: 0..1]

BaseTypeOK ==
  /\ {up, stopping, busy} \subseteq BOOLEAN
  /\ running \in 0..Cardinality(Goals)
  /\ \A g \in Goals :
       /\ goal[g].kind \in Kinds /\ goal[g].state \in GoalStates
       /\ goal[g].pc \in GoalSteps
       /\ goal[g].nudges \in 0..MaxNudges
  /\ cmd \in Commands
=============================================================================
