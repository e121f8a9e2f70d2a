---------------------------- MODULE Walking_proofs ----------------------------
(***************************************************************************)
(* What holds of the base under way, for any goals, rooms, times and       *)
(* budgets.  Three invariants:                                             *)
(*   BaseInv   one goal at most walks the base, and it stands otherwise;   *)
(*   OdomInv   a sample and a start belong to the node's configuration;    *)
(*   SightInv  what an approach has measured, and how old that is.         *)
(* The third is proved from the first two.                                 *)
(***************************************************************************)
EXTENDS Walking, FiniteSetTheorems, TLAPS

(***************************************************************************)
(* The invariants                                                          *)
(***************************************************************************)
(* The steps in which a goal's thread has its goal in hand. *)
Moving == {"begin", "loop", "pulse", "settle"}

(* What a goal's record always is. *)
GoalRecord(r) ==
  /\ DOMAIN r = DOMAIN NoGoal
  /\ r.kind \in Kinds /\ r.state \in GoalStates /\ r.pc \in GoalSteps
  /\ r.nudges \in 0..MaxNudges

GoalsTyped == DOMAIN goal = Goals /\ \A g \in Goals : GoalRecord(goal[g])

(* A goal that walks nowhere yet, has stopped, or is over; a step clear that *)
(* has not planned its step has published nothing. *)
Stands(r) ==
  \/ r.pc \in {"none", "begin", "settle", "ending"}
  \/ r.kind = "stepClear" /\ r.pc = "loop" /\ ~r.planned

(* busy_ and goals_running_ are about one goal, the only one with a thread. *)
OneGoal ==
  IF busy
    THEN /\ running = 1
         /\ \E g \in Goals : \A h \in Goals : goal[h].pc = "none" <=> h # g
    ELSE running = 0 /\ \A g \in Goals : goal[g].pc = "none"

(* While no goal walks the base, it has been told to stand. *)
StandsStill == up /\ (\A g \in Goals : Stands(goal[g])) => cmd = Halt

BaseInv == BaseTypeOK /\ GoalsTyped /\ OneGoal /\ StandsStill

(* The clock, the robot and the scene around it. *)
WorldTypeOK ==
  /\ clock \in 0..MaxClock /\ base \in Places
  /\ scene \in Scenes /\ isSurface \in BOOLEAN /\ was \in [0..MaxClock -> Places]
  /\ heard \in [stamps: SUBSET (0..clock), told: BOOLEAN]

(* What exists of the odometry node in each lifecycle state. *)
Configured ==
  /\ timerOn => source # "none"
  /\ olife \in {"inactive", "active"} => source # "none"
  /\ olife = "unconfigured" => source = "none" /\ ~sample.have /\ origin = Nowhere

(* A stored sample was heard in this configuration and says where the base was. *)
SampleIsTrue ==
  sample.have /\ source # "none" =>
    /\ sample.stamp \in heard.stamps
    /\ IF source = "truth" THEN sample.pose = was[sample.stamp]
       ELSE origin # Nowhere /\ sample.pose = From(was[sample.stamp], origin)

(* So is the start that was latched. *)
StartIsTrue ==
  source = "lidar" /\ origin # Nowhere =>
    \E s \in heard.stamps : origin = was[s]

(* And the last transform, since one was told, is from the start latched now. *)
TfIsTrue ==
  source = "lidar" /\ heard.told =>
    /\ origin # Nowhere /\ tf.stamp \in heard.stamps
    /\ tf.pose = From(was[tf.stamp], origin)

OdomInv ==
  /\ OdomTypeOK /\ WorldTypeOK /\ Configured
  /\ scene = "odometry" => SampleIsTrue /\ StartIsTrue /\ TfIsTrue

(* How much older than its tick the last measurement of an approach may be. *)
Lag == Longer(Grace, 2 * MaxNudges)

(* The sample of the last transform was taken no longer than the budget before t. *)
Young(t) == tf.stamp + SourceTimeout >= t

(* The object as it truly is, measured with the last transform. *)
AsideHere == IF isSurface THEN 0 ELSE -tf.pose.side

RemainingHere == Magnitude(AheadOf - TargetX) + Magnitude(AsideHere)

ArrivedHere == PlanApproach(AheadOf, AsideHere).state = "arrived"

Begun(r) == r.deadline - Timeout

(* A thread that sleeps was awake at this time or at the one before. *)
InTime(r) ==
  /\ {r.tick, r.deadline, r.measured, r.since, r.best} \subseteq Int
  /\ r.tick \in {clock - 1, clock} /\ r.since <= clock

(* What an approach under way has measured, against the last transform: it was *)
(* there before the first measurement, or after the last, or what was nearest is *)
(* no nearer than it still is. *)
LoopMeasures(r) ==
  /\ r.tick <= r.measured + Lag
  /\ r.measured <= r.tick \/ (r.best = Boundless /\ r.measured <= Begun(r))
  /\ IF r.best = Boundless
       THEN r.measured <= Begun(r) \/ ArrivedHere \/ Young(r.measured + 1)
       ELSE r.best <= RemainingHere \/ Young(r.measured + 1)

(* When the stall watch was last set, and that a walk is not older than that. *)
LoopWalks(r) ==
  /\ \/ ArrivedHere /\ (up => cmd = Halt)
     \/ r.since <= Begun(r) + Lag + 1
     \/ Young(r.since - Lag)
  /\ up /\ cmd # Halt => r.tick <= r.since + StallTime

(* The same while it settles and nudges, which take two ticks each. *)
Settles(r) ==
  /\ r.measured <= r.tick
  /\ ArrivedHere \/ Young(r.measured + 1)
  /\ r.tick <= r.measured + 2 * r.nudges - (IF r.pc = "pulse" THEN 1 ELSE 0)

Knows(r) ==
  r.kind = "approach" =>
    /\ r.pc = "begin" => r.best = Boundless
    /\ r.pc = "loop" => InTime(r) /\ LoopMeasures(r) /\ LoopWalks(r)
    /\ r.pc \in {"settle", "pulse"} => InTime(r) /\ Settles(r)

(* The invariant of the approaches: what they know, what they and the odometry *)
(* node are told, and that the scenes do not meet. *)
SightInv ==
  /\ \A g \in Goals : Knows(goal[g])
  /\ seen.known => seen.surface = isSurface
  /\ scene = "walk" /\ sample.have => sample.advanced = sample.stamp
  /\ scene # "walk" => \A g \in Goals : goal[g].pc = "none"

(***************************************************************************)
(* A goal's turn                                                           *)
(*                                                                         *)
(* Whatever a goal's thread does in a turn, it replaces its own record by  *)
(* one of the same kind that is still under way or ending, and leaves the  *)
(* base walking only if the record it leaves walks (TurnKeeps).            *)
(***************************************************************************)
Turn(g) ==
  /\ goal[g].pc \in Moving
  /\ \E r : /\ goal' = [goal EXCEPT ![g] = r] /\ GoalRecord(r) /\ r.pc # "none"
            /\ r.kind = goal[g].kind
            /\ \/ Stands(goal[g]) /\ UNCHANGED cmd
               \/ \E v \in Commands : Publish(v) /\ (v = Halt \/ ~Stands(r))

(* Zero is a velocity. *)
LEMMA HaltIsACommand == Halt \in Commands
BY DEF Halt, Commands

(* The record of a goal whose result was given (Ends). *)
LEMMA EndRecord ==
  ASSUME GoalsTyped, NEW g \in Goals, NEW s \in GoalStates
  PROVE  LET r == [NoGoal EXCEPT !.kind = goal[g].kind, !.state = s, !.pc = "ending"]
         IN GoalRecord(r) /\ r.pc = "ending" /\ r.kind = goal[g].kind
BY LimitsAssumption DEF GoalsTyped, GoalRecord, NoGoal, GoalSteps

(* A goal that ends has stopped the base, or had not moved it. *)
LEMMA EndTurns ==
  ASSUME GoalsTyped, NEW g \in Goals, goal[g].pc \in Moving, NEW s \in GoalStates,
         Ends(g, s),
         Publish(Halt) \/ (UNCHANGED cmd /\ Stands(goal[g]))
  PROVE  Turn(g)
BY EndRecord, HaltIsACommand DEF Ends, Set, Turn

(* A goal that sleeps in its loop may leave the base walking. *)
LEMMA SleepTurns ==
  ASSUME GoalsTyped, NEW g \in Goals, goal[g].pc \in Moving, NEW r, GoalRecord(r),
         Sleeps(g, r),
         r.kind = goal[g].kind,
         NEW v \in Commands, Publish(v),
         v = Halt \/ r.kind # "stepClear" \/ r.planned
  PROVE  Turn(g)
<1>1. PICK q : q = [r EXCEPT !.pc = "loop", !.tick = clock]
  OBVIOUS
<1>2. GoalRecord(q) /\ q.pc = "loop" /\ q.kind = r.kind /\ q.planned = r.planned
  BY <1>1 DEF GoalRecord, NoGoal, GoalSteps
<1>3. goal' = [goal EXCEPT ![g] = q]
  BY <1>1 DEF Sleeps, Set
<1> QED BY <1>2, <1>3 DEF Turn, Stands

(* A loop that is left has stopped the base (LeaveLoop). *)
LEMMA LeaveTurns ==
  ASSUME GoalsTyped, NEW g \in Goals, goal[g].pc \in Moving, NEW r, GoalRecord(r),
         r.kind = goal[g].kind, LeaveLoop(g, r)
  PROVE  Turn(g)
<1>1. PICK q : q = [r EXCEPT !.pc = "settle", !.tick = clock]
  OBVIOUS
<1>2. GoalRecord(q) /\ q.pc = "settle" /\ q.kind = r.kind
  BY <1>1 DEF GoalRecord, NoGoal, GoalSteps
<1>3. goal' = [goal EXCEPT ![g] = q] /\ Publish(Halt)
  BY <1>1, SettleAssumption DEF LeaveLoop, Settle, Set
<1> QED BY <1>2, <1>3, HaltIsACommand DEF Turn

(* So has every abort, cancel and blind tick. *)
LEMMA StopTurns ==
  ASSUME GoalsTyped, NEW g \in Goals, goal[g].pc \in Moving,
         StopAndAbort(g) \/ CancelledTick(g) \/ BlindTick(g)
  PROVE  Turn(g)
<1>1. GoalRecord(goal[g])
  BY DEF GoalsTyped
<1>2. CASE StopAndAbort(g)
  BY <1>2, EndTurns DEF StopAndAbort, GoalStates
<1>3. CASE CancelledTick(g)
  BY <1>3, EndTurns DEF CancelledTick, GoalStates
<1>4. CASE BlindTick(g)
  BY <1>1, <1>4, EndTurns, SleepTurns, HaltIsACommand DEF BlindTick, GoalStates
<1> QED BY <1>2, <1>3, <1>4

(* The planners' drives are velocities: along, to the side, or zero. *)
LEMMA DrivesAreCommands ==
  ASSUME NEW x \in Int, NEW y \in Int
  PROVE  PlanApproach(x, y).drive \in Commands /\ NudgeDrive(y) \in Commands
<1>1. Axis(x - TargetX, TolX) \in -1..1 /\ Axis(y, TolY) \in -1..1
  BY DEF Axis
<1>2. ASSUME NEW a \in -1..1, NEW b \in -1..1
      PROVE  [Halt EXCEPT !.x = a, !.y = b] \in Commands
  <2>1. PICK h : h = [Halt EXCEPT !.x = a]
    OBVIOUS
  <2>2. h = [x |-> a, y |-> 0, turn |-> 0]
    BY <2>1 DEF Halt
  <2>3. [h EXCEPT !.y = b] = [x |-> a, y |-> b, turn |-> 0]
    BY <2>2
  <2>4. [h EXCEPT !.y = b] \in Commands
    BY <2>3 DEF Commands
  <2> QED BY <2>1, <2>4, Zenon
<1>3. [Halt EXCEPT !.x = Axis(x - TargetX, TolX), !.y = Axis(y, TolY)] \in Commands
  BY <1>1, <1>2, Zenon
<1>5. NudgeDrive(y) \in Commands
  BY DEF Commands, NudgeDrive, Halt
<1> DEFINE drive == [Halt EXCEPT !.x = Axis(x - TargetX, TolX), !.y = Axis(y, TolY)]
<1>4. PlanApproach(x, y).drive \in {Halt, drive}
  <2> HIDE DEF drive
  <2>1. PlanApproach(x, y) \in {[state |-> "overshot", drive |-> Halt],
              [state |-> "arrived", drive |-> Halt],
              [state |-> "closing", drive |-> drive]}
    BY LimitsAssumption DEF PlanApproach, drive
  <2> QED BY <2>1
<1> QED BY <1>3, <1>4, <1>5, HaltIsACommand

(* What an approach measures is a number, without a transform too. *)
LEMMA MeasuredIsInt ==
  ASSUME OdomTypeOK
  PROVE  AheadOf \in Int /\ AsideOf \in Int /\ tf.pose.at \in Int
<1>1. tf.pose \in Relative \cup {Nowhere}
  BY DEF OdomTypeOK
<1>2. tf.pose.at \in Int /\ tf.pose.side \in Int
  BY <1>1, FarAssumption DEF Relative, Nowhere
<1> QED BY <1>2, GoalNumbersAssumption DEF AheadOf, AsideOf

(* What a loop writes to its record leaves it one. *)
LEMMA RecordChanges ==
  ASSUME NEW r, GoalRecord(r)
  PROVE  /\ \A a, b, c : GoalRecord([r EXCEPT !.measured = a, !.best = b, !.since = c])
         /\ \A a, b : GoalRecord([r EXCEPT !.measured = a, !.last = b])
         /\ \A a : GoalRecord([r EXCEPT !.measured = a])
         /\ \A a : GoalRecord([r EXCEPT !.last = a])
BY DEF GoalRecord, NoGoal

(* runApproach's tick. *)
LEMMA ApproachTurns ==
  ASSUME GoalsTyped, OdomTypeOK, NEW g \in Goals, ApproachTick(g)
  PROVE  Turn(g)
<1> USE DEF Moving
<1>1. GoalRecord(goal[g]) /\ goal[g].pc = "loop" /\ goal[g].kind = "approach"
  BY DEF GoalsTyped, ApproachTick, Awake
<1>2. CASE StopAndAbort(g) \/ CancelledTick(g) \/ BlindTick(g)
  BY <1>1, <1>2, StopTurns
<1>3. CASE ClosingTick(g)
  <2>1. CASE StopAndAbort(g)
    BY <1>1, <2>1, StopTurns
  <2>2. CASE ~StopAndAbort(g)
    <3>1. PICK b, c : LET r == [goal[g] EXCEPT !.measured = clock, !.best = b, !.since = c]
                     IN /\ Publish(PlanApproach(AheadOf, AsideOf).drive)
                        /\ Sleeps(g, r)
      BY <1>3, <2>2 DEF ClosingTick
    <3>2. PICK r : r = [goal[g] EXCEPT !.measured = clock, !.best = b, !.since = c]
      OBVIOUS
    <3>3. GoalRecord(r)
      BY <1>1, <3>2, RecordChanges, Zenon
    <3>6. r.kind = "approach"
      BY <1>1, <3>2 DEF GoalRecord, NoGoal
    <3>4. Sleeps(g, r) /\ Publish(PlanApproach(AheadOf, AsideOf).drive)
      BY <3>1, <3>2, Zenon
    <3>5. PlanApproach(AheadOf, AsideOf).drive \in Commands
      BY DrivesAreCommands, MeasuredIsInt
    <3> QED BY <1>1, <3>3, <3>4, <3>5, <3>6, SleepTurns
  <2> QED BY <2>1, <2>2
<1>4. CASE LeaveLoop(g, [goal[g] EXCEPT !.nudges = 0, !.measured = clock])
  <2>1. PICK r : r = [goal[g] EXCEPT !.nudges = 0, !.measured = clock]
    OBVIOUS
  <2>2. GoalRecord(r) /\ r.kind = goal[g].kind
    BY <1>1, <2>1, LimitsAssumption DEF GoalRecord, NoGoal
  <2>3. LeaveLoop(g, r)
    BY <1>4, <2>1, Zenon
  <2> QED BY <1>1, <2>2, <2>3, LeaveTurns
<1> QED BY <1>2, <1>3, <1>4 DEF ApproachTick

(* Its judgement of the stopped robot. *)
LEMMA VerifyTurns ==
  ASSUME GoalsTyped, OdomTypeOK, NEW g \in Goals, Verify(g)
  PROVE  Turn(g)
<1> USE DEF Moving
<1>1. GoalRecord(goal[g]) /\ goal[g].pc = "settle" /\ goal[g].kind = "approach"
  BY DEF GoalsTyped, Verify, Awake
<1> DEFINE again == [goal[g] EXCEPT !.pc = "loop", !.tick = clock - 1,
                                  !.best = Boundless, !.since = clock]
           pulse == [goal[g] EXCEPT !.pc = "pulse", !.nudges = @ + 1,
                                                !.tick = clock]
<1>2. GoalRecord(again) /\ again.pc = "loop" /\ again.kind = goal[g].kind
  BY <1>1 DEF GoalRecord, NoGoal, GoalSteps
<1>3. CASE Set(g, again) /\ UNCHANGED cmd
  <2> HIDE DEF again
  <2> QED BY <1>1, <1>2, <1>3 DEF Turn, Stands, Set
<1>4. CASE Ends(g, "succeeded") /\ UNCHANGED cmd
  BY <1>1, <1>4, EndTurns DEF GoalStates, Stands
<1>5. CASE /\ Publish(NudgeDrive(AsideOf)) /\ goal[g].nudges < MaxNudges
           /\ Set(g, pulse)
  <2>1. GoalRecord(pulse) /\ pulse.pc = "pulse" /\ pulse.kind = goal[g].kind
    BY <1>1, <1>5, LimitsAssumption DEF GoalRecord, NoGoal, GoalSteps
  <2> HIDE DEF pulse
  <2> QED BY <1>1, <2>1, <1>5, DrivesAreCommands, MeasuredIsInt DEF Turn, Set,
       Stands
<1> QED BY <1>3, <1>4, <1>5 DEF Verify

(* The beginning of every goal. *)
LEMMA BeginTurns ==
  ASSUME GoalsTyped, NEW g \in Goals, Begin(g)
  PROVE  Turn(g)
<1> USE DEF Moving
<1>1. GoalRecord(goal[g]) /\ goal[g].pc = "begin" /\ UNCHANGED cmd
  BY DEF GoalsTyped, Begin
<1>2. CASE Ends(g, "aborted")
  BY <1>1, <1>2, EndTurns DEF GoalStates, Stands
<1>3. CASE ~Ends(g, "aborted")
  <2>1. PICK u, r : /\ r = [goal[g] EXCEPT !.pc = "loop", !.tick = clock - 1,
                              !.deadline = clock + Timeout, !.measured = clock,
                              !.since = clock, !.start = tf.pose.at, !.usable = u]
                    /\ Set(g, r)
    BY <1>3 DEF Begin
  <2>2. GoalRecord(r) /\ r.pc = "loop" /\ r.kind = goal[g].kind
    BY <1>1, <2>1 DEF GoalRecord, NoGoal, GoalSteps
  <2> QED BY <1>1, <2>1, <2>2 DEF Turn, Stands, Set
<1> QED BY <1>2, <1>3

(* The end of a nudge. *)
LEMMA PulseTurns ==
  ASSUME GoalsTyped, NEW g \in Goals, PulseEnds(g)
  PROVE  Turn(g)
<1>1. GoalRecord(goal[g]) /\ goal[g].pc = "pulse"
  BY DEF GoalsTyped, PulseEnds, Awake
<1>2. LeaveLoop(g, goal[g])
  BY SettleAssumption DEF PulseEnds, LeaveLoop, Settle
<1> QED BY <1>1, <1>2, LeaveTurns DEF Moving

(* runRetreat's tick. *)
LEMMA RetreatTurns ==
  ASSUME GoalsTyped, NEW g \in Goals, RetreatTick(g)
  PROVE  Turn(g)
<1> USE DEF Moving
<1>1. GoalRecord(goal[g]) /\ goal[g].pc = "loop" /\ goal[g].kind = "retreat"
  BY DEF GoalsTyped, RetreatTick, Awake
<1> DEFINE record == [goal[g] EXCEPT !.measured = clock, !.last = Travelled(g)]
<1>2. GoalRecord(record) /\ record.kind = "retreat"
  BY <1>1 DEF GoalRecord, NoGoal
<1>3. CASE CancelledTick(g) \/ BlindTick(g)
  BY <1>1, <1>3, StopTurns
<1>4. CASE LeaveLoop(g, goal[g])
  BY <1>1, <1>4, LeaveTurns
<1>5. CASE LeaveLoop(g, [record EXCEPT !.blocked = TRUE])
  <2>1. PICK r : r = [record EXCEPT !.blocked = TRUE]
    OBVIOUS
  <2>2. GoalRecord(r) /\ r.kind = goal[g].kind
    BY <1>1, <1>2, <2>1 DEF GoalRecord, NoGoal
  <2> QED BY <1>1, <1>5, <2>1, <2>2, LeaveTurns, Zenon
<1>6. CASE Publish([Halt EXCEPT !.x = -1]) /\ Sleeps(g, record)
  <2>1. [Halt EXCEPT !.x = -1] \in Commands
    BY DEF Halt, Commands
  <2> HIDE DEF record
  <2> QED BY <1>1, <1>2, <1>6, <2>1, SleepTurns
<1> QED BY <1>3, <1>4, <1>5, <1>6 DEF RetreatTick

(* The end of a retreat and of a step clear, and runGuarded's catch. *)
LEMMA EndsTurn ==
  ASSUME GoalsTyped, NEW g \in Goals,
         RetreatEnds(g) \/ StepClearEnds(g) \/ GoalThrows(g)
  PROVE  Turn(g)
<1> USE DEF Moving
<1>1. CASE GoalThrows(g)
  BY <1>1, EndTurns DEF GoalThrows, GoalStates
<1>2. CASE RetreatEnds(g) \/ StepClearEnds(g)
  <2>1. /\ goal[g].pc = "settle" /\ UNCHANGED cmd
        /\ Ends(g, "succeeded") \/ Ends(g, "aborted")
    BY <1>2 DEF RetreatEnds, StepClearEnds, Awake
  <2> QED BY <2>1, EndTurns DEF GoalStates, Stands
<1> QED BY <1>1, <1>2

(* A tick of a step that is planned. *)
LEMMA StepTurns ==
  ASSUME GoalsTyped, NEW g \in Goals, goal[g].pc \in Moving, NEW r, GoalRecord(r),
         r.kind = goal[g].kind, r.kind = "stepClear", r.planned,
         NEW turning \in BOOLEAN,
         StepTick(g, r, turning)
  PROVE  Turn(g)
<1>1. /\ [Halt EXCEPT !.turn = 1] \in Commands
      /\ [Halt EXCEPT !.x = IF r.step > 0 THEN 1 ELSE -1] \in Commands
  BY DEF Halt, Commands
<1>2. PICK begun : begun = IF r.last = 0
                            THEN [r EXCEPT !.last = 1, !.start = tf.pose.at] ELSE r
  OBVIOUS
<1>3. GoalRecord(begun) /\ begun.planned /\ begun.kind = r.kind
  BY <1>2 DEF GoalRecord, NoGoal
<1>4. \/ Publish([Halt EXCEPT !.turn = 1]) /\ Sleeps(g, r)
      \/ LeaveLoop(g, begun)
      \/ StopAndAbort(g)
      \/ /\ Publish([Halt EXCEPT !.x = IF r.step > 0 THEN 1 ELSE -1])
         /\ Sleeps(g, begun)
  BY <1>2 DEF StepTick
<1>5. CASE Publish([Halt EXCEPT !.turn = 1]) /\ Sleeps(g, r)
  BY <1>1, <1>5, SleepTurns
<1>6. CASE LeaveLoop(g, begun) \/ StopAndAbort(g)
  BY <1>3, <1>6, LeaveTurns, StopTurns
<1>7. CASE /\ Publish([Halt EXCEPT !.x = IF r.step > 0 THEN 1 ELSE -1])
           /\ Sleeps(g, begun)
  BY <1>1, <1>3, <1>7, SleepTurns
<1> QED BY <1>4, <1>5, <1>6, <1>7

(* runStepClear's tick. *)
LEMMA StepClearTurns ==
  ASSUME GoalsTyped, NEW g \in Goals, StepClearTick(g)
  PROVE  Turn(g)
<1> USE DEF Moving
<1>1. GoalRecord(goal[g]) /\ goal[g].pc = "loop" /\ goal[g].kind = "stepClear"
  BY DEF GoalsTyped, StepClearTick, Awake
<1> DEFINE record == [goal[g] EXCEPT !.measured = clock]
           planned(s) == [record EXCEPT !.planned = TRUE, !.step = s,
                                    !.best = FloorAt(costmap.at, tf.pose.at)]
<1>2. /\ GoalRecord(record) /\ record.kind = "stepClear"
      /\ record.planned = goal[g].planned
  BY <1>1 DEF GoalRecord, NoGoal
<1>3. \A s : GoalRecord(planned(s)) /\ planned(s).kind = "stepClear" /\ planned(s).planned
  BY <1>1 DEF GoalRecord, NoGoal
<1> HIDE DEF planned, record
<1>4. \/ CancelledTick(g) \/ BlindTick(g) \/ StopAndAbort(g)
      \/ LeaveLoop(g, goal[g])
      \/ goal[g].planned /\ \E turning \in BOOLEAN : StepTick(g, record, turning)
      \/ ~goal[g].planned /\ Ends(g, "succeeded") /\ UNCHANGED cmd
      \/ \E s : \E turning \in BOOLEAN : StepTick(g, planned(s), turning)
  <2> DEFINE steps == PlanSteps(costmap.at, tf.pose.at, Wanted)
             looks == CASE ~AroundKnown -> BlindTick(g)
                        [] AroundKnown /\ goal[g].planned ->
                             \E turning \in BOOLEAN : StepTick(g, record, turning)
                        [] OTHER ->
                             IF steps = {} THEN StopAndAbort(g)
                             ELSE \E s \in steps, turning \in BOOLEAN :
                               IF s = 0 THEN Ends(g, "succeeded") /\ UNCHANGED cmd
                               ELSE StepTick(g, planned(s), turning)
  <2>1. CancelledTick(g) \/ StopAndAbort(g) \/ LeaveLoop(g, goal[g]) \/ looks
    <3>1. CASE ~up \/ stopping
      BY <3>1 DEF StepClearTick
    <3>2. CASE up /\ ~stopping /\ (goal[g].state = "canceling" \/ Past(g))
      BY <3>2 DEF StepClearTick
    <3>3. CASE up /\ ~stopping /\ goal[g].state # "canceling" /\ ~Past(g)
      BY <3>3 DEF StepClearTick, planned, record
    <3> QED BY <3>1, <3>2, <3>3
  <2>2. CASE looks /\ ~AroundKnown
    BY <2>2
  <2>3. CASE looks /\ AroundKnown /\ goal[g].planned
    BY <2>3
  <2>4. CASE looks /\ AroundKnown /\ ~goal[g].planned
    <3>1. IF steps = {} THEN StopAndAbort(g)
          ELSE \E s \in steps, turning \in BOOLEAN :
                 IF s = 0 THEN Ends(g, "succeeded") /\ UNCHANGED cmd
                 ELSE StepTick(g, planned(s), turning)
      BY <2>4, Zenon
    <3>2. CASE steps = {}
      BY <3>1, <3>2
    <3>3. CASE steps # {}
      <4>1. PICK s \in steps, turning \in BOOLEAN :
                 IF s = 0 THEN Ends(g, "succeeded") /\ UNCHANGED cmd
                 ELSE StepTick(g, planned(s), turning)
        BY <3>1, <3>3, Zenon
      <4> QED BY <2>4, <4>1, Zenon
    <3> QED BY <3>2, <3>3
  <2> QED BY <2>1, <2>2, <2>3, <2>4
<1>5. CASE CancelledTick(g) \/ BlindTick(g) \/ StopAndAbort(g) \/ LeaveLoop(g, goal[g])
  BY <1>1, <1>5, StopTurns, LeaveTurns
<1>6. CASE goal[g].planned /\ \E turning \in BOOLEAN : StepTick(g, record, turning)
  BY <1>1, <1>2, <1>6, StepTurns
<1>7. CASE ~goal[g].planned /\ Ends(g, "succeeded") /\ UNCHANGED cmd
  BY <1>1, <1>7, EndTurns DEF GoalStates, Stands
<1>8. CASE \E s : \E turning \in BOOLEAN : StepTick(g, planned(s), turning)
  BY <1>1, <1>3, <1>8, StepTurns
<1> QED BY <1>4, <1>5, <1>6, <1>7, <1>8

(***************************************************************************)
(* The base stands when no goal walks it                                   *)
(***************************************************************************)
(* The type invariant of the node, from its goals'. *)
LEMMA TypedGoals ==
  /\ GoalsTyped /\ cmd \in Commands /\ {up, stopping, busy} \subseteq BOOLEAN
  /\ running \in 0..Cardinality(Goals)
  => BaseTypeOK
BY DEF GoalsTyped, GoalRecord, BaseTypeOK

(* A goal's turn keeps the invariant. *)
LEMMA TurnKeeps ==
  ASSUME BaseInv, NEW g \in Goals, Turn(g), UNCHANGED restOfBase
  PROVE  BaseInv'
<1>1. PICK r : /\ goal' = [goal EXCEPT ![g] = r] /\ GoalRecord(r) /\ r.pc # "none"
               /\ \/ Stands(goal[g]) /\ UNCHANGED cmd
                  \/ \E v \in Commands : Publish(v) /\ (v = Halt \/ ~Stands(r))
  BY DEF Turn
<1>2. goal[g].pc # "none"
  BY DEF Turn, Moving
<1>3. /\ DOMAIN goal' = Goals /\ goal'[g] = r
      /\ \A h \in Goals \ {g} : goal'[h] = goal[h]
  BY <1>1 DEF BaseInv, GoalsTyped
<1>4. UNCHANGED <<up, stopping, busy, running>>
  BY DEF restOfBase
<1>5. cmd' \in Commands
  BY <1>1, HaltIsACommand DEF Publish, BaseInv, BaseTypeOK
<1>6. GoalsTyped'
  BY <1>1, <1>3 DEF BaseInv, GoalsTyped, GoalRecord
<1>7. BaseTypeOK'
  BY <1>4, <1>5, <1>6, TypedGoals DEF BaseInv, GoalsTyped, GoalRecord, BaseTypeOK
<1>8. OneGoal'
  BY <1>1, <1>2, <1>3, <1>4 DEF BaseInv, OneGoal
<1>9. StandsStill'
  <2>1. CASE Stands(goal[g]) /\ UNCHANGED cmd
    BY <1>3, <1>4, <2>1 DEF BaseInv, StandsStill, Stands
  <2>2. CASE \E v \in Commands : Publish(v) /\ (v = Halt \/ ~Stands(r))
    BY <1>3, <1>4, <2>2 DEF StandsStill, Stands, Publish
  <2> QED BY <1>1, <2>1, <2>2
<1> QED BY <1>6, <1>7, <1>8, <1>9 DEF BaseInv

(* acquire(): the one goal. *)
LEMMA AcceptKeeps ==
  ASSUME BaseInv, NEW g \in Goals, NEW kind \in Kinds, Accept(g, kind)
  PROVE  BaseInv'
<1>1. PICK r : /\ r = [NoGoal EXCEPT !.kind = kind, !.state = "executing", !.pc = "begin"]
               /\ goal' = [goal EXCEPT ![g] = r]
  BY DEF Accept
<1>2. GoalRecord(r) /\ r.pc = "begin"
  BY <1>1, LimitsAssumption DEF GoalRecord, NoGoal, GoalStates, GoalSteps
<1>3. /\ DOMAIN goal' = Goals /\ goal'[g] = r
      /\ \A h \in Goals \ {g} : goal'[h] = goal[h]
  BY <1>1 DEF BaseInv, GoalsTyped
<1>4. /\ ~busy /\ busy' = TRUE /\ running = 0 /\ running' = 1
      /\ \A h \in Goals : goal[h].pc = "none"
      /\ UNCHANGED <<up, stopping, cmd>>
  BY DEF Accept, BaseInv, OneGoal
<1>5. 1 \in 0..Cardinality(Goals)
  <2>1. Cardinality(Goals) \in Nat
    BY GoalsAssumption, FS_CardinalityType
  <2>2. Cardinality(Goals) # 0
    BY GoalsAssumption, FS_EmptySet
  <2> QED BY <2>1, <2>2
<1>6. GoalsTyped'
  BY <1>2, <1>3 DEF BaseInv, GoalsTyped, GoalRecord
<1>7. BaseTypeOK'
  BY <1>4, <1>5, <1>6 DEF BaseInv, GoalsTyped, GoalRecord, BaseTypeOK
<1>8. OneGoal'
  BY <1>2, <1>3, <1>4 DEF OneGoal
<1>9. StandsStill'
  BY <1>2, <1>3, <1>4 DEF BaseInv, StandsStill, Stands
<1> QED BY <1>6, <1>7, <1>8, <1>9 DEF BaseInv

(* A cancel changes the goal's state alone. *)
LEMMA CancelKeeps ==
  ASSUME BaseInv, NEW g \in Goals, Cancel(g)
  PROVE  BaseInv'
<1>1. PICK r : /\ r = [goal[g] EXCEPT !.state = "canceling"]
               /\ goal' = [goal EXCEPT ![g] = r]
  BY DEF Cancel, Set
<1>2. /\ GoalRecord(r) /\ r.pc = goal[g].pc /\ r.kind = goal[g].kind
      /\ r.planned = goal[g].planned
  BY <1>1 DEF BaseInv, GoalsTyped, GoalRecord, NoGoal, GoalStates
<1>3. /\ DOMAIN goal' = Goals /\ goal'[g] = r
      /\ \A h \in Goals \ {g} : goal'[h] = goal[h]
  BY <1>1 DEF BaseInv, GoalsTyped
<1>4. UNCHANGED <<up, stopping, busy, running, cmd>>
  BY DEF Cancel, restOfBase
<1>5. \A h \in Goals : goal'[h].pc = goal[h].pc /\ Stands(goal[h])' = Stands(goal[h])
  BY <1>2, <1>3 DEF Stands
<1>6. GoalsTyped'
  BY <1>2, <1>3 DEF BaseInv, GoalsTyped, GoalRecord
<1>7. BaseTypeOK'
  BY <1>4, <1>6 DEF BaseInv, GoalsTyped, GoalRecord, BaseTypeOK
<1>8. OneGoal'
  BY <1>4, <1>5 DEF BaseInv, OneGoal
<1>9. StandsStill'
  BY <1>4, <1>5 DEF BaseInv, StandsStill
<1> QED BY <1>6, <1>7, <1>8, <1>9 DEF BaseInv

(* runGuarded's last lines: the base was stopped before. *)
LEMMA ReturnKeeps ==
  ASSUME BaseInv, NEW g \in Goals, GoalReturns(g)
  PROVE  BaseInv'
<1>1. PICK r : r = [goal[g] EXCEPT !.pc = "none"] /\ goal' = [goal EXCEPT ![g] = r]
  BY DEF GoalReturns, Set
<1>2. GoalRecord(r) /\ r.pc = "none"
  BY <1>1 DEF BaseInv, GoalsTyped, GoalRecord, NoGoal, GoalSteps
<1>3. /\ DOMAIN goal' = Goals /\ goal'[g] = r
      /\ \A h \in Goals \ {g} : goal'[h] = goal[h]
  BY <1>1 DEF BaseInv, GoalsTyped
<1>4. /\ goal[g].pc = "ending" /\ busy' = FALSE /\ running' = running - 1
      /\ UNCHANGED <<up, stopping, cmd>>
  BY DEF GoalReturns
<1>5. /\ running = 1 /\ \A h \in Goals \ {g} : goal[h].pc = "none"
  BY <1>4 DEF BaseInv, OneGoal
<1>6. GoalsTyped'
  BY <1>2, <1>3 DEF BaseInv, GoalsTyped, GoalRecord
<1>7. BaseTypeOK'
  <2>1. Cardinality(Goals) \in Nat
    BY GoalsAssumption, FS_CardinalityType
  <2>2. running' = 0 /\ 0 \in 0..Cardinality(Goals)
    BY <1>4, <1>5, <2>1
  <2>3. {up', stopping', busy'} \subseteq BOOLEAN /\ cmd' \in Commands
    BY <1>4 DEF BaseInv, BaseTypeOK
  <2> QED BY <1>6, <2>2, <2>3 DEF GoalsTyped, GoalRecord, BaseTypeOK
<1>8. OneGoal'
  BY <1>2, <1>3, <1>4, <1>5 DEF OneGoal
<1>9. StandsStill'
  BY <1>2, <1>3, <1>4, <1>5 DEF BaseInv, StandsStill, Stands
<1> QED BY <1>6, <1>7, <1>8, <1>9 DEF BaseInv

(* What does not touch the goals keeps the invariant; a shutdown too, after *)
(* which nothing is asked of the base. *)
LEMMA RestKeepsBase ==
  ASSUME BaseInv, UNCHANGED <<busy, running, goal, cmd>>,
         up' \in {up, FALSE}, stopping' \in {stopping, TRUE}
  PROVE  BaseInv'
<1>1. BaseTypeOK'
  BY DEF BaseInv, BaseTypeOK
<1>2. GoalsTyped' /\ OneGoal'
  BY DEF BaseInv, GoalsTyped, GoalRecord, OneGoal
<1>3. StandsStill'
  BY DEF BaseInv, BaseTypeOK, StandsStill, Stands
<1> QED BY <1>1, <1>2, <1>3 DEF BaseInv

(* It holds in the beginning. *)
LEMMA BaseInits == Init => BaseInv
<1> SUFFICES ASSUME Init PROVE BaseInv
  OBVIOUS
<1>1. GoalRecord(NoGoal) /\ NoGoal.pc = "none"
  BY LimitsAssumption DEF GoalRecord, NoGoal, Kinds, GoalStates, GoalSteps
<1>2. GoalsTyped
  BY <1>1 DEF Init, BaseInit, GoalsTyped
<1>3. 0 \in 0..Cardinality(Goals)
  BY GoalsAssumption, FS_CardinalityType
<1>4. BaseTypeOK
  BY <1>2, <1>3, TypedGoals, HaltIsACommand DEF Init, BaseInit
<1>5. OneGoal /\ StandsStill
  BY <1>1 DEF Init, BaseInit, OneGoal, StandsStill
<1> QED BY <1>2, <1>4, <1>5 DEF BaseInv

(***************************************************************************)
(* The odometry node                                                       *)
(***************************************************************************)
(* Where the base is, in the world and from a start. *)
LEMMA RelativePlaces ==
  /\ Nowhere \notin Places
  /\ \A p \in Places : p \in Relative
  /\ \A p, q \in Places : From(p, q) \in Relative
<1>1. Nowhere \notin Places
  BY FarAssumption DEF Nowhere, Places
<1>2. \A p \in Places : p \in Relative
  BY FarAssumption DEF Places, Relative
<1>3. \A p, q \in Places : From(p, q) \in Relative
  BY FarAssumption DEF Places, Relative, From
<1> QED BY <1>1, <1>2, <1>3

(* noteSample stores what it is given. *)
LEMMA NotedTyped ==
  ASSUME OdomTypeOK, NEW s \in 0..MaxClock, NEW p \in Relative,
         clock \in 0..MaxClock
  PROVE  /\ Noted(s, p) \in [have: BOOLEAN, stamp: 0..MaxClock,
                             pose: Relative \cup {Nowhere}, advanced: 0..MaxClock]
         /\ Noted(s, p).stamp = s /\ Noted(s, p).pose = p
BY DEF Noted, OdomTypeOK

(* The invariant holds in the beginning. *)
LEMMA OdomInits == Init => OdomInv
<1> SUFFICES ASSUME Init PROVE OdomInv
  OBVIOUS
<1>1. StartPlace \in Places
  BY SceneAssumption DEF StartPlace, Places
<1>2. Nowhere \in Relative \cup {Nowhere} /\ Nowhere \notin Places
  BY FarAssumption DEF Nowhere, Places
<1>3. WorldTypeOK
  <2>1. PICK room \in Rooms :
        isSurface = room.surface /\ base = [StartPlace EXCEPT !.side = room.side]
    BY DEF Init
  <2>2. base \in Places /\ isSurface \in BOOLEAN
    BY <1>1, <2>1, SceneAssumption DEF StartPlace, Places
  <2>3. heard \in [stamps: SUBSET (0..clock), told: BOOLEAN]
    BY DEF Init, Unheard
  <2> QED BY <1>1, <2>2, <2>3, MaxClockAssumption DEF Init, WorldTypeOK
<1>6. /\ NoSample \in [have: BOOLEAN, stamp: 0..MaxClock,
                       pose: Relative \cup {Nowhere}, advanced: 0..MaxClock]
      /\ NoTf \in [known: BOOLEAN, stamp: 0..MaxClock, pose: Relative \cup {Nowhere}]
  BY <1>2, MaxClockAssumption DEF NoSample, NoTf
<1>7. {0, 1} \subseteq 0..MaxSessions
  BY MaxSessionsAssumption
<1>4. CASE scene = "walk"
  <2>1. OdomTypeOK
    BY <1>4, <1>6, <1>7 DEF Init, OdomTypeOK
  <2>2. Configured
    BY <1>4 DEF Init, Configured
  <2> QED BY <1>3, <1>4, <2>1, <2>2 DEF OdomInv
<1>5. CASE scene # "walk"
  <2>1. OdomTypeOK
    BY <1>5, <1>6, <1>7 DEF Init, OdomInit, OdomTypeOK
  <2>2. Configured /\ SampleIsTrue /\ StartIsTrue /\ TfIsTrue
    BY <1>5 DEF Init, OdomInit, Configured, SampleIsTrue, StartIsTrue, TfIsTrue, NoSample
  <2> QED BY <1>3, <2>1, <2>2 DEF OdomInv
<1> QED BY <1>4, <1>5

(* What leaves the node and the world alone keeps it. *)
LEMMA OdomStays ==
  ASSUME OdomInv, UNCHANGED <<clock, base, odomVars, walkVars>>
  PROVE  OdomInv'
BY DEF OdomInv, OdomTypeOK, WorldTypeOK, Configured, SampleIsTrue, StartIsTrue,
       TfIsTrue, odomVars, walkVars

(* The lifecycle: a configuration begins without a sample and without a start. *)
LEMMA LifecycleKeeps ==
  ASSUME OdomInv, OdomLifecycle
  PROVE  OdomInv'
<1>1. UNCHANGED <<clock, base, baseVars, scene, isSurface, was>>
  BY DEF OdomLifecycle, AroundOdom
<1>0. WorldTypeOK'
  <2>1. heard' = Unheard \/ heard' = heard
    BY DEF OdomLifecycle
  <2>2. Unheard \in [stamps: SUBSET (0..clock), told: BOOLEAN]
    BY DEF Unheard
  <2> QED BY <1>1, <2>1, <2>2 DEF OdomInv, WorldTypeOK
<1>2. /\ OdomTypeOK /\ Configured /\ SampleIsTrue /\ StartIsTrue /\ TfIsTrue
      /\ clock \in 0..MaxClock
  BY DEF OdomLifecycle, OdomInv, WorldTypeOK
<1>3. UNCHANGED <<clock, was>>
  BY <1>1
<1>4. CASE (\E src \in {"truth", "lidar"} : Configure(src)) /\ heard' = Unheard
  <2>1. PICK src \in {"truth", "lidar"} : Configure(src)
    BY <1>4
  <2>2. /\ olife = "unconfigured" /\ ~sample.have /\ origin = Nowhere
        /\ olife' = "inactive" /\ source' = src /\ session < MaxSessions
        /\ session' = session + 1
        /\ UNCHANGED <<timerOn, sample, origin, imu, tf>>
    BY <1>2, <2>1 DEF Configure, Configured
  <2>3. session' \in 0..MaxSessions
    BY <1>2, <2>2, MaxSessionsAssumption DEF OdomTypeOK
  <2>4. OdomTypeOK'
    BY <1>2, <2>2, <2>3 DEF OdomTypeOK
  <2>5. Configured'
    BY <1>2, <1>3, <2>2, <2>3 DEF Configured
  <2>6. SampleIsTrue' /\ StartIsTrue' /\ TfIsTrue'
    BY <1>4, <2>2 DEF SampleIsTrue, StartIsTrue, TfIsTrue, Unheard
  <2> QED BY <1>0, <2>4, <2>5, <2>6 DEF OdomInv
<1>5. CASE (Activate \/ Deactivate) /\ UNCHANGED heard
  <2>1. /\ olife \in {"inactive", "active"} /\ olife' \in {"inactive", "active"}
        /\ timerOn' \in BOOLEAN
        /\ UNCHANGED <<source, sample, origin, imu, session, tf>>
    BY <1>5 DEF Activate, Deactivate
  <2>2. OdomTypeOK'
    BY <1>2, <2>1 DEF OdomTypeOK
  <2>3. Configured'
    BY <1>2, <1>3, <2>1 DEF Configured
  <2>4. SampleIsTrue' /\ StartIsTrue' /\ TfIsTrue'
    BY <1>2, <1>3, <1>5, <2>1 DEF SampleIsTrue, StartIsTrue, TfIsTrue
  <2> QED BY <1>0, <2>2, <2>3, <2>4 DEF OdomInv
<1>6. CASE (Cleanup \/ OdomShutdown) /\ UNCHANGED heard
  <2>1. /\ source' = "none" /\ timerOn' = FALSE
        /\ olife' \in {"unconfigured", "finalized"}
        /\ olife' = "unconfigured" => ~sample'.have /\ origin' = Nowhere
        /\ sample' \in [have: BOOLEAN, stamp: 0..MaxClock,
                        pose: Relative \cup {Nowhere}, advanced: 0..MaxClock]
        /\ origin' \in {origin, Nowhere} /\ imu' \in {imu, "unknown"}
        /\ UNCHANGED <<session, tf>>
    BY <1>2, <1>6 DEF Cleanup, OdomShutdown, OdomTypeOK
  <2>2. OdomTypeOK'
    BY <1>2, <2>1 DEF OdomTypeOK
  <2>3. Configured'
    BY <1>2, <1>3, <2>1 DEF Configured
  <2>4. SampleIsTrue' /\ StartIsTrue' /\ TfIsTrue'
    BY <2>1 DEF SampleIsTrue, StartIsTrue, TfIsTrue
  <2> QED BY <1>0, <2>2, <2>3, <2>4 DEF OdomInv
<1> QED BY <1>4, <1>5, <1>6 DEF OdomLifecycle

(* The sources' callbacks store a sample of this configuration. *)
LEMMA SamplesKeep ==
  ASSUME OdomInv, Samples
  PROVE  OdomInv'
<1>1. UNCHANGED <<clock, base, baseVars, scene, isSurface, was>>
  BY DEF Samples, AroundOdom
<1>2. /\ OdomTypeOK /\ Configured /\ clock \in 0..MaxClock
      /\ heard \in [stamps: SUBSET (0..clock), told: BOOLEAN]
  BY DEF OdomInv, WorldTypeOK
<1>3. PICK stamp \in Stamps, usable \in BOOLEAN :
        /\ \/ GroundTruth(stamp, PlaceAt(stamp), usable)
           \/ LidarOdometry(stamp, PlaceAt(stamp), usable)
        /\ heard' = IF scene = "odometry" /\ usable
                      THEN [heard EXCEPT !.stamps = @ \cup {stamp}] ELSE heard
  BY DEF Samples
<1>4. /\ stamp \in 0..clock /\ stamp \in 0..MaxClock /\ PlaceAt(stamp) \in Places
      /\ scene = "odometry" => PlaceAt(stamp) = was[stamp]
  <2>1. base \in Places /\ was \in [0..MaxClock -> Places] /\ clock \in 0..MaxClock
    BY DEF OdomInv, WorldTypeOK
  <2>2. stamp \in {clock - 1, clock} /\ stamp >= 0
    BY <1>3, <2>1 DEF Stamps
  <2>3. stamp \in 0..clock /\ stamp \in 0..MaxClock
    BY <2>1, <2>2, MaxClockAssumption
  <2> QED BY <2>1, <2>3 DEF PlaceAt
<1>5. /\ heard' \in [stamps: SUBSET (0..clock), told: BOOLEAN]
      /\ heard.stamps \subseteq heard'.stamps /\ heard'.told = heard.told
      /\ scene = "odometry" /\ usable => stamp \in heard'.stamps
  BY <1>2, <1>3, <1>4
<1>6. WorldTypeOK'
  BY <1>1, <1>5 DEF OdomInv, WorldTypeOK
<1>7. scene = "odometry" => SampleIsTrue /\ StartIsTrue /\ TfIsTrue
  BY DEF OdomInv
<1>8. CASE UNCHANGED <<olife, source, timerOn, sample, origin, imu, session, tf>>
  <2>1. OdomTypeOK' /\ Configured'
    BY <1>2, <1>8 DEF OdomTypeOK, Configured
  <2>2. scene = "odometry" => SampleIsTrue' /\ StartIsTrue' /\ TfIsTrue'
    BY <1>1, <1>5, <1>7, <1>8 DEF SampleIsTrue, StartIsTrue, TfIsTrue
  <2> QED BY <1>1, <1>6, <2>1, <2>2 DEF OdomInv
<1>9. CASE /\ source = "truth" /\ usable
           /\ sample' = Noted(stamp, PlaceAt(stamp))
           /\ UNCHANGED <<olife, source, timerOn, origin, imu, session, tf>>
  <2>1. OdomTypeOK'
    BY <1>2, <1>4, <1>9, NotedTyped, RelativePlaces DEF OdomTypeOK
  <2>2. Configured'
    BY <1>2, <1>9 DEF Configured
  <2>3. scene = "odometry" => SampleIsTrue' /\ StartIsTrue' /\ TfIsTrue'
    BY <1>1, <1>2, <1>4, <1>5, <1>9, NotedTyped, RelativePlaces
    DEF SampleIsTrue, StartIsTrue, TfIsTrue
  <2> QED BY <1>1, <1>6, <2>1, <2>2, <2>3 DEF OdomInv
<1>10. CASE /\ source = "lidar" /\ usable
            /\ origin' = IF origin = Nowhere THEN PlaceAt(stamp) ELSE origin
            /\ sample' = Noted(stamp, From(PlaceAt(stamp), origin'))
            /\ UNCHANGED <<olife, source, timerOn, imu, session, tf>>
  <2>1. origin' \in Places /\ From(PlaceAt(stamp), origin') \in Relative
    BY <1>2, <1>4, <1>10, RelativePlaces DEF OdomTypeOK
  <2>2. OdomTypeOK'
    BY <1>2, <1>4, <1>10, <2>1, NotedTyped DEF OdomTypeOK
  <2>3. Configured'
    BY <1>2, <1>10 DEF Configured
  <2>4. scene = "odometry" => SampleIsTrue'
    BY <1>1, <1>2, <1>4, <1>5, <1>10, <2>1, NotedTyped, RelativePlaces
    DEF SampleIsTrue
  <2>5. scene = "odometry" => StartIsTrue'
    BY <1>1, <1>4, <1>5, <1>7, <1>10 DEF StartIsTrue
  <2>6. scene = "odometry" => TfIsTrue'
    BY <1>1, <1>5, <1>7, <1>10 DEF TfIsTrue
  <2> QED BY <1>1, <1>6, <2>2, <2>3, <2>4, <2>5, <2>6 DEF OdomInv
<1> QED BY <1>3, <1>8, <1>9, <1>10 DEF GroundTruth, LidarOdometry

(* onImu. *)
LEMMA AttitudeKeeps ==
  ASSUME OdomInv, Attitude
  PROVE  OdomInv'
<1>1. /\ UNCHANGED <<clock, base, walkVars>> /\ imu' \in {"upright", "fallen"}
      /\ UNCHANGED <<olife, source, timerOn, sample, origin, session, tf>>
  BY DEF Attitude, ImuSample, AroundOdom, walkVars
<1>2. OdomTypeOK' /\ WorldTypeOK'
  BY <1>1 DEF OdomInv, OdomTypeOK, WorldTypeOK, walkVars
<1> QED BY <1>1, <1>2
    DEF OdomInv, Configured, SampleIsTrue, StartIsTrue, TfIsTrue, walkVars

(* onTimer sends what is stored. *)
LEMMA TimerKeeps ==
  ASSUME OdomInv, Timer
  PROVE  OdomInv'
<1>1. /\ UNCHANGED <<clock, base, scene, isSurface, was>>
      /\ timerOn /\ sample.have
      /\ heard' = [heard EXCEPT !.told = (scene = "odometry")]
      /\ tf' = [known |-> TRUE, stamp |-> sample.stamp, pose |-> sample.pose]
      /\ UNCHANGED <<olife, source, timerOn, imu, sample, origin, session>>
  BY DEF Timer, OnTimer, AroundOdom
<1>2. tf' \in [known: BOOLEAN, stamp: 0..MaxClock, pose: Relative \cup {Nowhere}]
  BY <1>1 DEF OdomInv, OdomTypeOK
<1>3. /\ heard' \in [stamps: SUBSET (0..clock), told: BOOLEAN]
      /\ heard'.stamps = heard.stamps
  BY <1>1 DEF OdomInv, WorldTypeOK
<1>4. OdomTypeOK' /\ WorldTypeOK'
  BY <1>1, <1>2, <1>3 DEF OdomInv, OdomTypeOK, WorldTypeOK
<1>5. Configured'
  BY <1>1 DEF OdomInv, Configured
<1>6. scene = "odometry" => SampleIsTrue' /\ StartIsTrue'
  BY <1>1, <1>3 DEF OdomInv, SampleIsTrue, StartIsTrue
<1>7. scene = "odometry" => TfIsTrue'
  BY <1>1, <1>3 DEF OdomInv, SampleIsTrue, TfIsTrue
<1> QED BY <1>1, <1>4, <1>5, <1>6, <1>7 DEF OdomInv

(* Time passes: where the base was stays what it was. *)
LEMMA TickKeeps ==
  ASSUME OdomInv, BaseInv, Tick
  PROVE  OdomInv' /\ BaseInv'
<1>1. /\ clock < MaxClock /\ clock' = clock + 1
      /\ UNCHANGED <<odomVars, baseVars, scene, isSurface, heard>>
  BY DEF Tick
<1>2. BaseInv'
  BY <1>1, RestKeepsBase DEF baseVars
<1>3. clock \in 0..MaxClock /\ clock' \in 0..MaxClock
  BY <1>1, MaxClockAssumption DEF OdomInv, WorldTypeOK
<1>4. base' \in Places /\ was' \in [0..MaxClock -> Places]
      /\ \A s \in 0..clock : was'[s] = was[s]
  <2>1. base \in Places /\ was \in [0..MaxClock -> Places]
    BY DEF OdomInv, WorldTypeOK
  <2>2. CASE Walk
    BY <2>1, <2>2 DEF Walk
  <2>3. CASE Carried
    <3>1. base' \in Places /\ was' = [was EXCEPT ![clock'] = base']
      BY <2>1, <2>3 DEF Carried
    <3> QED BY <1>1, <1>3, <2>1, <3>1
  <2> QED BY <2>2, <2>3 DEF Tick
<1>5. /\ heard.stamps \subseteq 0..clock
      /\ heard' \in [stamps: SUBSET (0..clock'), told: BOOLEAN]
  BY <1>1, <1>3 DEF OdomInv, WorldTypeOK
<1>6. OdomTypeOK' /\ WorldTypeOK'
  BY <1>1, <1>3, <1>4, <1>5 DEF OdomInv, OdomTypeOK, WorldTypeOK, odomVars
<1>7. Configured'
  BY <1>1 DEF OdomInv, Configured, odomVars
<1>8. UNCHANGED <<sample, source, origin, tf, heard>>
  BY <1>1 DEF odomVars
<1>9. (SampleIsTrue => SampleIsTrue') /\ (StartIsTrue => StartIsTrue')
  BY <1>4, <1>5, <1>8 DEF SampleIsTrue, StartIsTrue
<1>10. TfIsTrue => TfIsTrue'
  BY <1>4, <1>5, <1>8 DEF TfIsTrue
<1> QED BY <1>1, <1>2, <1>6, <1>7, <1>9, <1>10 DEF OdomInv

(***************************************************************************)
(* The invariants hold, and what follows                                   *)
(***************************************************************************)
(* A goal's thread and its client. *)
LEMMA GoalKeeps ==
  ASSUME BaseInv, OdomInv, NEW g \in Goals,
         GoalThread(g) \/ GoalFails(g) \/ Client(g)
  PROVE  BaseInv' /\ OdomInv'
<1>1. OdomInv'
  BY OdomStays DEF GoalThread, GoalFails, Client, AroundBase
<1>2. GoalsTyped /\ OdomTypeOK
  BY DEF BaseInv, OdomInv
<1>3. CASE GoalReturns(g)
  BY <1>1, <1>3, ReturnKeeps
<1>4. CASE Client(g)
  BY <1>1, <1>4, AcceptKeeps, CancelKeeps DEF Client
<1>5. CASE (GoalThread(g) \/ GoalFails(g)) /\ ~GoalReturns(g)
  <2>1. Turn(g)
    BY <1>2, <1>5, BeginTurns, ApproachTurns, VerifyTurns, PulseTurns, RetreatTurns,
       StepClearTurns, EndsTurn DEF GoalThread, GoalFails
  <2>2. UNCHANGED restOfBase
    BY <1>5 DEF GoalThread, GoalFails, Begin, ApproachTick, Verify, PulseEnds,
       RetreatTick, RetreatEnds, StepClearTick, StepClearEnds, GoalThrows
  <2> QED BY <1>1, <2>1, <2>2, TurnKeeps
<1> QED BY <1>3, <1>4, <1>5

(* Every step keeps both invariants. *)
LEMMA WalkStep == BaseInv /\ OdomInv /\ [Next]_vars => (BaseInv /\ OdomInv)'
<1> SUFFICES ASSUME BaseInv, OdomInv, [Next]_vars PROVE BaseInv' /\ OdomInv'
  OBVIOUS
<1>1. CASE OdomLifecycle \/ Samples \/ Attitude \/ Timer
  <2>1. BaseInv'
    BY <1>1, RestKeepsBase
    DEF OdomLifecycle, Samples, Attitude, Timer, AroundOdom, baseVars
  <2> QED BY <1>1, <2>1, LifecycleKeeps, SamplesKeep, AttitudeKeeps, TimerKeeps
<1>2. CASE Perception \/ Process
  <2>1. BaseInv'
    BY <1>2, RestKeepsBase
    DEF Perception, Process, Sighting, Costmap, ShutDown, Destroy
  <2> QED BY <1>2, <2>1, OdomStays DEF Perception, Process, AroundBase
<1>3. CASE UNCHANGED vars
  BY <1>3, RestKeepsBase, OdomStays DEF vars, baseVars
<1> QED BY <1>1, <1>2, <1>3, TickKeeps, GoalKeeps DEF Next

(* The two invariants hold of the base under way, whatever the goals, the *)
(* objects, the clock, the budgets and the lifecycle of the odometry node. *)
THEOREM WalkInvariant == Spec => [](BaseInv /\ OdomInv)
<1>1. Init => BaseInv /\ OdomInv
  BY BaseInits, OdomInits
<1> QED BY <1>1, WalkStep, PTL DEF Spec

(* Type correctness of the whole walk. *)
THEOREM WalkTypes == Spec => []WalkTypeOK
<1>1. BaseInv /\ OdomInv => WalkTypeOK
  BY DEF BaseInv, OdomInv, WorldTypeOK, WalkTypeOK
<1> QED BY <1>1, WalkInvariant, PTL

(* BaseStopsWithGoal for every value of the constants: on success, on every *)
(* abort, cancel and throw of each of the three actions, the base was told to *)
(* stand. *)
THEOREM BaseStopsWithGoals == Spec => []BaseStopsWithGoal
<1>1. BaseInv => BaseStopsWithGoal
  BY DEF BaseInv, StandsStill, Stands, BaseStopsWithGoal
<1> QED BY <1>1, WalkInvariant, PTL

(* NewOdomFrame for every value of the constants: a transform is of a sample and *)
(* a start that its own configuration heard, and the frame does not jump between *)
(* two transforms (on_cleanup, latchLidarOrigin and onTimer). *)
THEOREM OdomFramesAreNew == Spec => NewOdomFrame
<1>1. ASSUME OdomInv, [Next]_vars, tf' # tf, scene = "odometry"
      PROVE  /\ tf'.stamp \in heard.stamps
             /\ IF source = "truth" THEN tf'.pose = was[tf'.stamp]
                ELSE /\ \E s \in heard.stamps : tf'.pose = From(was[tf'.stamp], was[s])
                     /\ heard.told =>
                          From(tf'.pose, tf.pose) = From(was[tf'.stamp], was[tf.stamp])
  <2>1. Timer
    BY <1>1
    DEF Next, vars, odomVars, Tick, OdomLifecycle, Configure, Activate, Deactivate,
        Cleanup, OdomShutdown, Samples, GroundTruth, LidarOdometry, Attitude,
        ImuSample, Client, GoalThread, GoalFails, AroundBase, Perception, Process
  <2>2. /\ timerOn /\ sample.have
        /\ tf' = [known |-> TRUE, stamp |-> sample.stamp, pose |-> sample.pose]
    BY <2>1 DEF Timer, OnTimer
  <2>3. /\ Configured /\ SampleIsTrue /\ StartIsTrue /\ TfIsTrue
        /\ source \in {"none", "truth", "lidar"}
        /\ origin \in Places \cup {Nowhere}
        /\ heard.stamps \subseteq 0..MaxClock
        /\ was \in [0..MaxClock -> Places]
    <3>1. clock \in 0..MaxClock /\ heard.stamps \subseteq 0..clock
      BY <1>1 DEF OdomInv, WorldTypeOK
    <3>2. heard.stamps \subseteq 0..MaxClock
      BY <3>1, MaxClockAssumption
    <3> QED BY <1>1, <3>2 DEF OdomInv, OdomTypeOK, WorldTypeOK
  <2>4. source # "none" /\ sample.stamp \in heard.stamps
    BY <2>2, <2>3 DEF Configured, SampleIsTrue
  <2>5. tf'.stamp = sample.stamp /\ tf'.pose = sample.pose
    BY <2>2
  <2>6. CASE source = "truth"
    BY <2>2, <2>4, <2>5, <2>3, <2>6 DEF SampleIsTrue
  <2>7. CASE source = "lidar"
    <3>1. origin # Nowhere /\ tf'.pose = From(was[tf'.stamp], origin)
      BY <2>2, <2>3, <2>5, <2>7 DEF SampleIsTrue
    <3>2. PICK s \in heard.stamps : origin = was[s]
      BY <2>3, <2>7, <3>1 DEF StartIsTrue
    <3>3. ASSUME heard.told
          PROVE  From(tf'.pose, tf.pose) = From(was[tf'.stamp], was[tf.stamp])
      <4>1. tf.stamp \in 0..MaxClock /\ tf.pose = From(was[tf.stamp], origin)
        BY <2>3, <2>7, <3>3 DEF TfIsTrue
      <4>2. was[tf'.stamp] \in Places /\ was[tf.stamp] \in Places /\ origin \in Places
        BY <2>3, <2>4, <2>5, <3>1, <4>1
      <4>3. \A p, q, o \in Places : From(From(p, o), From(q, o)) = From(p, q)
        BY FarAssumption DEF From, Places
      <4> QED BY <3>1, <4>1, <4>2, <4>3
    <3> QED BY <2>4, <2>5, <2>7, <3>1, <3>2, <3>3
  <2> QED BY <2>3, <2>4, <2>6, <2>7
<1> QED BY <1>1, WalkInvariant, PTL DEF Spec, NewOdomFrame

(***************************************************************************)
(* An approach does not walk blind                                         *)
(*                                                                         *)
(* The clock moves when every thread sleeps, so a transform comes to an    *)
(* approach before its tick, of a sample that is within its budget at that *)
(* time.  The stall watch is set again when something comes nearer; nothing *)
(* does unless a transform came since the last measurement (LoopMeasures), *)
(* and the walk is not longer than the watch (LoopWalks).                  *)
(***************************************************************************)
(* The bounds and the distances are numbers, and no distance is boundless. *)
LEMMA Numbers ==
  ASSUME OdomTypeOK, WorldTypeOK
  PROVE  /\ clock \in Int /\ tf.stamp \in Int /\ Lag \in Nat /\ Grace \in Nat
         /\ Grace <= Lag /\ 2 * MaxNudges <= Lag /\ MaxNudges \in Nat
         /\ SourceTimeout \in Nat \ {0} /\ StallTime \in Nat /\ Timeout \in Nat
         /\ RemainingHere \in Int /\ RemainingHere < Boundless
         /\ Boundless \in Int
<1>1. /\ Grace \in Nat /\ MaxNudges \in Nat /\ StallTime \in Nat /\ Timeout \in Nat
      /\ ObjectAt \in Nat /\ TargetX \in Nat /\ SourceTimeout \in Nat \ {0}
      /\ Far \in Nat
  BY LimitsAssumption, GoalNumbersAssumption, SourceTimeoutAssumption, FarAssumption
<1>2. clock \in Int /\ tf.stamp \in Int
  BY MaxClockAssumption DEF OdomTypeOK, WorldTypeOK
<1>3. tf.pose.at \in -Far - 1..Far /\ tf.pose.side \in -2..2
  BY <1>1 DEF OdomTypeOK, Relative, Nowhere
<1>4. Lag \in Nat /\ Grace <= Lag /\ 2 * MaxNudges <= Lag
  BY <1>1 DEF Lag, Longer
<1>5. RemainingHere \in Int /\ RemainingHere <= ObjectAt + TargetX + Far + 3
  BY <1>1, <1>3 DEF RemainingHere, AheadOf, AsideHere, Magnitude
<1> QED BY <1>1, <1>2, <1>4, <1>5, BoundlessAssumption DEF Boundless

(* What was seen of the object's kind is true, so the approach measures right. *)
LEMMA SeenAside ==
  ASSUME SightInv, seen.known
  PROVE  AsideOf = AsideHere /\ Remaining = RemainingHere
BY DEF SightInv, AsideOf, AsideHere, Remaining, RemainingHere

(* What is known from the transform stays while the transform does. *)
LEMMA SameSight ==
  ASSUME UNCHANGED <<tf, isSurface>>
  PROVE  /\ ArrivedHere' <=> ArrivedHere
         /\ RemainingHere' = RemainingHere
         /\ \A t : Young(t)' <=> Young(t)
<1>1. AheadOf' = AheadOf /\ AsideHere' = AsideHere
  BY DEF AheadOf, AsideHere
<1> QED BY <1>1 DEF ArrivedHere, RemainingHere, Young

(* While a goal's thread has its goal in hand, the others' have none. *)
LEMMA OthersIdle ==
  ASSUME BaseInv, NEW g \in Goals, goal[g].pc \in Moving
  PROVE  \A h \in Goals \ {g} : goal[h].pc = "none"
BY DEF BaseInv, OneGoal, Moving

(* Nothing is said of other goals. *)
LEMMA IdleKnows ==
  \A r : r.kind # "approach" \/ r.pc \in {"none", "ending"} => Knows(r)
BY DEF Knows

(* A goal's turn keeps the invariant if the record it leaves is right. *)
LEMMA TurnKnows ==
  ASSUME BaseInv, SightInv, NEW g \in Goals, goal[g].pc \in Moving,
         UNCHANGED <<clock, odomVars, scene, isSurface, seen>>,
         NEW r, goal' = [goal EXCEPT ![g] = r], Knows(r)'
  PROVE  SightInv'
<1>1. goal'[g] = r /\ \A h \in Goals \ {g} : goal'[h] = goal[h]
  BY DEF BaseInv, GoalsTyped
<1>2. \A h \in Goals \ {g} : Knows(goal[h])'
  BY <1>1, OthersIdle DEF Knows
<1>3. \A h \in Goals : Knows(goal[h])'
  BY <1>1, <1>2
<1>4. scene = "walk"
  BY DEF SightInv, Moving
<1> QED BY <1>3, <1>4 DEF SightInv, odomVars

(* A record stays right while time, transform and velocity stay. *)
LEMMA FrameKnows ==
  ASSUME NEW r, Knows(r), UNCHANGED <<clock, cmd, tf, isSurface>>,
         up' \in {up, FALSE}
  PROVE  Knows(r)'
<1>1. LoopMeasures(r) => LoopMeasures(r)'
  BY SameSight DEF LoopMeasures, Begun
<1>2. LoopWalks(r) => LoopWalks(r)'
  BY SameSight DEF LoopWalks, Begun
<1>3. Settles(r) => Settles(r)'
  BY SameSight DEF Settles
<1>4. InTime(r) => InTime(r)'
  BY DEF InTime
<1> QED BY <1>1, <1>2, <1>3, <1>4 DEF Knows

(* What is not a goal's, and neither time nor transform, keeps the invariant. *)
LEMMA RestKnows ==
  ASSUME SightInv, UNCHANGED <<clock, goal, cmd, tf, scene, isSurface>>,
         up' \in {up, FALSE},
         seen'.known => seen' = seen \/ seen'.surface = isSurface,
         scene = "walk" /\ sample'.have => sample'.advanced = sample'.stamp
  PROVE  SightInv'
<1>1. \A g \in Goals : Knows(goal[g])'
  <2>1. TAKE g \in Goals
  <2>2. PICK r : r = goal[g]
    OBVIOUS
  <2>3. Knows(r)'
    BY <2>2, FrameKnows DEF SightInv
  <2>4. goal'[g] = r
    BY <2>2
  <2> QED BY <2>3, <2>4 DEF Knows, InTime, LoopMeasures, LoopWalks, Settles, Begun
<1> QED BY <1>1 DEF SightInv

(* A walk's samples are stored at their stamp (noteSample). *)
LEMMA SamplesKnow ==
  ASSUME OdomInv, SightInv, Samples
  PROVE  SightInv'
<1>1. UNCHANGED <<clock, base, baseVars, scene, isSurface, was, tf>>
  BY DEF Samples, AroundOdom, GroundTruth, LidarOdometry
<1>2. PICK stamp \in Stamps : \E where : sample' \in {sample, Noted(stamp, where)}
  BY DEF Samples, GroundTruth, LidarOdometry
<1>3. scene = "walk" => stamp = clock
  BY <1>2 DEF Stamps
<1>4. scene = "walk" /\ sample'.have => sample'.advanced = sample'.stamp
  BY <1>2, <1>3 DEF SightInv, Noted
<1> QED BY <1>1, <1>4, RestKnows DEF baseVars, SightInv

(* A transform that comes before the tick is within its budget (onTimer). *)
LEMMA TimerKnows ==
  ASSUME BaseInv, OdomInv, SightInv, Timer
  PROVE  SightInv'
<1>1. /\ UNCHANGED <<clock, baseVars, scene, isSurface, was, sample>>
      /\ sample.have /\ Fresh /\ tf'.stamp = sample.stamp
      /\ scene = "walk" => Early
  BY DEF Timer, OnTimer, AroundOdom
<1>2. CASE scene # "walk"
  BY <1>1, <1>2 DEF SightInv, baseVars, Knows
<1>3. CASE scene = "walk"
  <2>1. /\ clock \in Int /\ Lag \in Nat /\ SourceTimeout \in Nat
        /\ sample.stamp \in Int
        /\ sample.advanced = sample.stamp
    BY <1>1, <1>3, Numbers, MaxClockAssumption DEF SightInv, OdomInv, OdomTypeOK
  <2>2. \A t \in Int : t <= clock => Young(t)'
    BY <1>1, <2>1 DEF Young, Fresh
  <2>3. ASSUME NEW g \in Goals PROVE Knows(goal[g])'
    <3>1. PICK r : r = goal[g] /\ r = goal'[g]
      BY <1>1 DEF baseVars
    <3>2. Knows(r)
      BY <3>1 DEF SightInv
    <3>3. r.pc \in {"loop", "settle", "pulse"} => r.tick # clock
      BY <1>1, <1>3, <3>1 DEF Early, Asleep
    <3>4. InTime(r) => InTime(r)'
      BY <1>1 DEF InTime
    <3>5. ASSUME InTime(r), r.pc \in {"loop", "settle", "pulse"}
          PROVE  /\ r.tick = clock - 1 /\ r.measured \in Int
                 /\ r.since \in Int /\ r.since <= clock
      BY <3>3, <3>5 DEF InTime
    <3>6. ASSUME InTime(r), r.pc = "loop", LoopMeasures(r) PROVE LoopMeasures(r)'
      <4>1. (r.measured <= Begun(r) /\ r.best = Boundless) \/ Young(r.measured + 1)'
        BY <2>1, <2>2, <3>5, <3>6 DEF LoopMeasures
      <4> QED BY <3>6, <4>1 DEF LoopMeasures, Begun
    <3>7. ASSUME InTime(r), r.pc = "loop", LoopWalks(r) PROVE LoopWalks(r)'
      <4>1. Young(r.since - Lag)'
        BY <2>1, <2>2, <3>5, <3>7
      <4> QED BY <1>1, <3>7, <4>1 DEF LoopWalks, baseVars
    <3>8. ASSUME InTime(r), r.pc \in {"settle", "pulse"}, Settles(r) PROVE Settles(r)'
      <4>1. Young(r.measured + 1)'
        BY <2>1, <2>2, <3>5, <3>8 DEF Settles
      <4> QED BY <3>8, <4>1 DEF Settles
    <3>9. Knows(r)'
      BY <3>2, <3>4, <3>6, <3>7, <3>8 DEF Knows
    <3> QED BY <3>1, <3>9 DEF Knows, InTime, LoopMeasures, LoopWalks, Settles, Begun
  <2> QED BY <1>1, <2>3 DEF SightInv, baseVars
<1> QED BY <1>2, <1>3

(* Time passes for threads that sleep. *)
LEMMA TickKnows ==
  ASSUME OdomInv, SightInv, Tick
  PROVE  SightInv'
<1>1. /\ UNCHANGED <<odomVars, baseVars, scene, isSurface>> /\ clock' = clock + 1
      /\ \A g \in Goals : Asleep(g)
  BY DEF Tick
<1>2. clock \in Int
  BY Numbers DEF OdomInv
<1>3. ASSUME NEW g \in Goals PROVE Knows(goal[g])'
  <2>1. PICK r : r = goal[g] /\ r = goal'[g]
    BY <1>1 DEF baseVars
  <2>2. Knows(r)
    BY <2>1 DEF SightInv
  <2>3. r.pc \in {"loop", "settle", "pulse"} => r.tick = clock
    BY <1>1, <2>1 DEF Asleep
  <2>4. r.pc \in {"loop", "settle", "pulse"} /\ InTime(r) => InTime(r)'
    BY <1>1, <1>2, <2>3 DEF InTime
  <2>5. UNCHANGED <<tf, isSurface, up, cmd>>
    BY <1>1 DEF odomVars, baseVars
  <2>6. LoopMeasures(r) => LoopMeasures(r)'
    BY <2>5, SameSight DEF LoopMeasures, Begun
  <2>7. LoopWalks(r) => LoopWalks(r)'
    BY <2>5, SameSight DEF LoopWalks, Begun
  <2>8. Settles(r) => Settles(r)'
    BY <2>5, SameSight DEF Settles
  <2>9. Knows(r)'
    BY <2>2, <2>4, <2>6, <2>7, <2>8 DEF Knows
  <2> QED BY <2>1, <2>9 DEF Knows, InTime, LoopMeasures, LoopWalks, Settles, Begun
<1> QED BY <1>1, <1>3 DEF SightInv, odomVars, baseVars

(* The turn of a retreat or a step clear. *)
LEMMA OtherTurnKnows ==
  ASSUME BaseInv, SightInv, NEW g \in Goals, Turn(g), goal[g].kind # "approach",
         UNCHANGED <<clock, odomVars, scene, isSurface, seen>>
  PROVE  SightInv'
<1>1. PICK r : goal' = [goal EXCEPT ![g] = r] /\ r.kind = goal[g].kind
  BY DEF Turn
<1>2. Knows(r)'
  BY <1>1 DEF Knows
<1>3. goal[g].pc \in Moving
  BY DEF Turn
<1> QED BY <1>1, <1>2, <1>3, TurnKnows

(* The end of a goal. *)
LEMMA EndKnows ==
  ASSUME BaseInv, SightInv, NEW g \in Goals, goal[g].pc \in Moving, NEW s,
         Ends(g, s),
         UNCHANGED <<clock, odomVars, scene, isSurface, seen>>
  PROVE  SightInv'
<1>1. PICK r : /\ r = [NoGoal EXCEPT !.kind = goal[g].kind, !.state = s, !.pc = "ending"]
               /\ goal' = [goal EXCEPT ![g] = r]
  BY DEF Ends, Set
<1>2. r.pc = "ending"
  BY <1>1 DEF NoGoal
<1>3. Knows(r)'
  BY <1>2 DEF Knows
<1> QED BY <1>1, <1>3, TurnKnows

(* An approach begins with a measurement of now. *)
LEMMA BeginKnows ==
  ASSUME BaseInv, OdomInv, SightInv, NEW g \in Goals, Begin(g),
         UNCHANGED <<clock, odomVars, scene, isSurface, seen>>
  PROVE  SightInv'
<1>1. /\ GoalRecord(goal[g]) /\ goal[g].pc = "begin" /\ Knows(goal[g])
      /\ UNCHANGED up
      /\ goal[g].pc \in Moving
  BY DEF BaseInv, GoalsTyped, Begin, SightInv, restOfBase, Moving
<1>2. CASE Ends(g, "aborted")
  BY <1>1, <1>2, EndKnows
<1>3. CASE ~Ends(g, "aborted")
  <2>1. PICK u, r : /\ r = [goal[g] EXCEPT !.pc = "loop", !.tick = clock - 1,
                              !.deadline = clock + Timeout, !.measured = clock,
                              !.since = clock, !.start = tf.pose.at, !.usable = u]
                    /\ Set(g, r)
    BY <1>3 DEF Begin
  <2>2. /\ r.pc = "loop" /\ r.kind = goal[g].kind /\ r.tick = clock - 1
        /\ r.deadline = clock + Timeout /\ r.measured = clock /\ r.since = clock
        /\ r.best = goal[g].best
    BY <1>1, <2>1 DEF GoalRecord, NoGoal
  <2>3. /\ clock \in Int /\ Timeout \in Nat /\ Lag \in Nat /\ StallTime \in Nat
        /\ Boundless \in Int
    BY Numbers DEF OdomInv
  <2>4. Begun(r) = clock
    BY <2>2, <2>3 DEF Begun
  <2>5. r.kind = "approach" => r.best = Boundless
    BY <1>1, <2>2 DEF Knows
  <2>6. r.kind = "approach" => InTime(r)'
    BY <2>2, <2>3, <2>5 DEF InTime
  <2>7. r.kind = "approach" => LoopMeasures(r)'
    BY <2>2, <2>3, <2>4, <2>5 DEF LoopMeasures, Begun
  <2>8. r.kind = "approach" => LoopWalks(r)'
    BY <2>2, <2>3, <2>4, <2>5 DEF LoopWalks, Begun
  <2>9. Knows(r)'
    BY <2>2, <2>6, <2>7, <2>8 DEF Knows
  <2> QED BY <1>1, <2>1, <2>9, TurnKnows DEF Set
<1> QED BY <1>2, <1>3

(* A blind tick stops the base, and is within the grace. *)
LEMMA BlindKnows ==
  ASSUME BaseInv, OdomInv, SightInv, NEW g \in Goals, goal[g].kind = "approach",
         Awake(g, "loop"), BlindTick(g),
         UNCHANGED <<clock, odomVars, scene, isSurface, seen, up>>
  PROVE  SightInv'
<1>1. /\ GoalRecord(goal[g]) /\ goal[g].pc = "loop" /\ goal[g].pc \in Moving
      /\ InTime(goal[g]) /\ LoopMeasures(goal[g]) /\ LoopWalks(goal[g])
      /\ goal[g].tick < clock
  BY DEF BaseInv, GoalsTyped, SightInv, Knows, Awake, Moving
<1>2. CASE Ends(g, "aborted")
  BY <1>1, <1>2, EndKnows
<1>3. CASE ~Ends(g, "aborted")
  <2>1. PICK r : /\ r = [goal[g] EXCEPT !.pc = "loop", !.tick = clock]
                 /\ goal' = [goal EXCEPT ![g] = r]
    BY <1>3 DEF BlindTick, Sleeps, Set
  <2>2. /\ r.pc = "loop" /\ r.tick = clock
        /\ r.measured = goal[g].measured /\ r.best = goal[g].best
        /\ r.since = goal[g].since /\ r.deadline = goal[g].deadline
    BY <1>1, <2>1 DEF GoalRecord, NoGoal
  <2>3. ~Blind(g) /\ (up => cmd' = Halt) /\ UNCHANGED <<tf, isSurface>>
    BY <1>3 DEF BlindTick, Publish, odomVars
  <2>4. clock \in Int /\ Lag \in Nat /\ Grace \in Nat /\ Grace <= Lag
    BY Numbers DEF OdomInv
  <2>5. InTime(r)'
    BY <1>1, <2>2, <2>4 DEF InTime
  <2>6. LoopMeasures(r)'
    <3>1. r.tick <= r.measured + Lag
      BY <1>1, <2>2, <2>3, <2>4 DEF Blind, InTime
    <3>2. r.measured <= r.tick \/ (r.best = Boundless /\ r.measured <= Begun(r))
      BY <1>1, <2>2, <2>4 DEF LoopMeasures, InTime, Begun
    <3>3. IF r.best = Boundless
            THEN r.measured <= Begun(r) \/ ArrivedHere \/ Young(r.measured + 1)
            ELSE r.best <= RemainingHere \/ Young(r.measured + 1)
      BY <1>1, <2>2 DEF LoopMeasures, Begun
    <3> QED BY <2>3, <3>1, <3>2, <3>3, SameSight DEF LoopMeasures, Begun
  <2>7. LoopWalks(r)'
    BY <1>1, <2>2, <2>3, SameSight DEF LoopWalks, Begun
  <2>8. Knows(r)'
    BY <2>2, <2>5, <2>6, <2>7 DEF Knows
  <2> QED BY <1>1, <2>1, <2>8, TurnKnows
<1> QED BY <1>2, <1>3

(* A tick that closes: nearer than before, or not for longer than the watch. *)
LEMMA ClosingKnows ==
  ASSUME BaseInv, OdomInv, SightInv, NEW g \in Goals, goal[g].kind = "approach",
         Awake(g, "loop"), ObjectKnown,
         PlanApproach(AheadOf, AsideOf).state = "closing", ClosingTick(g),
         UNCHANGED <<clock, odomVars, scene, isSurface, seen, up>>
  PROVE  SightInv'
<1>1. /\ GoalRecord(goal[g]) /\ goal[g].pc = "loop" /\ goal[g].pc \in Moving
      /\ InTime(goal[g]) /\ LoopMeasures(goal[g]) /\ LoopWalks(goal[g])
      /\ goal[g].tick < clock
  BY DEF BaseInv, GoalsTyped, SightInv, Knows, Awake, Moving
<1>2. CASE StopAndAbort(g)
  BY <1>1, <1>2, EndKnows DEF StopAndAbort
<1>3. CASE ~StopAndAbort(g)
  <2>1. Remaining = RemainingHere /\ ~ArrivedHere
    BY SeenAside DEF ObjectKnown, ArrivedHere
  <2> DEFINE nearer == Remaining < goal[g].best
  <2>2. PICK q : q = [goal[g] EXCEPT !.measured = clock,
                   !.best = IF nearer THEN Remaining ELSE @,
                   !.since = IF nearer THEN clock ELSE @]
    OBVIOUS
  <2>3. (nearer \/ clock - goal[g].since <= StallTime) /\ Sleeps(g, q)
    <3>1. clock \in Int /\ StallTime \in Int /\ goal[g].since \in Int
      BY <1>1, Numbers DEF OdomInv, InTime
    <3> QED BY <1>3, <2>2, <3>1 DEF ClosingTick
  <2>4. PICK r : /\ r = [q EXCEPT !.pc = "loop", !.tick = clock]
                 /\ goal' = [goal EXCEPT ![g] = r]
    BY <2>3 DEF Sleeps, Set
  <2>5. /\ r.pc = "loop" /\ r.tick = clock /\ r.measured = clock
        /\ r.best = IF nearer THEN Remaining ELSE goal[g].best
        /\ r.since = IF nearer THEN clock ELSE goal[g].since
        /\ r.deadline = goal[g].deadline
    BY <1>1, <2>2, <2>4 DEF GoalRecord, NoGoal
  <2>6. UNCHANGED <<tf, isSurface>>
    BY DEF odomVars
  <2>7. /\ clock \in Int /\ Lag \in Nat /\ RemainingHere \in Int
        /\ RemainingHere < Boundless
        /\ StallTime \in Nat /\ Boundless \in Int /\ tf.stamp \in Int
        /\ SourceTimeout \in Nat
    BY Numbers DEF OdomInv
  <2>8. InTime(r)'
    BY <1>1, <2>1, <2>5, <2>7 DEF InTime
  <2>9. LoopMeasures(r)'
    <3>1. r.best # Boundless /\ r.best <= RemainingHere
      BY <1>1, <2>1, <2>5, <2>7 DEF InTime
    <3> QED BY <2>5, <2>6, <2>7, <3>1, SameSight DEF LoopMeasures, Begun
  <2>10. LoopWalks(r)'
    <3>1. CASE nearer
      <4>1. goal[g].measured <= Begun(goal[g]) \/ Young(goal[g].measured + 1)
        BY <1>1, <2>1, <2>7, <3>1 DEF LoopMeasures, InTime
      <4>2. clock <= goal[g].measured + Lag + 1
        BY <1>1, <2>7 DEF LoopMeasures, InTime
      <4>3. r.since = clock /\ r.tick = clock
        BY <2>5, <3>1
      <4>4. /\ Begun(r) = Begun(goal[g]) /\ Begun(r) \in Int
            /\ goal[g].measured \in Int
        BY <1>1, <2>5, Numbers DEF Begun, InTime, OdomInv
      <4>5. r.since <= Begun(r) + Lag + 1 \/ Young(r.since - Lag)
        BY <2>7, <4>1, <4>2, <4>3, <4>4 DEF Young
      <4> QED BY <2>6, <2>7, <4>3, <4>5, SameSight DEF LoopWalks, Begun
    <3>2. CASE ~nearer
      <4>1. r.since = goal[g].since /\ Begun(r) = Begun(goal[g])
        BY <2>5, <3>2 DEF Begun
      <4>2. r.since <= Begun(r) + Lag + 1 \/ Young(r.since - Lag)
        BY <1>1, <2>1, <4>1 DEF LoopWalks
      <4>3. r.tick <= r.since + StallTime
        BY <1>1, <2>3, <2>5, <2>7, <3>2 DEF InTime
      <4> QED BY <2>6, <4>2, <4>3, SameSight DEF LoopWalks, Begun
    <3> QED BY <3>1, <3>2
  <2>11. Knows(r)'
    BY <2>5, <2>8, <2>9, <2>10 DEF Knows
  <2> QED BY <1>1, <2>4, <2>11, TurnKnows
<1> QED BY <1>2, <1>3

(* An arrival is judged at the transform there is. *)
LEMMA ArrivedKnows ==
  ASSUME BaseInv, OdomInv, SightInv, NEW g \in Goals, goal[g].kind = "approach",
         Awake(g, "loop"), ObjectKnown,
         PlanApproach(AheadOf, AsideOf).state = "arrived",
         LeaveLoop(g, [goal[g] EXCEPT !.nudges = 0, !.measured = clock]),
         UNCHANGED <<clock, odomVars, scene, isSurface, seen, up>>
  PROVE  SightInv'
<1>1. /\ GoalRecord(goal[g]) /\ goal[g].pc = "loop" /\ goal[g].pc \in Moving
      /\ InTime(goal[g])
  BY DEF BaseInv, GoalsTyped, SightInv, Knows, Awake, Moving
<1>2. PICK r : /\ r = [[goal[g] EXCEPT !.nudges = 0, !.measured = clock]
                        EXCEPT !.pc = "settle", !.tick = clock]
               /\ goal' = [goal EXCEPT ![g] = r]
  BY DEF LeaveLoop, Set
<1>3. /\ r.pc = "settle" /\ r.tick = clock /\ r.measured = clock /\ r.nudges = 0
      /\ r.best = goal[g].best /\ r.since = goal[g].since
      /\ r.deadline = goal[g].deadline
  BY <1>1, <1>2 DEF GoalRecord, NoGoal
<1>4. clock \in Int /\ ArrivedHere /\ UNCHANGED <<tf, isSurface>>
  BY Numbers, SeenAside DEF OdomInv, ObjectKnown, ArrivedHere, odomVars
<1>5. InTime(r)' /\ Settles(r)'
  BY <1>1, <1>3, <1>4, SameSight DEF InTime, Settles
<1>6. Knows(r)'
  BY <1>3, <1>5 DEF Knows
<1> QED BY <1>1, <1>2, <1>6, TurnKnows

(* runApproach's tick. *)
LEMMA ApproachTickKnows ==
  ASSUME BaseInv, OdomInv, SightInv, NEW g \in Goals, ApproachTick(g),
         UNCHANGED <<clock, odomVars, scene, isSurface>>
  PROVE  SightInv'
<1>1. /\ goal[g].kind = "approach" /\ Awake(g, "loop") /\ goal[g].pc \in Moving
      /\ UNCHANGED <<seen, up>>
  BY DEF ApproachTick, restOfBase, Awake, Moving
<1>2. CASE StopAndAbort(g) \/ CancelledTick(g)
  BY <1>1, <1>2, EndKnows DEF StopAndAbort, CancelledTick
<1>3. CASE BlindTick(g)
  BY <1>1, <1>3, BlindKnows
<1>4. CASE /\ ObjectKnown /\ PlanApproach(AheadOf, AsideOf).state = "closing"
           /\ ClosingTick(g)
  BY <1>1, <1>4, ClosingKnows
<1>5. CASE /\ ObjectKnown
           /\ PlanApproach(AheadOf, AsideOf).state \notin {"closing", "overshot"}
           /\ LeaveLoop(g, [goal[g] EXCEPT !.nudges = 0, !.measured = clock])
  <2>1. PlanApproach(AheadOf, AsideOf).state = "arrived"
    <3> DEFINE drive == [Halt EXCEPT !.x = Axis(AheadOf - TargetX, TolX),
                                     !.y = Axis(AsideOf, TolY)]
    <3>1. PlanApproach(AheadOf, AsideOf) \in
            {[state |-> "overshot", drive |-> Halt],
             [state |-> "arrived", drive |-> Halt],
             [state |-> "closing", drive |-> drive]}
      BY LimitsAssumption, MeasuredIsInt DEF PlanApproach, OdomInv
    <3> HIDE DEF drive
    <3> QED BY <1>5, <3>1
  <2> QED BY <1>1, <1>5, <2>1, ArrivedKnows
<1> QED BY <1>2, <1>3, <1>4, <1>5 DEF ApproachTick

(* The judgement of the stopped robot: over, closed on again, or nudged. *)
LEMMA VerifyKnows ==
  ASSUME BaseInv, OdomInv, SightInv, NEW g \in Goals, Verify(g),
         UNCHANGED <<clock, odomVars, scene, isSurface>>
  PROVE  SightInv'
<1>1. /\ GoalRecord(goal[g]) /\ goal[g].pc = "settle" /\ goal[g].pc \in Moving
      /\ goal[g].kind = "approach" /\ InTime(goal[g]) /\ Settles(goal[g])
      /\ goal[g].tick = clock - 1 /\ UNCHANGED <<seen, up>>
  BY DEF BaseInv, GoalsTyped, SightInv, Knows, Verify, Awake, Moving, restOfBase,
       InTime
<1>2. /\ clock \in Int /\ Lag \in Nat /\ MaxNudges \in Nat /\ 2 * MaxNudges <= Lag
      /\ StallTime \in Nat /\ Boundless \in Int /\ tf.stamp \in Int
      /\ SourceTimeout \in Nat /\ goal[g].nudges \in 0..MaxNudges
      /\ UNCHANGED <<tf, isSurface>>
  BY <1>1, Numbers DEF OdomInv, GoalRecord, odomVars
<1>3. CASE Ends(g, "succeeded")
  BY <1>1, <1>3, EndKnows
<1>4. CASE /\ UNCHANGED cmd
           /\ Set(g, [goal[g] EXCEPT !.pc = "loop", !.tick = clock - 1,
                                     !.best = Boundless, !.since = clock])
  <2>1. PICK r : /\ r = [goal[g] EXCEPT !.pc = "loop", !.tick = clock - 1,
                                        !.best = Boundless, !.since = clock]
                 /\ goal' = [goal EXCEPT ![g] = r]
    BY <1>4 DEF Set
  <2>2. /\ r.pc = "loop" /\ r.tick = clock - 1 /\ r.best = Boundless
        /\ r.since = clock
        /\ r.measured = goal[g].measured /\ r.deadline = goal[g].deadline
    BY <1>1, <2>1 DEF GoalRecord, NoGoal
  <2>3. /\ r.measured \in Int /\ r.measured <= clock - 1
        /\ clock - 1 <= r.measured + Lag /\ (ArrivedHere \/ Young(r.measured + 1))
    BY <1>1, <1>2, <2>2 DEF InTime, Settles
  <2>4. InTime(r)'
    BY <1>1, <1>2, <2>2 DEF InTime
  <2>5. LoopMeasures(r)'
    BY <1>2, <2>2, <2>3, SameSight DEF LoopMeasures
  <2>6. LoopWalks(r)'
    <3>1. ArrivedHere \/ Young(r.since - Lag)
      BY <1>2, <2>2, <2>3 DEF Young
    <3>2. up => cmd = Halt
      BY <1>1 DEF BaseInv, BaseTypeOK, OneGoal, StandsStill, Stands
    <3> QED BY <1>1, <1>2, <1>4, <2>2, <3>1, <3>2, SameSight DEF LoopWalks
  <2>7. Knows(r)'
    BY <2>2, <2>4, <2>5, <2>6 DEF Knows
  <2> QED BY <1>1, <2>1, <2>7, TurnKnows
<1>5. CASE Set(g, [goal[g] EXCEPT !.pc = "pulse", !.nudges = @ + 1, !.tick = clock])
  <2>1. PICK r : /\ r = [goal[g] EXCEPT !.pc = "pulse", !.nudges = @ + 1, !.tick = clock]
                 /\ goal' = [goal EXCEPT ![g] = r]
    BY <1>5 DEF Set
  <2>2. /\ r.pc = "pulse" /\ r.tick = clock /\ r.nudges = goal[g].nudges + 1
        /\ r.measured = goal[g].measured /\ r.deadline = goal[g].deadline
        /\ r.best = goal[g].best /\ r.since = goal[g].since
    BY <1>1, <2>1 DEF GoalRecord, NoGoal
  <2>3. InTime(r)' /\ Settles(r)'
    BY <1>1, <1>2, <2>2, SameSight DEF InTime, Settles
  <2>4. Knows(r)'
    BY <2>2, <2>3 DEF Knows
  <2> QED BY <1>1, <2>1, <2>4, TurnKnows
<1> QED BY <1>3, <1>4, <1>5 DEF Verify

(* The end of a nudge. *)
LEMMA PulseKnows ==
  ASSUME BaseInv, OdomInv, SightInv, NEW g \in Goals, PulseEnds(g),
         goal[g].kind = "approach",
         UNCHANGED <<clock, odomVars, scene, isSurface>>
  PROVE  SightInv'
<1>1. /\ GoalRecord(goal[g]) /\ goal[g].pc = "pulse" /\ goal[g].pc \in Moving
      /\ InTime(goal[g]) /\ Settles(goal[g])
      /\ goal[g].tick = clock - 1 /\ UNCHANGED <<seen, up>>
  BY DEF BaseInv, GoalsTyped, SightInv, Knows, PulseEnds, Awake, Moving,
       restOfBase, InTime
<1>2. PICK r : /\ r = [goal[g] EXCEPT !.pc = "settle", !.tick = clock]
               /\ goal' = [goal EXCEPT ![g] = r]
  BY DEF PulseEnds, Set
<1>3. /\ r.pc = "settle" /\ r.tick = clock /\ r.nudges = goal[g].nudges
      /\ r.measured = goal[g].measured /\ r.deadline = goal[g].deadline
      /\ r.best = goal[g].best /\ r.since = goal[g].since
  BY <1>1, <1>2 DEF GoalRecord, NoGoal
<1>4. clock \in Int /\ r.nudges \in Int /\ UNCHANGED <<tf, isSurface>>
  BY <1>1, <1>3, LimitsAssumption, Numbers DEF OdomInv, GoalRecord, odomVars
<1>5. InTime(r)' /\ Settles(r)'
  BY <1>1, <1>3, <1>4, SameSight DEF InTime, Settles
<1>6. Knows(r)'
  BY <1>3, <1>5 DEF Knows
<1> QED BY <1>1, <1>2, <1>6, TurnKnows

(* Every turn of a goal's thread. *)
LEMMA GoalKnows ==
  ASSUME BaseInv, OdomInv, SightInv, NEW g \in Goals,
         GoalThread(g) \/ GoalFails(g), ~GoalReturns(g)
  PROVE  SightInv'
<1>1. UNCHANGED <<clock, odomVars, scene, isSurface>>
  BY DEF GoalThread, GoalFails, AroundBase, walkVars
<1>2. UNCHANGED restOfBase
  BY DEF GoalThread, GoalFails, Begin, ApproachTick, Verify, PulseEnds,
     RetreatTick, RetreatEnds, StepClearTick, StepClearEnds, GoalThrows
<1>3. GoalsTyped /\ OdomTypeOK
  BY DEF BaseInv, OdomInv
<1>4. UNCHANGED seen
  BY <1>2 DEF restOfBase
<1>5. CASE Begin(g)
  BY <1>1, <1>4, <1>5, BeginKnows
<1>6. CASE ApproachTick(g)
  BY <1>1, <1>6, ApproachTickKnows
<1>7. CASE Verify(g)
  BY <1>1, <1>7, VerifyKnows
<1>8. CASE PulseEnds(g) /\ goal[g].kind = "approach"
  BY <1>1, <1>8, PulseKnows
<1>9. CASE PulseEnds(g) /\ goal[g].kind # "approach"
  BY <1>1, <1>3, <1>4, <1>9, PulseTurns, OtherTurnKnows
<1>10. CASE GoalThrows(g)
  <2>1. goal[g].pc \in Moving /\ Ends(g, "aborted")
    BY <1>10 DEF GoalThrows, Moving
  <2> QED BY <1>1, <1>4, <2>1, EndKnows
<1>11. CASE RetreatTick(g) \/ RetreatEnds(g)
  <2>1. Turn(g) /\ goal[g].kind = "retreat"
    BY <1>3, <1>11, RetreatTurns, EndsTurn DEF RetreatTick, RetreatEnds
  <2> QED BY <1>1, <1>4, <2>1, OtherTurnKnows
<1>12. CASE StepClearTick(g) \/ StepClearEnds(g)
  <2>1. Turn(g) /\ goal[g].kind = "stepClear"
    BY <1>3, <1>12, StepClearTurns, EndsTurn DEF StepClearTick, StepClearEnds
  <2> QED BY <1>1, <1>4, <2>1, OtherTurnKnows
<1> QED BY <1>5, <1>6, <1>7, <1>8, <1>9, <1>10, <1>11, <1>12 DEF GoalThread,
     GoalFails

(* A goal's client, and runGuarded's last lines. *)
LEMMA AroundKnows ==
  ASSUME BaseInv, OdomInv, SightInv, NEW g \in Goals,
         Client(g) \/ (GoalThread(g) /\ GoalReturns(g))
  PROVE  SightInv'
<1>1. UNCHANGED <<clock, odomVars, scene, isSurface>>
  BY DEF Client, GoalThread, AroundBase, walkVars
<1>2. /\ DOMAIN goal = Goals /\ GoalRecord(goal[g]) /\ Knows(goal[g])
  BY DEF BaseInv, GoalsTyped, SightInv
<1>3. \E r : /\ goal' = [goal EXCEPT ![g] = r] /\ Knows(r)
             /\ UNCHANGED <<up, cmd, seen>>
             /\ r.pc = "none" \/ scene = "walk"
  <2>1. CASE \E kind \in Kinds : Accept(g, kind)
    <3>1. PICK kind \in Kinds : Accept(g, kind)
      BY <2>1
    <3>2. PICK r : /\ r = [NoGoal EXCEPT !.kind = kind, !.state = "executing", !.pc = "begin"]
                   /\ goal' = [goal EXCEPT ![g] = r]
      BY <3>1 DEF Accept
    <3>3. r.pc = "begin" /\ r.best = Boundless
      BY <3>2 DEF NoGoal
    <3>4. Knows(r)
      BY <3>3 DEF Knows
    <3>5. scene = "walk"
      BY <3>1 DEF Client, GoalThread, GoalReturns, Accept
    <3> QED BY <3>1, <3>2, <3>4, <3>5 DEF Accept
  <2>2. CASE scene = "walk" /\ Cancel(g)
    <3>1. PICK r : /\ r = [goal[g] EXCEPT !.state = "canceling"]
               /\ goal' = [goal EXCEPT ![g] = r]
      BY <2>2 DEF Cancel, Set
    <3>2. /\ r.kind = goal[g].kind /\ r.pc = goal[g].pc /\ r.tick = goal[g].tick
          /\ r.deadline = goal[g].deadline /\ r.measured = goal[g].measured
          /\ r.since = goal[g].since /\ r.best = goal[g].best
          /\ r.nudges = goal[g].nudges
      BY <1>2, <3>1 DEF GoalRecord, NoGoal
    <3>3. Knows(r)
      BY <1>2, <3>2 DEF Knows, InTime, LoopMeasures, LoopWalks, Settles, Begun
    <3> QED BY <2>2, <3>1, <3>3 DEF Cancel, restOfBase
  <2>3. CASE GoalReturns(g)
    <3>1. PICK r : r = [goal[g] EXCEPT !.pc = "none"] /\ goal' = [goal EXCEPT ![g] = r]
      BY <2>3 DEF GoalReturns, Set
    <3>2. r.pc = "none"
      BY <1>2, <3>1 DEF GoalRecord, NoGoal
    <3> QED BY <2>3, <3>1, <3>2, IdleKnows DEF GoalReturns
  <2> QED BY <2>1, <2>2, <2>3 DEF Client
<1>4. PICK r : /\ goal' = [goal EXCEPT ![g] = r] /\ Knows(r)
               /\ UNCHANGED <<up, cmd, seen>>
               /\ r.pc = "none" \/ scene = "walk"
  BY <1>3
<1>5. ASSUME NEW h \in Goals PROVE Knows(goal[h])'
  <2>1. PICK q : q = goal'[h] /\ Knows(q)
    BY <1>2, <1>4 DEF SightInv
  <2>2. Knows(q)'
    BY <1>1, <1>4, <2>1, FrameKnows DEF odomVars
  <2> QED BY <2>1, <2>2 DEF Knows, InTime, LoopMeasures, LoopWalks, Settles, Begun
<1>6. scene # "walk" => \A h \in Goals : goal'[h].pc = "none"
  BY <1>2, <1>4 DEF SightInv
<1> QED BY <1>1, <1>4, <1>5, <1>6 DEF SightInv, odomVars

(* Every step keeps the invariant. *)
LEMMA SightStep ==
  ASSUME BaseInv, OdomInv, SightInv, [Next]_vars
  PROVE  SightInv'
<1>1. CASE OdomLifecycle
  <2>1. /\ UNCHANGED <<clock, baseVars, scene, isSurface, was, tf>> /\ scene = "odometry"
    BY <1>1 DEF OdomLifecycle, AroundOdom, Configure, Activate, Deactivate, Cleanup,
       OdomShutdown
  <2> QED BY <2>1, RestKnows DEF baseVars, SightInv
<1>2. CASE Attitude
  <2>1. UNCHANGED <<clock, baseVars, scene, isSurface, was, tf, sample>>
    BY <1>2 DEF Attitude, AroundOdom, ImuSample
  <2> QED BY <2>1, RestKnows DEF baseVars, SightInv
<1>3. CASE Perception \/ Process
  <2>1. /\ UNCHANGED <<clock, odomVars, walkVars, goal, cmd>> /\ up' \in {up, FALSE}
        /\ seen' = seen \/ seen'.surface = isSurface
    <3>1. CASE Process
      BY <3>1 DEF Process, AroundBase, ShutDown, Destroy
    <3>2. CASE Perception
      <4>1. UNCHANGED AroundBase /\ (Sighting(isSurface) \/ Costmap)
        BY <3>2 DEF Perception
      <4>2. CASE Sighting(isSurface)
        BY <4>1, <4>2 DEF Sighting, AroundBase
      <4>3. CASE Costmap
        BY <4>1, <4>3 DEF Costmap, AroundBase
      <4> QED BY <4>1, <4>2, <4>3
    <3> QED BY <1>3, <3>1, <3>2
  <2> QED BY <2>1, RestKnows DEF odomVars, walkVars, SightInv
<1>4. CASE UNCHANGED vars
  BY <1>4, RestKnows DEF vars, odomVars, baseVars, walkVars, SightInv
<1>5. ASSUME NEW g \in Goals, Client(g) \/ GoalThread(g) \/ GoalFails(g)
      PROVE  SightInv'
  <2>1. GoalFails(g) => ~GoalReturns(g)
    BY DEF GoalFails, GoalThrows, GoalReturns
  <2> QED BY <1>5, <2>1, GoalKnows, AroundKnows
<1> QED BY <1>1, <1>2, <1>3, <1>4, <1>5, SamplesKnow, TimerKnows, TickKnows DEF Next

(* It holds in the beginning. *)
LEMMA SightInits == Init => SightInv
<1> SUFFICES ASSUME Init PROVE SightInv
  OBVIOUS
<1>1. \A g \in Goals : goal[g] = NoGoal
  BY DEF Init, BaseInit
<1>2. NoGoal.pc = "none"
  BY DEF NoGoal
<1>3. seen = Unseen /\ sample = NoSample
  BY DEF Init, BaseInit, OdomInit
<1> QED BY <1>1, <1>2, <1>3, IdleKnows DEF SightInv, Unseen, NoSample

(* ApproachNotBlind for every value of the constants: no approach walks for *)
(* longer than Patience on a transform from before (basePose, objectInBase and *)
(* the stall watch of approach_action.cpp). *)
THEOREM ApproachesAreNotBlind == Spec => []ApproachNotBlind
<1>1. Init => SightInv
  BY SightInits
<1>2. (BaseInv /\ OdomInv) /\ SightInv /\ [Next]_vars => SightInv'
  BY SightStep
<1>3. ASSUME OdomInv, SightInv, NEW g \in Goals, goal[g].kind = "approach",
             goal[g].pc = "loop", up, cmd # Halt
      PROVE  \/ clock - tf.stamp <= Patience
             \/ clock - Begun(goal[g]) <= Patience
  <2>1. InTime(goal[g]) /\ LoopWalks(goal[g])
    BY <1>3 DEF SightInv, Knows
  <2>2. /\ clock \in Int /\ tf.stamp \in Int /\ Lag \in Nat /\ StallTime \in Nat
        /\ SourceTimeout \in Nat \ {0} /\ Timeout \in Nat
        /\ Patience = SourceTimeout + Lag + StallTime + 1
    BY <1>3, Numbers DEF OdomInv, Patience, Lag
  <2>3. clock <= goal[g].since + StallTime + 1
    BY <1>3, <2>1, <2>2 DEF InTime, LoopWalks
  <2>4. goal[g].since <= Begun(goal[g]) + Lag + 1 \/ Young(goal[g].since - Lag)
    BY <1>3, <2>1 DEF LoopWalks
  <2> QED BY <2>1, <2>2, <2>3, <2>4 DEF InTime, Begun, Young
<1>4. OdomInv /\ SightInv => ApproachNotBlind
  BY <1>3 DEF ApproachNotBlind, Begun
<1> QED BY <1>1, <1>2, <1>4, WalkInvariant, PTL DEF Spec
=============================================================================
