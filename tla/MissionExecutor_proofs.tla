----------------------- MODULE MissionExecutor_proofs -----------------------
(***************************************************************************)
(* What holds of the executor for any missions, plans, hands, clients and  *)
(* bounds: the types, the life of a claim, and that a mission, a lend and  *)
(* teleop use the robot one at a time.                                     *)
(*                                                                         *)
(* The argument is one inductive invariant.  A claim's thread is the only  *)
(* one that ends it (ClaimIsTheThreads), and whoever claims the robot      *)
(* found the other two uses ended (OneUser).  The types come first: one    *)
(* lemma for each thread's steps, with one case for each action.           *)
(***************************************************************************)
EXTENDS MissionExecutor, TLAPS

(* A leaf is one of its mission's steps. *)
LeafInPlan ==
    \A m \in Missions : leaf[m] # "none" => cur[m] \in 1..Len(Plan[m])

USE DEF TypeOK, ClaimTypeOK, TimerTypeOK, MissionTypeOK, LeafTypeOK,
        LendTypeOK, ArmTypeOK, StopTypeOK,
        claimVars, timerVars, missionVars, leafVars, lendVars, handVars,
        robotVars, armVars, stopVars, letGoFrame, tickFrame, stopFrame,
        stopGoalFrame, mainFrame, lendFrame, backFrame, teleopFrame,
        serverFrame, worldFrame
-----------------------------------------------------------------------------
(* A thread that goes to a phase is in one. *)
LEMMA GotoTyped ==
  ASSUME MissionTypeOK, NEW m \in Missions, NEW phase \in Phases,
         Goto(m, phase)
  PROVE  pc' \in [Missions -> Phases]
BY SMTT(12) DEF Goto

(* A mission that ends with an outcome and a cause has both. *)
LEMMA EndsTyped ==
  ASSUME MissionTypeOK, NEW m \in Missions, NEW code \in Outcomes,
         NEW cause \in Causes, Ends(m, code, cause)
  PROVE  outcome' \in [Missions -> Outcomes \X Causes]
<1>1. <<code, cause>> \in Outcomes \X Causes
  OBVIOUS
<1> QED BY <1>1, SMTT(12) DEF Ends

(* Updates of a stopper's record keep it one. *)
LEMMA StopRecord ==
  ASSUME NEW r \in Stops, NEW p \in StopPlaces,
         NEW h \in Missions \union {None}, NEW b \in BOOLEAN
  PROVE  /\ [r EXCEPT !.at = p] \in Stops
         /\ [r EXCEPT !.at = p, !.hit = h] \in Stops
         /\ [r EXCEPT !.at = p, !.ok = b] \in Stops
BY DEF Stops

(* So do the updates stopEverything() makes of its own record. *)
LEMMA StopperSet ==
  ASSUME TypeOK, NEW s \in Stoppers, NEW p \in StopPlaces,
         NEW h \in Missions \union {None}, NEW b \in BOOLEAN
  PROVE  /\ [stopper EXCEPT ![s].at = p] \in [Stoppers -> Stops]
         /\ [stopper EXCEPT ![s].at = p, ![s].hit = h] \in [Stoppers -> Stops]
         /\ [stopper EXCEPT ![s].at = p, ![s].ok = b] \in [Stoppers -> Stops]
<1>1. stopper \in [Stoppers -> Stops]
  OBVIOUS
<1>2. stopper[s] \in Stops
  BY <1>1
<1>3. /\ [stopper[s] EXCEPT !.at = p] \in Stops
      /\ [stopper[s] EXCEPT !.at = p, !.hit = h] \in Stops
      /\ [stopper[s] EXCEPT !.at = p, !.ok = b] \in Stops
  BY <1>2, StopRecord
<1> QED BY <1>1, <1>3, SMTT(12)

(* A new record for a stopper. *)
LEMMA StopperStarts ==
  ASSUME TypeOK, NEW s \in Stoppers, NEW c \in Causes
  PROVE  [stopper EXCEPT ![s] = [at |-> "asked", aim |-> running, hit |-> None,
                                 cause |-> c, ok |-> FALSE]]
            \in [Stoppers -> Stops]
<1>1. [at |-> "asked", aim |-> running, hit |-> None, cause |-> c, ok |-> FALSE]
         \in Stops
  <2>1. "asked" \in StopPlaces
    BY DEF StopPlaces
  <2> QED BY <2>1, SMTT(12) DEF Stops
<1> QED BY <1>1, SMTT(12)

(* Goals asked to stop are still goals. *)
LEMMA GoalsAsked ==
  ASSUME LeafTypeOK, CancelAll
  PROVE  goal' \in [Missions -> [1..MaxSteps -> GoalStates]]
<1>1. ASSUME NEW m \in Missions, NEW k \in 1..MaxSteps
      PROVE  Asked(goal[m][k]) \in GoalStates
  <2>1. goal[m] \in [1..MaxSteps -> GoalStates]
    OBVIOUS
  <2>2. goal[m][k] \in GoalStates
    BY <2>1
  <2> QED BY <2>2, SMTT(12) DEF Asked, GoalStates
<1> QED BY <1>1, SMTT(12) DEF CancelAll

(* A goal that changes its state is still one. *)
LEMMA GoalSet ==
  ASSUME LeafTypeOK, NEW m \in Missions, NEW k, NEW g \in GoalStates
  PROVE  [goal EXCEPT ![m][k] = g] \in [Missions -> [1..MaxSteps -> GoalStates]]
<1>1. goal[m] \in [1..MaxSteps -> GoalStates]
  OBVIOUS
<1>2. [goal[m] EXCEPT ![k] = g] \in [1..MaxSteps -> GoalStates]
  BY <1>1
<1> QED BY <1>2, Zenon

(* The steps of a plan. *)
LEMMA PlanSteps ==
  ASSUME NEW m \in Missions, NEW k \in 1..Len(Plan[m])
  PROVE  /\ k \in 1..MaxSteps
         /\ Plan[m][k] \in Steps
         /\ Plan[m][k].hand \in Hands
<1>1. Plan[m] \in Seq(Steps) /\ Len(Plan[m]) \in 0..MaxSteps /\ MaxSteps \in Nat
  BY MissionsAssumption
<1>2. Plan[m][k] \in Steps
  BY <1>1, SMTT(12)
<1>3. k \in 1..MaxSteps
  BY <1>1, SMTT(12)
<1>4. \A x \in Steps : x.hand \in Hands
  BY DEF Steps
<1> QED BY <1>2, <1>3, <1>4

(* A leaf that is halted leaves its goal and its hand well typed. *)
LEMMA HaltLeafTyped ==
  ASSUME TypeOK, LeafInPlan, NEW m \in Missions, HaltLeaf(m)
  PROVE  /\ leaf' \in [Missions -> {"none", "starting", "out"}]
         /\ goal' \in [Missions -> [1..MaxSteps -> GoalStates]]
         /\ unknown' \in SUBSET Hands
<1>1. leaf' \in [Missions -> {"none", "starting", "out"}]
  BY SMTT(12) DEF HaltLeaf
<1>2. CASE leaf[m] # "out"
  <2>1. goal' = goal /\ unknown' = unknown
    BY <1>2 DEF HaltLeaf
  <2> QED BY <1>1, <2>1
<1>3. CASE leaf[m] = "out"
  <2>1. cur[m] \in 1..Len(Plan[m])
    BY <1>3 DEF LeafInPlan
  <2>2. cur[m] \in 1..MaxSteps /\ Step(m).hand \in Hands
    BY <2>1, PlanSteps DEF Step
  <2>3. Asked(GoalAt(m)) \in GoalStates
    <3>1. goal[m] \in [1..MaxSteps -> GoalStates]
      OBVIOUS
    <3>2. goal[m][cur[m]] \in GoalStates
      BY <2>2, <3>1
    <3> QED BY <3>2 DEF Asked, GoalAt, GoalStates
  <2>4. goal' \in [Missions -> [1..MaxSteps -> GoalStates]]
    <3>1. goal' = [goal EXCEPT ![m][cur[m]] = Asked(GoalAt(m))]
      BY <1>3 DEF HaltLeaf, SetGoal
    <3> QED BY <2>3, <3>1, GoalSet
  <2>5. unknown' \in SUBSET Hands
    <3>1. unknown' = IF Step(m).skill # "pick" THEN unknown
                     ELSE (unknown \ {Step(m).hand})
                          \union ({Step(m).hand} \ holding)
      BY <1>3 DEF HaltLeaf
    <3> QED BY <2>2, <3>1
  <2> QED BY <1>1, <2>4, <2>5
<1> QED BY <1>2, <1>3
-----------------------------------------------------------------------------

(* The mission's thread and the thread that starts it. *)
LEMMA MissionStepTyped ==
  ASSUME TypeOK, NEW m \in Missions, LeafInPlan, MissionStep(m)
  PROVE  TypeOK'
<1>1. CASE StartMission(m)
  <2>1. stopRequested' \in BOOLEAN
    BY <1>1, Zenon DEF StartMission, Claimable, Ends, Goto
  <2>2. halting' \in BOOLEAN
    BY <1>1, Zenon DEF StartMission, Claimable, Ends, Goto
  <2>3. pc' \in [Missions -> Phases]
    <3>1. CASE Claimable(m)
      <4>1. Goto(m, "claimed")
        BY <1>1, <3>1 DEF StartMission
      <4>2. "claimed" \in Phases
        BY DEF Phases
      <4> QED BY <4>1, <4>2, GotoTyped
    <3>2. CASE ~Claimable(m)
      <4>1. Goto(m, "refused")
        BY <1>1, <3>2 DEF StartMission
      <4>2. "refused" \in Phases
        BY DEF Phases
      <4> QED BY <4>1, <4>2, GotoTyped
    <3> QED BY <3>1, <3>2
  <2>4. outcome' \in [Missions -> Outcomes \X Causes]
    <3>1. CASE Claimable(m)
      BY <1>1, <3>1 DEF StartMission
    <3>2. CASE ~Claimable(m)
      <4>1. PICK why \in {"NONE", "SHUTDOWN"} : Ends(m, "REJECTED", why)
        BY <1>1, <3>2, Zenon DEF StartMission
      <4>2. "REJECTED" \in Outcomes /\ why \in Causes
        BY <4>1 DEF Outcomes, Causes
      <4> QED BY <4>1, <4>2, EndsTyped
    <3> QED BY <3>1, <3>2
  <2> QED
    BY <1>1, <2>1, <2>2, <2>3, <2>4, SMTT(12)
    DEF Claimable, Ends, Goto, StartMission
<1>2. CASE ClearHalted(m)
  <2>1. halted' \in BOOLEAN
    BY <1>2, Zenon DEF ClearHalted, Goto
  <2> QED
    BY <1>2, <2>1, SMTT(12) DEF ClearHalted, Goto, Phases
<1>3. CASE SpawnWorker(m)
  BY <1>3, SMTT(12) DEF Goto, Phases, SpawnWorker
<1>4. CASE SpawnFails(m)
  <2>1. halted' \in BOOLEAN
    BY <1>4, Zenon DEF SpawnFails, Ends, Goto
  <2> QED
    BY <1>4, <2>1, SMTT(12)
    DEF Causes, Ends, Goto, Outcomes, Phases, SpawnFails
<1>5. CASE Execute(m)
  <2>1. trouble' \in {"none", "silent", "unfit"}
    BY <1>5, Zenon DEF Execute
  <2>2. timeoutOn' \in BOOLEAN
    BY <1>5, Zenon DEF Execute, Ends, Goto, ShuttingDown
  <2>3. deadmanFired' \in BOOLEAN
    BY <1>5, Zenon DEF Execute, Ends, Goto, ShuttingDown
  <2>4. pc' \in [Missions -> Phases]
    <3>1. CASE ShuttingDown
      <4>1. Goto(m, "closing")
        BY <1>5, <3>1 DEF Execute
      <4>2. "closing" \in Phases
        BY DEF Phases
      <4> QED BY <4>1, <4>2, GotoTyped
    <3>2. CASE ~ShuttingDown
      <4>1. Goto(m, "validating")
        BY <1>5, <3>2 DEF Execute
      <4>2. "validating" \in Phases
        BY DEF Phases
      <4> QED BY <4>1, <4>2, GotoTyped
    <3> QED BY <3>1, <3>2
  <2>5. outcome' \in [Missions -> Outcomes \X Causes]
    <3>1. CASE ShuttingDown
      <4>1. Ends(m, "REJECTED", "SHUTDOWN")
        BY <1>5, <3>1 DEF Execute
      <4>2. "REJECTED" \in Outcomes /\ "SHUTDOWN" \in Causes
        BY DEF Outcomes, Causes
      <4> QED BY <4>1, <4>2, EndsTyped
    <3>2. CASE ~ShuttingDown
      BY <1>5, <3>2 DEF Execute
    <3> QED BY <3>1, <3>2
  <2> QED
    BY <1>5, <2>1, <2>2, <2>3, <2>4, <2>5, SMTT(12) DEF Execute
<1>6. CASE RejectTree(m)
  BY <1>6, SMTT(12) DEF Causes, Ends, Goto, Outcomes, Phases, RejectTree
<1>7. CASE AcceptTree(m)
  <2>1. walks' \in BOOLEAN
    BY <1>7, Zenon DEF AcceptTree, Ends, Goto, NeedsBase, ShuttingDown
  <2>2. pc' \in [Missions -> Phases]
    <3>1. PICK phase \in {"closing", "authorising"} : Goto(m, phase)
      BY <1>7, Zenon DEF AcceptTree
    <3>2. phase \in Phases
      BY <3>1 DEF Phases
    <3> QED BY <3>1, <3>2, GotoTyped
  <2>3. outcome' \in [Missions -> Outcomes \X Causes]
    <3>1. \/ outcome' = outcome
          \/ Ends(m, "SUCCESS", "NONE")
          \/ Ends(m, "REJECTED", "SHUTDOWN")
      BY <1>7, Zenon DEF AcceptTree
    <3>2. {"SUCCESS", "REJECTED"} \subseteq Outcomes /\ {"NONE", "SHUTDOWN"} \subseteq Causes
      BY DEF Outcomes, Causes
    <3> QED BY <3>1, <3>2, EndsTyped
  <2>4. stopped' \in BOOLEAN
    BY <1>7, Zenon DEF AcceptTree, Ends, Goto, NeedsBase, ShuttingDown
  <2> QED
    BY <1>7, <2>1, <2>2, <2>3, <2>4, SMTT(12) DEF AcceptTree
<1>8. CASE TakeAuthority(m)
  <2>1. pc' \in [Missions -> Phases]
    <3>1. PICK phase \in {"acquiring", "ticking"} : Goto(m, phase)
      BY <1>8, Zenon DEF TakeAuthority
    <3>2. phase \in Phases
      BY <3>1 DEF Phases
    <3> QED BY <3>1, <3>2, GotoTyped
  <2>2. seen' \in SUBSET {"held", "doubtful"}
    <3>1. seen' \in {seen, (IF armsHeld THEN {"held"} ELSE {})
                          \union (IF Doubtful THEN {"doubtful"} ELSE {})}
      BY <1>8, Zenon DEF TakeAuthority
    <3>2. seen \subseteq {"held", "doubtful"}
      OBVIOUS
    <3> QED BY <3>1, <3>2, ZenonT(30)
  <2> QED
    BY <1>8, <2>1, <2>2, SMTT(12)
    DEF Doubtful, Goto, Limits, NeedsArms, TakeAuthority, TakesArms
<1>9. CASE AcquireArms(m)
  <2>1. pc' \in [Missions -> Phases]
    <3>1. PICK phase \in {"closing", "ticking"} : Goto(m, phase)
      BY <1>9, Zenon DEF AcquireArms
    <3>2. phase \in Phases
      BY <3>1 DEF Phases
    <3> QED BY <3>1, <3>2, GotoTyped
  <2>2. outcome' \in [Missions -> Outcomes \X Causes]
    <3>1. outcome' = outcome \/ Ends(m, "ERROR", "NONE")
      BY <1>9, Zenon DEF AcquireArms
    <3>2. "ERROR" \in Outcomes /\ "NONE" \in Causes
      BY DEF Outcomes, Causes
    <3> QED BY <3>1, <3>2, EndsTyped
  <2>3. armsHeld' \in BOOLEAN
    BY <1>9, Zenon DEF AcquireArms, Acquired, Ends, Goto, HandsAfter
  <2>4. armsTaken' \in BOOLEAN
    BY <1>9, Zenon DEF AcquireArms, Acquired, Ends, Goto, HandsAfter
  <2> QED
    BY <1>9, <2>1, <2>2, <2>3, <2>4, SMTT(12)
    DEF AcquireArms, Acquired, Ends, Goto, HandsAfter, Limits
<1>10. CASE Interrupt(m)
  BY <1>10, SMTT(12)
  DEF Causes, Goto, Interrupt, Interrupted, InterruptedAs, Outcomes, Phases,
      ShuttingDown
<1>11. CASE TreeSucceeds(m)
  BY <1>11, SMTT(12) DEF Causes, Ends, Goto, Outcomes, Phases, TreeSucceeds
<1>12. CASE TreeFails(m)
  BY <1>12, SMTT(12)
  DEF Causes, Goto, Interrupted, InterruptedAs, Outcomes, Phases, ShuttingDown,
      TreeFails
<1>13. CASE TreeThrows(m)
  BY <1>13, SMTT(12) DEF Causes, Ends, Goto, Outcomes, Phases, TreeThrows
<1>14. CASE HaltTree(m)
  <2>1. leaf' \in [Missions -> {"none", "starting", "out"}]
    BY <1>14, HaltLeafTyped DEF HaltTree
  <2>2. goal' \in [Missions -> [1..MaxSteps -> GoalStates]]
    BY <1>14, HaltLeafTyped DEF HaltTree
  <2>3. unknown' \in SUBSET Hands
    BY <1>14, HaltLeafTyped DEF HaltTree
  <2> QED
    BY <1>14, <2>1, <2>2, <2>3, SMTT(12)
    DEF Asked, GoalAt, Goto, HaltLeaf, HaltTree, Phases, SetGoal, Step
<1>15. CASE SayHalted(m)
  <2>1. halted' \in BOOLEAN
    BY <1>15, Zenon DEF SayHalted, Goto
  <2> QED
    BY <1>15, <2>1, SMTT(12) DEF Goto, Phases, SayHalted
<1>16. CASE SweepAfterHalt(m)
  <2>1. goal' \in [Missions -> [1..MaxSteps -> GoalStates]]
    BY <1>16, GoalsAsked DEF SweepAfterHalt
  <2> QED
    BY <1>16, <2>1, SMTT(12)
    DEF Asked, CancelAll, Goto, Phases, SweepAfterHalt
<1>17. CASE Finish(m)
  BY <1>17, SMTT(12) DEF Finish, Goto, Phases, Releasers
<1>18. CASE Finished(m)
  <2>1. halted' \in BOOLEAN
    BY <1>18, Zenon DEF Finished, Goto
  <2>2. timeoutOn' \in BOOLEAN
    BY <1>18, Zenon DEF Finished, Goto
  <2>3. walks' \in BOOLEAN
    BY <1>18, Zenon DEF Finished, Goto
  <2> QED
    BY <1>18, <2>1, <2>2, <2>3, SMTT(12) DEF Finished, Goto, Limits, Phases
<1>19. CASE EndClaim(m)
  <2>1. stopRequested' \in BOOLEAN
    BY <1>19, Zenon DEF EndClaim, Goto
  <2>2. halting' \in BOOLEAN
    BY <1>19, Zenon DEF EndClaim, Goto
  <2> QED
    BY <1>19, <2>1, <2>2, SMTT(12) DEF EndClaim, Goto, Phases
<1>20. CASE Report(m)
  BY <1>20, SMTT(12) DEF Goto, Phases, Report
<1> QED
  BY <1>1, <1>2, <1>3, <1>4, <1>5, <1>6, <1>7, <1>8, <1>9, <1>10, <1>11, <1>12,
     <1>13, <1>14, <1>15, <1>16, <1>17, <1>18, <1>19, <1>20
  DEF MissionStep

(* The leaf of the mission's step. *)
LEMMA LeafStepTyped ==
  ASSUME TypeOK, NEW m \in Missions, LeafInPlan, LeafStep(m)
  PROVE  TypeOK'
<1>1. CASE StartLeaf(m)
  <2>1. cur' \in [Missions -> 0..MaxSteps]
    <3>1. cur[m] + 1 \in 0..MaxSteps
      BY <1>1, MissionsAssumption, SMTT(12) DEF StartLeaf
    <3> QED BY <1>1, <3>1, SMTT(12) DEF StartLeaf
  <2> QED
    BY <1>1, <2>1, SMTT(12) DEF Acts, StartLeaf
<1>2. CASE SendGoal(m)
  <2>1. goal' \in [Missions -> [1..MaxSteps -> GoalStates]]
    <3>1. "sent" \in GoalStates
      BY DEF GoalStates
    <3> QED BY <1>2, <3>1, GoalSet DEF SendGoal, SetGoal
  <2> QED
    BY <1>2, <2>1, SMTT(12) DEF Acts, SendGoal, SetGoal
<1>3. CASE LeafNotSent(m)
  BY <1>3, SMTT(12) DEF Acts, LeafNotSent
<1>4. CASE LeafJudged(m)
  <2>1. holding' \in SUBSET Hands
    <3>1. {Step(m).hand} \subseteq Hands
      <4>1. leaf[m] = "out"
        BY <1>4, Zenon DEF LeafJudged
      <4>2. cur[m] \in 1..Len(Plan[m])
        BY <4>1, Zenon DEF LeafInPlan
      <4>3. Plan[m][cur[m]].hand \in Hands
        BY <4>2, PlanSteps, Zenon
      <4> QED BY <4>3, Zenon DEF Step
    <3>2. holding' \in {holding, holding \union {Step(m).hand},
                      holding \ {Step(m).hand}}
      BY <1>4, Zenon DEF LeafJudged
    <3> QED BY <3>1, <3>2, SMTT(12)
  <2>2. unknown' \in SUBSET Hands
    <3>1. unknown' \in {unknown, unknown \ {Step(m).hand}}
      BY <1>4, Zenon DEF LeafJudged
    <3> QED BY <3>1, SMTT(12)
  <2> QED
    BY <1>4, <2>1, <2>2, SMTT(12) DEF Acts, GoalAt, LeafJudged, Step
<1>5. CASE StepTimesOut(m)
  <2>1. leaf' \in [Missions -> {"none", "starting", "out"}]
    BY <1>5, HaltLeafTyped DEF StepTimesOut
  <2>2. goal' \in [Missions -> [1..MaxSteps -> GoalStates]]
    BY <1>5, HaltLeafTyped DEF StepTimesOut
  <2>3. unknown' \in SUBSET Hands
    BY <1>5, HaltLeafTyped DEF StepTimesOut
  <2> QED
    BY <1>5, <2>1, <2>2, <2>3, SMTT(12) DEF HaltLeaf, StepTimesOut
<1> QED
  BY <1>1, <1>2, <1>3, <1>4, <1>5 DEF LeafStep

(* letGoOfArms(), in any of its threads. *)
LEMMA LetGoStepTyped ==
  ASSUME TypeOK, NEW t \in Releasers, LetGoStep(t)
  PROVE  TypeOK'
<1>1. CASE LetGoLook(t)
  BY <1>1, SMTT(12) DEF LetGoLook, MayHold, Releasers
<1>2. CASE ReadFingers(t)
  BY <1>2, SMTT(12) DEF MayHold, ReadFingers, Releasers
<1>3. CASE ReleaseArms(t)
  <2>1. armsTaken' \in BOOLEAN
    <3>1. CASE armsTaken' = FALSE
      BY <3>1, Zenon
    <3>2. CASE armsTaken' = armsTaken
      BY <3>2, Zenon
    <3> QED BY <1>3, <3>1, <3>2, Zenon DEF ReleaseArms, Limp
  <2>2. closed' \in SUBSET Hands
    <3>1. closed' = {} \/ closed' = closed
      BY <1>3, Zenon DEF ReleaseArms, Limp
    <3> QED BY <3>1, SMTT(12)
  <2>3. moves' \in BOOLEAN
    <3>1. CASE moves' = FALSE
      BY <3>1, Zenon
    <3>2. CASE moves' = moves
      BY <3>2, Zenon
    <3> QED BY <1>3, <3>1, <3>2, Zenon DEF ReleaseArms, Limp
  <2>4. late' \in SUBSET Hands
    <3>1. late' = {} \/ late' = late
      BY <1>3, Zenon DEF ReleaseArms, Limp
    <3> QED BY <3>1, SMTT(12)
  <2> QED
    BY <1>3, <2>1, <2>2, <2>3, <2>4, SMTT(12) DEF ReleaseArms, Releasers
<1>4. CASE ClearHeld(t)
  <2>1. armsHeld' \in BOOLEAN
    BY <1>4, Zenon DEF ClearHeld
  <2> QED
    BY <1>4, <2>1, SMTT(12) DEF ClearHeld, Releasers
<1> QED
  BY <1>1, <1>2, <1>3, <1>4 DEF LetGoStep

(* stopEverything(), in any of its threads. *)
LEMMA StopStepTyped ==
  ASSUME TypeOK, NEW s \in Stoppers, StopStep(s)
  PROVE  TypeOK'
<1>1. CASE RaiseFlags(s)
  <2>1. stopRequested' \in BOOLEAN
    BY <1>1, Zenon DEF RaiseFlags, At
  <2>2. stopCause' \in Causes
    <3>1. stopper[s] \in Stops
      OBVIOUS
    <3>2. stopper[s].cause \in Causes
      BY <3>1 DEF Stops
    <3>3. stopCause' \in {stopCause, stopper[s].cause}
      BY <1>1, Zenon DEF RaiseFlags
    <3> QED BY <3>2, <3>3
  <2>3. halting' \in BOOLEAN
    BY <1>1, Zenon DEF RaiseFlags, At
  <2>4. stopper' \in [Stoppers -> Stops]
    <3>1. "cancel" \in StopPlaces
      BY DEF StopPlaces
    <3>2. stopper' = [stopper EXCEPT ![s].at = "cancel", ![s].hit = running]
      BY <1>1 DEF RaiseFlags
    <3>3. running \in Missions \union {None}
      OBVIOUS
    <3> QED BY <3>1, <3>2, <3>3, StopperSet
  <2> QED
    BY <1>1, <2>1, <2>2, <2>3, <2>4, SMTT(12) DEF RaiseFlags
<1>2. CASE CancelGoals(s)
  <2>1. goal' \in [Missions -> [1..MaxSteps -> GoalStates]]
    BY <1>2, GoalsAsked DEF CancelGoals
  <2>2. stopper' \in [Stoppers -> Stops]
    <3>1. "wait" \in StopPlaces
      BY DEF StopPlaces
    <3> QED BY <1>2, <3>1, StopperSet DEF CancelGoals
  <2> QED
    BY <1>2, <2>1, <2>2, SMTT(12) DEF CancelAll, CancelGoals
<1>3. CASE AwaitHalted(s)
  <2>1. goal' \in [Missions -> [1..MaxSteps -> GoalStates]]
    BY <1>3, GoalsAsked DEF AwaitHalted
  <2>2. stopper' \in [Stoppers -> Stops]
    <3> DEFINE ok == halted \/ stopper[s].hit = None
    <3>1. "settle" \in StopPlaces
      BY DEF StopPlaces
    <3>2. stopper' = [stopper EXCEPT ![s].at = "settle", ![s].ok = ok]
      BY <1>3 DEF AwaitHalted
    <3>3. ok \in BOOLEAN
      BY Zenon
    <3> HIDE DEF ok
    <3> QED BY <3>1, <3>2, <3>3, StopperSet
  <2> QED
    BY <1>3, <2>1, <2>2, SMTT(12) DEF AwaitHalted, CancelAll
<1>4. CASE SettleServers(s)
  <2>1. releasing' \in BOOLEAN
    BY <1>4, Zenon DEF SettleServers, At, Busy, InFlight, TakeBack
  <2>2. stopper' \in [Stoppers -> Stops]
    <3> DEFINE ok == stopper[s].ok /\ ~Busy
    <3>1. "note" \in StopPlaces
      BY DEF StopPlaces
    <3>2. stopper' = [stopper EXCEPT ![s].at = "note", ![s].ok = ok]
      BY <1>4 DEF SettleServers
    <3>3. ok \in BOOLEAN
      BY Zenon
    <3> HIDE DEF ok
    <3> QED BY <3>1, <3>2, <3>3, StopperSet
  <2> QED
    BY <1>4, <2>1, <2>2, SMTT(12)
    DEF At, Busy, InFlight, Limits, Releasers, SettleServers, TakeBack
<1>5. CASE NoteStopped(s)
  <2>1. stopper' \in [Stoppers -> Stops]
    <3>1. "idle" \in StopPlaces
      BY DEF StopPlaces
    <3> QED BY <1>5, <3>1, StopperSet DEF NoteStopped
  <2>2. stopped' \in BOOLEAN
    BY <1>5, Zenon DEF NoteStopped, At
  <2> QED
    BY <1>5, <2>1, <2>2, SMTT(12) DEF NoteStopped
<1> QED
  BY <1>1, <1>2, <1>3, <1>4, <1>5 DEF StopStep

(* onLend() after its claim. *)
LEMMA LendStepTyped ==
  ASSUME TypeOK, NEW c \in Clients, LendStep(c)
  PROVE  TypeOK'
<1>1. CASE TimeLend(c)
  BY <1>1, SMTT(12) DEF LendAt, LendGoes, LendPlaces, Limits, TimeLend
<1>2. CASE AcquireToLend(c)
  <2>1. releasing' \in BOOLEAN
    BY <1>2, Zenon
    DEF AcquireToLend, Acquired, LendAt, LendEnds, LendGoes, TakeBack
  <2>2. armsHeld' \in BOOLEAN
    BY <1>2, Zenon
    DEF AcquireToLend, Acquired, LendAt, LendEnds, LendGoes, TakeBack
  <2>3. armsTaken' \in BOOLEAN
    BY <1>2, Zenon
    DEF AcquireToLend, Acquired, LendAt, LendEnds, LendGoes, TakeBack
  <2> QED
    BY <1>2, <2>1, <2>2, <2>3, SMTT(12)
    DEF AcquireToLend, Acquired, LendAt, LendEnds, LendGoes, LendPlaces,
        Limits, Releasers, TakeBack
<1>3. CASE GrantLend(c)
  <2>1. stopped' \in BOOLEAN
    BY <1>3, Zenon DEF GrantLend, LendAt, LendEnds
  <2> QED
    BY <1>3, <2>1, SMTT(12) DEF GrantLend, LendAt, LendEnds, LendPlaces
<1>4. CASE LendOvertaken(c)
  BY <1>4, SMTT(12)
  DEF LendAt, LendGoes, LendOvertaken, LendPlaces, Releasers
<1>5. CASE RefuseOvertaken(c)
  BY <1>5, SMTT(12) DEF LendAt, LendEnds, LendPlaces, RefuseOvertaken
<1> QED
  BY <1>1, <1>2, <1>3, <1>4, <1>5 DEF LendStep

(* A skill server at one of its goals. *)
LEMMA ServerStepTyped ==
  ASSUME TypeOK, NEW m \in Missions, NEW k \in StepsOf(m), ServerStep(m, k)
  PROVE  TypeOK'
<1>1. CASE AnswerGoal(m, k)
  <2>1. goal' \in [Missions -> [1..MaxSteps -> GoalStates]]
    <3>1. PICK g \in {"active", "failed"} : goal' = [goal EXCEPT ![m][k] = g]
      BY <1>1, Zenon DEF AnswerGoal
    <3>2. g \in GoalStates
      BY <3>1 DEF GoalStates
    <3> QED BY <3>1, <3>2, GoalSet
  <2> QED
    BY <1>1, <2>1, SMTT(12) DEF AnswerGoal
<1>2. CASE MoveFingers(m, k)
  <2>1. closed' \in SUBSET Hands
    <3>1. Hand(m, k) \in Hands
      BY PlanSteps DEF StepsOf, Hand
    <3>2. closed' \in {closed, closed \union {Hand(m, k)}, closed \ {Hand(m, k)}}
      BY <1>2, SMTT(12) DEF MoveFingers
    <3> QED BY <3>1, <3>2, SMTT(12)
  <2> QED
    BY <1>2, <2>1, SMTT(12) DEF MoveFingers
<1>3. CASE EndGoal(m, k)
  <2>1. goal' \in [Missions -> [1..MaxSteps -> GoalStates]]
    <3>1. PICK g \in {"succeeded", "failed"} : goal' = [goal EXCEPT ![m][k] = g]
      BY <1>3, Zenon DEF EndGoal
    <3>2. g \in GoalStates
      BY <3>1 DEF GoalStates
    <3> QED BY <3>1, <3>2, GoalSet
  <2> QED
    BY <1>3, <2>1, SMTT(12) DEF EndGoal
<1> QED
  BY <1>1, <1>2, <1>3 DEF ServerStep

(* shutdown() after it told the mission to end. *)
LEMMA ShutdownStepTyped ==
  ASSUME TypeOK, ShutdownStep
  PROVE  TypeOK'
<1>1. CASE JoinWorker
  BY <1>1, SMTT(12) DEF JoinWorker
<1>2. CASE JoinReleaser
  BY <1>2, SMTT(12) DEF JoinReleaser, Releasers
<1>3. CASE GoDown
  BY <1>3, SMTT(12) DEF GoDown
<1> QED
  BY <1>1, <1>2, <1>3 DEF ShutdownStep

(* The world around the executor. *)
LEMMA WorldStepTyped ==
  ASSUME TypeOK, WorldStep
  PROVE  TypeOK'
<1>1. CASE BorrowerGrips
  BY <1>1, SMTT(12) DEF BorrowerGrips
<1>2. CASE PassDeadline
  BY <1>2, SMTT(12) DEF Limits, PassDeadline
<1>3. CASE PassLend
  BY <1>3, SMTT(12) DEF Limits, PassLend
<1>4. CASE FallSilent
  BY <1>4, SMTT(12) DEF FallSilent
<1>5. CASE LoseBalance
  BY <1>5, SMTT(12) DEF LoseBalance
<1>6. CASE DeactivateArm
  <2>1. armsTaken' = FALSE /\ closed' = {} /\ moves' = FALSE /\ late' = {}
    BY <1>6, Zenon DEF DeactivateArm, Limp
  <2>2. armsTaken' \in BOOLEAN /\ moves' \in BOOLEAN
    BY <2>1, Zenon
  <2> QED
    BY <1>6, <2>1, <2>2, SMTT(12) DEF DeactivateArm
<1> QED
  BY <1>1, <1>2, <1>3, <1>4, <1>5, <1>6 DEF WorldStep

(* A client's cancel. *)
LEMMA CancelMissionTyped ==
  ASSUME TypeOK, NEW m \in Missions, CancelMission(m)
  PROVE  TypeOK'
<1>1. halting' \in BOOLEAN
  BY Zenon DEF CancelMission
<1> QED
  BY <1>1, SMTT(12) DEF CancelMission

(* deadman(), up to the stop it asks for. *)
LEMMA DeadmanTyped ==
  ASSUME TypeOK, NEW s \in Deadmen, Deadman(s)
  PROVE  TypeOK'
<1>1. deadmanFired' \in BOOLEAN
  BY Zenon DEF Deadman, At, DeadmanTrips, TeleopDisabled
<1>2. stopper' \in [Stoppers -> Stops]
  <2> DEFINE why == IF trouble = "silent" THEN "DEADMAN" ELSE "ROBOT"
  <2>1. s \in Stoppers
    BY DEF Stoppers
  <2>2. why \in Causes
    BY DEF Causes
  <2>3. stopper' = [stopper EXCEPT ![s] = [at |-> "asked", aim |-> running,
                       hit |-> None, cause |-> why, ok |-> FALSE]]
    BY  DEF Deadman
  <2> HIDE DEF why
  <2> QED BY <2>1, <2>2, <2>3, StopperStarts
<1> QED
  BY <1>1, <1>2, SMTT(12) DEF At, Deadman, DeadmanTrips, TeleopDisabled

(* onLend()'s claim. *)
LEMMA ClaimLendTyped ==
  ASSUME TypeOK, NEW c \in Clients, ClaimLend(c)
  PROVE  TypeOK'
BY SMTT(12) DEF ClaimLend, LendGoes, LendPlaces, Lendable

(* A StopAll request. *)
LEMMA OnStopAllTyped ==
  ASSUME TypeOK, OnStopAll
  PROVE  TypeOK'
<1>1. stopper' \in [Stoppers -> Stops]
  <2>1. "operator" \in Stoppers /\ "NONE" \in Causes
    BY DEF Stoppers, Causes
  <2> QED BY <2>1, StopperStarts DEF OnStopAll
<1>2. stops' \in 0..MaxStops
  BY BoundsAssumption, SMTT(12) DEF OnStopAll
<1> QED
  BY <1>1, <1>2, SMTT(12) DEF At, OnStopAll, TeleopDisabled

(* watchdog() reads the deadline. *)
LEMMA WatchdogReadsTyped ==
  ASSUME TypeOK, WatchdogReads
  PROVE  TypeOK'
BY SMTT(12) DEF WatchdogReads

(* watchdog() tells the leaves to wind down. *)
LEMMA WatchdogFiresTyped ==
  ASSUME TypeOK, WatchdogFires
  PROVE  TypeOK'
<1>1. halting' \in BOOLEAN
  BY Zenon DEF WatchdogFires
<1> QED
  BY <1>1, SMTT(12) DEF WatchdogFires

(* shutdown() tells the mission to end. *)
LEMMA ShutdownTyped ==
  ASSUME TypeOK, Shutdown
  PROVE  TypeOK'
<1>1. halting' \in BOOLEAN
  BY Zenon DEF Shutdown
<1> QED
  BY <1>1, SMTT(12) DEF Shutdown

(* A client gives the arms back. *)
LEMMA GiveBackTyped ==
  ASSUME TypeOK, GiveBack
  PROVE  TypeOK'
<1>1. releasing' \in BOOLEAN
  BY Zenon DEF GiveBack, TakeBack
<1> QED
  BY <1>1, SMTT(12) DEF GiveBack, Limits, Releasers, TakeBack

(* checkLend() ends a lend. *)
LEMMA CheckLendTyped ==
  ASSUME TypeOK, CheckLend
  PROVE  TypeOK'
<1>1. releasing' \in BOOLEAN
  BY Zenon DEF CheckLend, TakeBack
<1> QED
  BY <1>1, SMTT(12) DEF CheckLend, Limits, Releasers, TakeBack

(* The releaser's end. *)
LEMMA ReleaserEndsTyped ==
  ASSUME TypeOK, ReleaserEnds
  PROVE  TypeOK'
<1>1. releasing' \in BOOLEAN
  BY Zenon DEF ReleaserEnds
<1> QED
  BY <1>1, SMTT(12) DEF ReleaserEnds

(* Teleop starts. *)
LEMMA TeleopOnTyped ==
  ASSUME TypeOK, TeleopOn
  PROVE  TypeOK'
<1>1. stopped' \in BOOLEAN
  BY Zenon DEF TeleopOn
<1> QED
  BY <1>1, SMTT(12) DEF TeleopOn

(* Teleop is told to stop. *)
LEMMA TeleopOffTyped ==
  ASSUME TypeOK, TeleopOff
  PROVE  TypeOK'
BY SMTT(12) DEF TeleopOff

(* The teleop ramp is over. *)
LEMMA TeleopStillTyped ==
  ASSUME TypeOK, TeleopStill
  PROVE  TypeOK'
BY SMTT(12) DEF TeleopStill
-----------------------------------------------------------------------------
HIDE DEF TypeOK, ClaimTypeOK, TimerTypeOK, MissionTypeOK, LeafTypeOK,
         LendTypeOK, ArmTypeOK, StopTypeOK,
         claimVars, timerVars, missionVars, leafVars, lendVars, handVars,
         robotVars, armVars, stopVars, letGoFrame, tickFrame, stopFrame,
         stopGoalFrame, mainFrame, lendFrame, backFrame, teleopFrame,
         serverFrame, worldFrame

(* No two of an executed mission, a lend and teleop at once. *)
OneUser ==
    /\ running # None /\ Mode[running] = "EXECUTE"
       => lentTo = None /\ teleop # "on"
    /\ lentTo # None => teleop # "on"

IInv == TypeOK /\ LeafInPlan /\ ClaimIsTheThreads /\ OneUser
-----------------------------------------------------------------------------
(* Every step keeps the types. *)
LEMMA NextTyped ==
  ASSUME TypeOK, LeafInPlan, [Next]_vars
  PROVE  TypeOK'
<1>1. CASE \E m \in Missions : MissionStep(m) \/ LeafStep(m) \/ CancelMission(m)
  BY <1>1, MissionStepTyped, LeafStepTyped, CancelMissionTyped
<1>2. CASE \E m \in Missions : \E k \in StepsOf(m) : ServerStep(m, k)
  BY <1>2, ServerStepTyped
<1>3. CASE \E t \in Releasers : LetGoStep(t)
  BY <1>3, LetGoStepTyped
<1>4. CASE \E s \in Deadmen : Deadman(s)
  BY <1>4, DeadmanTyped
<1>5. CASE \E s \in Stoppers : StopStep(s)
  BY <1>5, StopStepTyped
<1>6. CASE \E c \in Clients : ClaimLend(c) \/ LendStep(c)
  BY <1>6, ClaimLendTyped, LendStepTyped
<1>7. CASE OnStopAll \/ WatchdogReads \/ WatchdogFires \/ Shutdown \/ ShutdownStep
  BY <1>7, OnStopAllTyped, WatchdogReadsTyped, WatchdogFiresTyped,
     ShutdownTyped, ShutdownStepTyped
<1>8. CASE GiveBack \/ CheckLend \/ ReleaserEnds
  BY <1>8, GiveBackTyped, CheckLendTyped, ReleaserEndsTyped
<1>9. CASE TeleopOn \/ TeleopOff \/ TeleopStill \/ WorldStep
  BY <1>9, TeleopOnTyped, TeleopOffTyped, TeleopStillTyped, WorldStepTyped
<1>10. CASE Rest \/ UNCHANGED vars
  <2>1. UNCHANGED vars
    BY <1>10 DEF Rest
  <2> QED
    BY <2>1, SMTT(20)
    DEF vars, claimVars, timerVars, missionVars, leafVars, lendVars, handVars,
        robotVars, armVars, stopVars, TypeOK, ClaimTypeOK, TimerTypeOK,
        MissionTypeOK, LeafTypeOK, LendTypeOK, ArmTypeOK, StopTypeOK
<1> QED
  BY <1>1, <1>2, <1>3, <1>4, <1>5, <1>6, <1>7, <1>8, <1>9, <1>10 DEF Next
-----------------------------------------------------------------------------
(* The steps that leave the users of the robot, and the mission's thread,  *)
(* where they are.                                                         *)
Quiet == UNCHANGED <<running, pc, lentTo, teleop>>

(* The leaves, the servers and the world are among them. *)
LEMMA WorkIsQuiet ==
  /\ \A m \in Missions : LeafStep(m) \/ CancelMission(m) => Quiet
  /\ \A m \in Missions : \A k \in StepsOf(m) : ServerStep(m, k) => Quiet
  /\ WorldStep => Quiet
<1>1. ASSUME NEW m \in Missions PROVE LeafStep(m) => Quiet
  BY DEF LeafStep, StartLeaf, SendGoal, LeafNotSent, LeafJudged, StepTimesOut,
         tickFrame, claimVars, lendVars, Quiet
<1>2. ASSUME NEW m \in Missions PROVE CancelMission(m) => Quiet
  BY DEF CancelMission, lendVars, Quiet
<1>3. ASSUME NEW m \in Missions, NEW k \in StepsOf(m)
      PROVE  ServerStep(m, k) => Quiet
  BY DEF ServerStep, AnswerGoal, MoveFingers, EndGoal, serverFrame, claimVars,
         missionVars, lendVars, Quiet
<1>4. WorldStep => Quiet
  BY DEF WorldStep, BorrowerGrips, PassDeadline, PassLend, FallSilent,
         LoseBalance, DeactivateArm, worldFrame, claimVars, missionVars, Quiet
<1> QED BY <1>1, <1>2, <1>3, <1>4

(* So is everything the other threads do but a claim, a TakeBack or a turn *)
(* of teleop.                                                              *)
LEMMA ThreadsAreQuiet ==
  /\ \A t \in Releasers : LetGoStep(t) => Quiet
  /\ \A s \in Stoppers : RaiseFlags(s) \/ CancelGoals(s) \/ AwaitHalted(s)
                          \/ NoteStopped(s) => Quiet
  /\ \A c \in Clients : TimeLend(c) \/ GrantLend(c) \/ LendOvertaken(c)
                         \/ RefuseOvertaken(c) => Quiet
  /\ WatchdogReads \/ WatchdogFires \/ Shutdown \/ ShutdownStep => Quiet
  /\ ReleaserEnds \/ Rest \/ UNCHANGED vars => Quiet
<1>1. ASSUME NEW t \in Releasers PROVE LetGoStep(t) => Quiet
  BY DEF LetGoStep, LetGoLook, ReadFingers, ReleaseArms, ClearHeld, letGoFrame,
         claimVars, missionVars, lendVars, Quiet
<1>2. ASSUME NEW s \in Stoppers
      PROVE  RaiseFlags(s) \/ CancelGoals(s) \/ AwaitHalted(s) \/ NoteStopped(s)
             => Quiet
  BY DEF RaiseFlags, CancelGoals, AwaitHalted, NoteStopped, stopFrame,
         stopGoalFrame, claimVars, missionVars, Quiet
<1>3. ASSUME NEW c \in Clients
      PROVE  TimeLend(c) \/ GrantLend(c) \/ LendOvertaken(c) \/ RefuseOvertaken(c)
             => Quiet
  BY DEF TimeLend, GrantLend, LendOvertaken, RefuseOvertaken, lendFrame,
         claimVars, missionVars, Quiet
<1>4. WatchdogReads \/ WatchdogFires \/ Shutdown \/ ShutdownStep => Quiet
  BY DEF WatchdogReads, WatchdogFires, Shutdown, ShutdownStep, JoinWorker,
         JoinReleaser, GoDown, mainFrame, claimVars, missionVars, lendVars, Quiet
<1>5. ReleaserEnds \/ Rest \/ UNCHANGED vars => Quiet
  BY DEF ReleaserEnds, backFrame, lendFrame, Rest, vars, claimVars, missionVars,
         lendVars, Quiet
<1> QED BY <1>1, <1>2, <1>3, <1>4, <1>5

(* A lend that ends: TakeBack in any of its four callers. *)
LendEndsHere == lentTo' \in {lentTo, None} /\ UNCHANGED <<running, pc, teleop>>

LEMMA TakeBackEndsLend ==
  /\ \A s \in Stoppers : SettleServers(s) => LendEndsHere
  /\ \A c \in Clients : AcquireToLend(c) => LendEndsHere
  /\ GiveBack \/ CheckLend => LendEndsHere
<1>1. TakeBack => lentTo' \in {lentTo, None}
  BY DEF TakeBack
<1>2. ASSUME NEW s \in Stoppers PROVE SettleServers(s) => LendEndsHere
  BY <1>1 DEF SettleServers, stopFrame, claimVars, missionVars, LendEndsHere
<1>3. ASSUME NEW c \in Clients PROVE AcquireToLend(c) => LendEndsHere
  <2>1. AcquireToLend(c) => lentTo' \in {lentTo, None}
    BY <1>1, Zenon DEF AcquireToLend
  <2>2. AcquireToLend(c) => UNCHANGED <<running, pc, teleop>>
    BY DEF AcquireToLend, lendFrame, claimVars, missionVars
  <2> QED BY <2>1, <2>2 DEF LendEndsHere
<1>4. GiveBack \/ CheckLend => LendEndsHere
  BY <1>1 DEF GiveBack, CheckLend, backFrame, lendFrame, claimVars, missionVars,
              LendEndsHere
<1> QED BY <1>2, <1>3, <1>4

(* Teleop that ends, or is told to: by a stop, the deadman or a person. *)
TeleopEndsHere == /\ teleop' = "on" => teleop = "on"
                  /\ UNCHANGED <<running, pc, lentTo>>

LEMMA StopsEndTeleop ==
  /\ \A s \in Deadmen : Deadman(s) => TeleopEndsHere
  /\ OnStopAll \/ TeleopOff \/ TeleopStill => TeleopEndsHere
<1>1. ASSUME NEW s \in Deadmen PROVE Deadman(s) => TeleopEndsHere
  BY DEF Deadman, TeleopDisabled, stopFrame, claimVars, missionVars,
         TeleopEndsHere
<1>2. OnStopAll => TeleopEndsHere
  BY DEF OnStopAll, TeleopDisabled, stopFrame, claimVars, missionVars,
         TeleopEndsHere
<1>3. TeleopOff \/ TeleopStill => TeleopEndsHere
  BY DEF TeleopOff, TeleopStill, teleopFrame, lendFrame, lendVars, claimVars,
         missionVars, TeleopEndsHere
<1> QED BY <1>1, <1>2, <1>3

(* What is left are the claims: a client's, and teleop's. *)
LEMMA ClaimsOfOthers ==
  /\ \A c \in Clients : ClaimLend(c) =>
        /\ running = None /\ teleop # "on" /\ lentTo \in {None, c} /\ lentTo' = c
        /\ UNCHANGED <<running, pc, teleop>>
  /\ TeleopOn =>
        /\ running = None /\ lentTo = None /\ teleop' = "on"
        /\ UNCHANGED <<running, pc, lentTo>>
<1>1. ASSUME NEW c \in Clients, ClaimLend(c)
      PROVE  /\ running = None /\ teleop # "on" /\ lentTo \in {None, c}
             /\ lentTo' = c
             /\ UNCHANGED <<running, pc, teleop>>
  BY <1>1 DEF ClaimLend, Lendable, lendFrame, claimVars, missionVars
<1>2. ASSUME TeleopOn
      PROVE  /\ running = None /\ lentTo = None /\ teleop' = "on"
             /\ UNCHANGED <<running, pc, lentTo>>
  BY <1>2 DEF TeleopOn, teleopFrame, lendFrame, lendVars, claimVars, missionVars
<1> QED BY <1>1, <1>2

(* A mission's thread leaves the lend and teleop alone; it claims the robot *)
(* when nobody else uses it, and otherwise only gives it up.               *)
LEMMA ClaimsOfMissions ==
  ASSUME NEW m \in Missions, MissionStep(m)
  PROVE  /\ UNCHANGED <<lentTo, teleop>>
         /\ \/ running' \in {running, None}
            \/ running = None /\ running' = m /\ Claimable(m)
<1>1. UNCHANGED <<lentTo, teleop>>
  BY DEF MissionStep, StartMission, ClearHalted, SpawnWorker, SpawnFails, Execute,
         RejectTree, AcceptTree, TakeAuthority, AcquireArms, Interrupt,
         TreeSucceeds, TreeFails, TreeThrows, HaltTree, SayHalted, SweepAfterHalt, Finish,
         Finished, EndClaim, Report, tickFrame, lendVars
<1>2. \/ running' \in {running, None}
      \/ running = None /\ running' = m /\ Claimable(m)
  <2>1. StartMission(m) => running' = running
        \/ (running = None /\ running' = m /\ Claimable(m))
    <3>1. StartMission(m) /\ Claimable(m) => running = None /\ running' = m
      BY DEF StartMission, Claimable
    <3>2. ASSUME StartMission(m), ~Claimable(m)
          PROVE  running' = running /\ Goto(m, "refused")
      BY <3>2 DEF StartMission
    <3> QED BY <3>1, <3>2
  <2>2. SpawnFails(m) \/ EndClaim(m) => running' = None
    BY DEF SpawnFails, EndClaim
  <2>3. \/ StartMission(m) \/ SpawnFails(m) \/ EndClaim(m)
        \/ running' = running
    BY DEF MissionStep, ClearHalted, SpawnWorker, Execute, RejectTree,
           AcceptTree, TakeAuthority, AcquireArms, Interrupt, TreeSucceeds,
           TreeFails, TreeThrows, HaltTree, SayHalted, SweepAfterHalt,
           Finish, Finished, Report, tickFrame, claimVars
  <2> QED BY <2>1, <2>2, <2>3
<1> QED BY <1>1, <1>2

(* What the steps of Next do to the users of the robot, in five kinds. *)
LEMMA FiveKinds ==
  ASSUME [Next]_vars
  PROVE  \/ Quiet \/ LendEndsHere \/ TeleopEndsHere \/ TeleopOn
         \/ \E c \in Clients : ClaimLend(c)
         \/ \E m \in Missions : MissionStep(m)
<1>1. CASE \E m \in Missions : MissionStep(m) \/ LeafStep(m) \/ CancelMission(m)
  BY <1>1, WorkIsQuiet
<1>2. CASE \E m \in Missions : \E k \in StepsOf(m) : ServerStep(m, k)
  BY <1>2, WorkIsQuiet
<1>3. CASE \E t \in Releasers : LetGoStep(t)
  BY <1>3, ThreadsAreQuiet
<1>4. CASE \E s \in Deadmen : Deadman(s)
  BY <1>4, StopsEndTeleop
<1>5. CASE \E s \in Stoppers : StopStep(s)
  BY <1>5, ThreadsAreQuiet, TakeBackEndsLend DEF StopStep
<1>6. CASE \E c \in Clients : ClaimLend(c) \/ LendStep(c)
  BY <1>6, ThreadsAreQuiet, TakeBackEndsLend DEF LendStep
<1>7. CASE OnStopAll \/ WatchdogReads \/ WatchdogFires \/ Shutdown \/ ShutdownStep
  BY <1>7, ThreadsAreQuiet, StopsEndTeleop
<1>8. CASE GiveBack \/ CheckLend \/ ReleaserEnds
  BY <1>8, ThreadsAreQuiet, TakeBackEndsLend
<1>9. CASE TeleopOn \/ TeleopOff \/ TeleopStill \/ WorldStep
  BY <1>9, WorkIsQuiet, StopsEndTeleop
<1>10. CASE Rest \/ UNCHANGED vars
  BY <1>10, ThreadsAreQuiet
<1> QED
  BY <1>1, <1>2, <1>3, <1>4, <1>5, <1>6, <1>7, <1>8, <1>9, <1>10 DEF Next
-----------------------------------------------------------------------------
(* A leaf stays one of its mission's steps. *)
LEMMA LeafStaysInPlan ==
  ASSUME TypeOK, LeafInPlan, [Next]_vars
  PROVE  LeafInPlan'
<1> USE DEF LeafInPlan, TypeOK, LeafTypeOK
<1>1. ASSUME NEW m \in Missions, StartLeaf(m) PROVE LeafInPlan'
  <2>1. cur[m] + 1 \in 1..Len(Plan[m])
    BY <1>1, MissionsAssumption, SMTT(12) DEF StartLeaf
  <2>2. cur' = [cur EXCEPT ![m] = cur[m] + 1]
    BY <1>1 DEF StartLeaf
  <2>3. leaf' = [leaf EXCEPT ![m] = "starting"]
    BY <1>1 DEF StartLeaf
  <2> QED BY <2>1, <2>2, <2>3, SMTT(12)
<1>2. ASSUME NEW m \in Missions,
             SendGoal(m) \/ LeafNotSent(m) \/ LeafJudged(m) \/ StepTimesOut(m)
                \/ HaltTree(m)
      PROVE  LeafInPlan'
  <2>1. cur' = cur
    BY <1>2 DEF SendGoal, LeafNotSent, LeafJudged, StepTimesOut, HaltTree
  <2>2. \/ leaf' = [leaf EXCEPT ![m] = "none"]
        \/ leaf[m] = "starting" /\ leaf' = [leaf EXCEPT ![m] = "out"]
    BY <1>2 DEF SendGoal, LeafNotSent, LeafJudged, StepTimesOut, HaltTree, HaltLeaf
  <2> QED BY <2>1, <2>2, SMTT(12)
<1>3. \/ UNCHANGED <<cur, leaf>>
      \/ \E m \in Missions :
            \/ StartLeaf(m) \/ SendGoal(m) \/ LeafNotSent(m) \/ LeafJudged(m)
            \/ StepTimesOut(m) \/ HaltTree(m)
  <2> USE DEF leafVars
  <2>1. ASSUME NEW m \in Missions, MissionStep(m)
        PROVE  UNCHANGED <<cur, leaf>> \/ HaltTree(m)
    BY <2>1 DEF MissionStep, StartMission, ClearHalted, SpawnWorker, SpawnFails,
           Execute, RejectTree, AcceptTree, TakeAuthority, AcquireArms, Interrupt,
           TreeSucceeds, TreeFails, TreeThrows, SayHalted, SweepAfterHalt, Finish, Finished,
           EndClaim, Report
  <2>2. ASSUME NEW m \in Missions, CancelMission(m) PROVE UNCHANGED <<cur, leaf>>
    BY <2>2 DEF CancelMission
  <2>3. ASSUME NEW m \in Missions, NEW k \in StepsOf(m), ServerStep(m, k)
        PROVE  UNCHANGED <<cur, leaf>>
    BY <2>3 DEF ServerStep, AnswerGoal, MoveFingers, EndGoal, serverFrame
  <2>4. ASSUME NEW t \in Releasers, LetGoStep(t) PROVE UNCHANGED <<cur, leaf>>
    BY <2>4 DEF LetGoStep, LetGoLook, ReadFingers, ReleaseArms, ClearHeld,
                letGoFrame
  <2>5. ASSUME NEW s \in Stoppers, StopStep(s) PROVE UNCHANGED <<cur, leaf>>
    BY <2>5 DEF StopStep, RaiseFlags, CancelGoals, AwaitHalted, SettleServers,
                NoteStopped, stopFrame, stopGoalFrame
  <2>6. ASSUME NEW c \in Clients, ClaimLend(c) \/ LendStep(c)
        PROVE  UNCHANGED <<cur, leaf>>
    BY <2>6 DEF ClaimLend, LendStep, TimeLend, AcquireToLend, GrantLend,
                LendOvertaken, RefuseOvertaken, lendFrame
  <2>7. ASSUME \/ OnStopAll \/ \E s \in Deadmen : Deadman(s)
               \/ WatchdogReads \/ WatchdogFires \/ Shutdown \/ ShutdownStep
        PROVE  UNCHANGED <<cur, leaf>>
    BY <2>7 DEF OnStopAll, Deadman, WatchdogReads, WatchdogFires, Shutdown,
                ShutdownStep, JoinWorker, JoinReleaser, GoDown, mainFrame, stopFrame
  <2>8. ASSUME GiveBack \/ CheckLend \/ ReleaserEnds \/ TeleopOn \/ TeleopOff
               \/ TeleopStill
        PROVE  UNCHANGED <<cur, leaf>>
    BY <2>8 DEF GiveBack, CheckLend, ReleaserEnds, TeleopOn, TeleopOff,
                TeleopStill, backFrame, lendFrame, teleopFrame
  <2>9. ASSUME WorldStep PROVE UNCHANGED <<cur, leaf>>
    BY <2>9 DEF WorldStep, BorrowerGrips, PassDeadline, PassLend, FallSilent,
                LoseBalance, DeactivateArm, worldFrame
  <2>10. ASSUME Rest \/ UNCHANGED vars PROVE UNCHANGED <<cur, leaf>>
    BY <2>10 DEF Rest, vars
  <2> QED
    BY <2>1, <2>2, <2>3, <2>4, <2>5, <2>6, <2>7, <2>8, <2>9, <2>10
    DEF Next, LeafStep
<1>4. CASE UNCHANGED <<cur, leaf>>
  BY <1>4
<1> QED BY <1>1, <1>2, <1>3, <1>4
-----------------------------------------------------------------------------
(* A thread that works on keeps its claim. *)
LEMMA ThreadGoesOn ==
  ASSUME MissionTypeOK, ClaimIsTheThreads, NEW m \in Missions,
         NEW phase \in Working, pc[m] \in Working, Goto(m, phase),
         running' = running
  PROVE  ClaimIsTheThreads'
BY SMTT(12) DEF ClaimIsTheThreads, MissionTypeOK, Goto

(* The mission's thread, and the thread that starts it, keep the claim and  *)
(* its end together.                                                       *)
LEMMA MissionStepClaims ==
  ASSUME MissionTypeOK, ClaimIsTheThreads, NEW m \in Missions, MissionStep(m)
  PROVE  ClaimIsTheThreads'
<1>1. CASE StartMission(m)
  <2>1. pc[m] \notin Working /\ "claimed" \in Working /\ "refused" \notin Working
    BY <1>1 DEF StartMission, Working, Phases
  <2>2. CASE Claimable(m)
    <3>1. running = None /\ running' = m /\ Goto(m, "claimed")
      BY <1>1, <2>2 DEF StartMission, Claimable
    <3>2. \A n \in Missions : pc[n] \notin Working
      BY <3>1, MissionsAssumption DEF ClaimIsTheThreads
    <3> QED BY <2>1, <3>1, <3>2, SMTT(12) DEF ClaimIsTheThreads, Goto, MissionTypeOK
  <2>3. CASE ~Claimable(m)
    <3>1. running' = running /\ Goto(m, "refused")
      BY <1>1, <2>3 DEF StartMission
    <3> QED BY <2>1, <3>1, SMTT(12) DEF ClaimIsTheThreads, Goto, MissionTypeOK
  <2> QED BY <2>2, <2>3
<1>2. CASE ClearHalted(m)
  <2>1. PICK phase \in {"joining"} : Goto(m, phase)
    BY <1>2, Zenon DEF ClearHalted
  <2>2. pc[m] \in Working /\ phase \in Working
    <3>1. pc[m] = "claimed"
      BY <1>2 DEF ClearHalted
    <3> QED BY <2>1, <3>1 DEF Working, Phases
  <2>3. running' = running
    BY <1>2 DEF ClearHalted, claimVars, lendVars
  <2> QED BY <2>1, <2>2, <2>3, ThreadGoesOn
<1>3. CASE SpawnWorker(m)
  <2>1. PICK phase \in {"entered"} : Goto(m, phase)
    BY <1>3, Zenon DEF SpawnWorker
  <2>2. pc[m] \in Working /\ phase \in Working
    <3>1. pc[m] = "joining"
      BY <1>3 DEF SpawnWorker
    <3> QED BY <2>1, <3>1 DEF Working, Phases
  <2>3. running' = running
    BY <1>3 DEF SpawnWorker, claimVars, lendVars
  <2> QED BY <2>1, <2>2, <2>3, ThreadGoesOn
<1>4. CASE SpawnFails(m)
  <2>1. pc[m] \in Working /\ "done" \notin Working
    BY <1>4 DEF SpawnFails, Working, Phases
  <2>2. running' = None /\ Goto(m, "done")
    BY <1>4 DEF SpawnFails
  <2>3. running = m
    BY <2>1 DEF ClaimIsTheThreads
  <2> QED
    BY <2>1, <2>2, <2>3, MissionsAssumption, SMTT(12)
    DEF ClaimIsTheThreads, Goto, MissionTypeOK
<1>5. CASE Execute(m)
  <2>1. PICK phase \in {"closing", "validating"} : Goto(m, phase)
    BY <1>5, Zenon DEF Execute
  <2>2. pc[m] \in Working /\ phase \in Working
    <3>1. pc[m] = "entered"
      BY <1>5 DEF Execute
    <3> QED BY <2>1, <3>1 DEF Working, Phases
  <2>3. running' = running
    BY <1>5 DEF Execute, claimVars, lendVars
  <2> QED BY <2>1, <2>2, <2>3, ThreadGoesOn
<1>6. CASE RejectTree(m)
  <2>1. PICK phase \in {"closing"} : Goto(m, phase)
    BY <1>6, Zenon DEF RejectTree
  <2>2. pc[m] \in Working /\ phase \in Working
    <3>1. pc[m] = "validating"
      BY <1>6 DEF RejectTree
    <3> QED BY <2>1, <3>1 DEF Working, Phases
  <2>3. running' = running
    BY <1>6 DEF RejectTree, claimVars, lendVars
  <2> QED BY <2>1, <2>2, <2>3, ThreadGoesOn
<1>7. CASE AcceptTree(m)
  <2>1. PICK phase \in {"closing", "authorising"} : Goto(m, phase)
    BY <1>7, Zenon DEF AcceptTree
  <2>2. pc[m] \in Working /\ phase \in Working
    <3>1. pc[m] = "validating"
      BY <1>7 DEF AcceptTree
    <3> QED BY <2>1, <3>1 DEF Working, Phases
  <2>3. running' = running
    BY <1>7 DEF AcceptTree, claimVars, lendVars
  <2> QED BY <2>1, <2>2, <2>3, ThreadGoesOn
<1>8. CASE TakeAuthority(m)
  <2>1. PICK phase \in {"closing", "acquiring", "ticking"} : Goto(m, phase)
    BY <1>8, Zenon DEF TakeAuthority
  <2>2. pc[m] \in Working /\ phase \in Working
    <3>1. pc[m] = "authorising"
      BY <1>8 DEF TakeAuthority
    <3> QED BY <2>1, <3>1 DEF Working, Phases
  <2>3. running' = running
    BY <1>8 DEF TakeAuthority, claimVars, lendVars
  <2> QED BY <2>1, <2>2, <2>3, ThreadGoesOn
<1>9. CASE AcquireArms(m)
  <2>1. PICK phase \in {"closing", "ticking"} : Goto(m, phase)
    BY <1>9, Zenon DEF AcquireArms
  <2>2. pc[m] \in Working /\ phase \in Working
    <3>1. pc[m] = "acquiring"
      BY <1>9 DEF AcquireArms
    <3> QED BY <2>1, <3>1 DEF Working, Phases
  <2>3. running' = running
    BY <1>9 DEF AcquireArms, claimVars, lendVars
  <2> QED BY <2>1, <2>2, <2>3, ThreadGoesOn
<1>10. CASE Interrupt(m)
  <2>1. PICK phase \in {"halting"} : Goto(m, phase)
    BY <1>10, Zenon DEF Interrupt
  <2>2. pc[m] \in Working /\ phase \in Working
    <3>1. pc[m] = "ticking"
      BY <1>10 DEF Interrupt
    <3> QED BY <2>1, <3>1 DEF Working, Phases
  <2>3. running' = running
    BY <1>10 DEF Interrupt, claimVars, lendVars, tickFrame
  <2> QED BY <2>1, <2>2, <2>3, ThreadGoesOn
<1>11. CASE TreeSucceeds(m)
  <2>1. PICK phase \in {"closing"} : Goto(m, phase)
    BY <1>11, Zenon DEF TreeSucceeds
  <2>2. pc[m] \in Working /\ phase \in Working
    <3>1. pc[m] = "ticking"
      BY <1>11 DEF TreeSucceeds
    <3> QED BY <2>1, <3>1 DEF Working, Phases
  <2>3. running' = running
    BY <1>11 DEF TreeSucceeds, claimVars, lendVars, tickFrame
  <2> QED BY <2>1, <2>2, <2>3, ThreadGoesOn
<1>12. CASE TreeFails(m)
  <2>1. PICK phase \in {"halting"} : Goto(m, phase)
    BY <1>12, Zenon DEF TreeFails
  <2>2. pc[m] \in Working /\ phase \in Working
    <3>1. pc[m] = "ticking"
      BY <1>12 DEF TreeFails
    <3> QED BY <2>1, <3>1 DEF Working, Phases
  <2>3. running' = running
    BY <1>12 DEF TreeFails, claimVars, lendVars, tickFrame
  <2> QED BY <2>1, <2>2, <2>3, ThreadGoesOn
<1>13. CASE TreeThrows(m)
  <2>1. PICK phase \in {"halting"} : Goto(m, phase)
    BY <1>13, Zenon DEF TreeThrows
  <2>2. pc[m] \in Working /\ phase \in Working
    <3>1. pc[m] = "ticking"
      BY <1>13 DEF TreeThrows
    <3> QED BY <2>1, <3>1 DEF Working, Phases
  <2>3. running' = running
    BY <1>13 DEF TreeThrows, claimVars, lendVars, tickFrame
  <2> QED BY <2>1, <2>2, <2>3, ThreadGoesOn
<1>14. CASE HaltTree(m)
  <2>1. PICK phase \in {"settling"} : Goto(m, phase)
    BY <1>14, Zenon DEF HaltTree
  <2>2. pc[m] \in Working /\ phase \in Working
    <3>1. pc[m] = "halting"
      BY <1>14 DEF HaltTree
    <3> QED BY <2>1, <3>1 DEF Working, Phases
  <2>3. running' = running
    BY <1>14 DEF HaltTree, claimVars, lendVars, tickFrame
  <2> QED BY <2>1, <2>2, <2>3, ThreadGoesOn
<1>15. CASE SayHalted(m)
  <2>1. PICK phase \in {"sweeping"} : Goto(m, phase)
    BY <1>15, Zenon DEF SayHalted
  <2>2. pc[m] \in Working /\ phase \in Working
    <3>1. pc[m] = "settling"
      BY <1>15 DEF SayHalted
    <3> QED BY <2>1, <3>1 DEF Working, Phases
  <2>3. running' = running
    BY <1>15 DEF SayHalted, claimVars, lendVars
  <2> QED BY <2>1, <2>2, <2>3, ThreadGoesOn
<1>16. CASE SweepAfterHalt(m)
  <2>1. PICK phase \in {"closing"} : Goto(m, phase)
    BY <1>16, Zenon DEF SweepAfterHalt
  <2>2. pc[m] \in Working /\ phase \in Working
    <3>1. pc[m] = "sweeping"
      BY <1>16 DEF SweepAfterHalt
    <3> QED BY <2>1, <3>1 DEF Working, Phases
  <2>3. running' = running
    BY <1>16 DEF SweepAfterHalt, claimVars, lendVars
  <2> QED BY <2>1, <2>2, <2>3, ThreadGoesOn
<1>17. CASE Finish(m)
  <2>1. PICK phase \in {"lettinggo"} : Goto(m, phase)
    BY <1>17, Zenon DEF Finish
  <2>2. pc[m] \in Working /\ phase \in Working
    <3>1. pc[m] = "closing"
      BY <1>17 DEF Finish
    <3> QED BY <2>1, <3>1 DEF Working, Phases
  <2>3. running' = running
    BY <1>17 DEF Finish, claimVars, lendVars
  <2> QED BY <2>1, <2>2, <2>3, ThreadGoesOn
<1>18. CASE Finished(m)
  <2>1. PICK phase \in {"clearing"} : Goto(m, phase)
    BY <1>18, Zenon DEF Finished
  <2>2. pc[m] \in Working /\ phase \in Working
    <3>1. pc[m] = "lettinggo"
      BY <1>18 DEF Finished
    <3> QED BY <2>1, <3>1 DEF Working, Phases
  <2>3. running' = running
    BY <1>18 DEF Finished, claimVars, lendVars
  <2> QED BY <2>1, <2>2, <2>3, ThreadGoesOn
<1>19. CASE EndClaim(m)
  <2>1. pc[m] \in Working /\ "reporting" \notin Working
    BY <1>19 DEF EndClaim, Working, Phases
  <2>2. running' = None /\ Goto(m, "reporting")
    BY <1>19 DEF EndClaim
  <2>3. running = m
    BY <2>1 DEF ClaimIsTheThreads
  <2> QED
    BY <2>1, <2>2, <2>3, MissionsAssumption, SMTT(12)
    DEF ClaimIsTheThreads, Goto, MissionTypeOK
<1>20. CASE Report(m)
  <2>1. pc[m] \notin Working /\ "done" \notin Working
    BY <1>20 DEF Report, Working, Phases
  <2>2. running' = running /\ Goto(m, "done")
    BY <1>20 DEF Report, claimVars
  <2> QED
    BY <2>1, <2>2, SMTT(12) DEF ClaimIsTheThreads, Goto, MissionTypeOK
<1> QED
  BY <1>1, <1>2, <1>3, <1>4, <1>5, <1>6, <1>7, <1>8, <1>9, <1>10, <1>11,
     <1>12, <1>13, <1>14, <1>15, <1>16, <1>17, <1>18, <1>19, <1>20 DEF
     MissionStep

(* Nobody else touches it. *)
LEMMA ClaimStays ==
  ASSUME TypeOK, ClaimIsTheThreads, [Next]_vars
  PROVE  ClaimIsTheThreads'
<1>1. \/ UNCHANGED <<running, pc>>
      \/ \E m \in Missions : MissionStep(m)
  BY FiveKinds, ClaimsOfOthers DEF Quiet, LendEndsHere, TeleopEndsHere
<1>2. CASE UNCHANGED <<running, pc>>
  BY <1>2 DEF ClaimIsTheThreads
<1> QED BY <1>1, <1>2, MissionStepClaims DEF TypeOK
-----------------------------------------------------------------------------
(* Every step keeps the users of the robot apart, and maps to a claim, a    *)
(* release or nothing.                                                     *)
LEMMA UsersApart ==
  ASSUME TypeOK, OneUser, [Next]_vars
  PROVE  OneUser' /\ [Claims!Next]_User
<1> USE DEF OneUser, User, Claims!Next, Claims!Claim, Claims!Release
<1>1. CASE Quiet
  BY <1>1 DEF Quiet
<1>2. CASE LendEndsHere
  BY <1>2 DEF LendEndsHere
<1>3. CASE TeleopEndsHere
  BY <1>3 DEF TeleopEndsHere
<1>4. CASE TeleopOn
  BY <1>4, ClaimsOfOthers
<1>5. ASSUME NEW c \in Clients, ClaimLend(c) PROVE OneUser' /\ [Claims!Next]_User
  BY <1>5, ClaimsOfOthers, ClientsAssumption
<1>6. ASSUME NEW m \in Missions, MissionStep(m)
      PROVE  OneUser' /\ [Claims!Next]_User
  <2>1. UNCHANGED <<lentTo, teleop>>
    BY <1>6, ClaimsOfMissions
  <2>2. CASE running' = running
    BY <2>1, <2>2
  <2>3. CASE running' = None
    BY <2>1, <2>3
  <2>4. CASE running = None /\ running' = m /\ Claimable(m)
    BY <2>1, <2>4, MissionsAssumption DEF Claimable
  <2> QED BY <1>6, <2>2, <2>3, <2>4, ClaimsOfMissions
<1> QED BY <1>1, <1>2, <1>3, <1>4, <1>5, <1>6, FiveKinds
-----------------------------------------------------------------------------
(* The invariant holds at the start. *)
LEMMA InitHolds == Init => IInv
<1> SUFFICES ASSUME Init PROVE IInv
  OBVIOUS
<1>1. ClaimTypeOK /\ TimerTypeOK /\ LendTypeOK
  BY DEF Init, ClaimTypeOK, TimerTypeOK, LendTypeOK, Causes, Limits, LendPlaces
<1>2. MissionTypeOK
  BY SMTT(12) DEF Init, MissionTypeOK, Phases, Outcomes, Causes
<1>3. LeafTypeOK
  <2>1. MaxSteps \in Nat
    BY MissionsAssumption
  <2> QED BY <2>1, SMTT(12) DEF Init, LeafTypeOK, GoalStates
<1>4. ArmTypeOK
  <2>1. armsHeld \in BOOLEAN /\ armsTaken \in BOOLEAN
    BY Zenon DEF Init
  <2>2. closed \subseteq Hands
    <3>1. closed \in SUBSET Hands \/ closed = {}
      BY Zenon DEF Init
    <3> QED BY <3>1
  <2>3. moves \in BOOLEAN
    BY Zenon DEF Init
  <2> QED BY <2>1, <2>2, <2>3, SMTT(12) DEF Init, ArmTypeOK
<1>5. StopTypeOK
  <2> DEFINE start == [at |-> "idle", aim |-> None, hit |-> None,
                       cause |-> "NONE", ok |-> FALSE]
  <2>1. start \in Stops
    <3>1. "idle" \in StopPlaces /\ "NONE" \in Causes
      BY DEF StopPlaces, Causes
    <3> QED BY <3>1, SMTT(12) DEF Stops
  <2>2. stopper = [s \in Stoppers |-> start]
    BY DEF Init
  <2>3. stopper \in [Stoppers -> Stops]
    <3> HIDE DEF start
    <3> QED BY <2>1, <2>2
  <2>4. stops \in 0..MaxStops
    BY BoundsAssumption DEF Init
  <2>5. stopped \in BOOLEAN
    BY Zenon DEF Init
  <2> QED BY <2>3, <2>4, <2>5 DEF StopTypeOK
<1>6. TypeOK
  BY <1>1, <1>2, <1>3, <1>4, <1>5 DEF Init, TypeOK
<1>7. LeafInPlan /\ OneUser
  BY DEF Init, LeafInPlan, OneUser
<1>8. ClaimIsTheThreads
  BY MissionsAssumption, SMTT(12) DEF Init, ClaimIsTheThreads, Working, Phases
<1> QED BY <1>6, <1>7, <1>8 DEF IInv

(* Every step keeps it. *)
LEMMA StepHolds == IInv /\ [Next]_vars => IInv'
BY NextTyped, LeafStaysInPlan, ClaimStays, UsersApart DEF IInv

(* The executor's state always satisfies the invariant the rest is proved  *)
(* from.                                                                   *)
THEOREM Invariant == Spec => []IInv
BY InitHolds, StepHolds, PTL DEF Spec

(* Every member of the executor keeps its type, whichever threads interleave. *)
THEOREM TypeCorrect == Spec => []TypeOK
<1>1. IInv => TypeOK
  BY DEF IInv
<1> QED BY <1>1, Invariant, PTL

(* The claim on the robot is never lost under a mission's thread and never  *)
(* outlives it (startMission(), run()).                                    *)
THEOREM ClaimsFollowThreads == Spec => []ClaimIsTheThreads
<1>1. IInv => ClaimIsTheThreads
  BY DEF IInv
<1> QED BY <1>1, Invariant, PTL

(* A mission, a lend and teleop exclude each other: the executor implements *)
(* RobotClaim (startMission(), onLend() and onTeleop(), which all look at  *)
(* the other two before they claim).                                       *)
THEOREM UsesExclude == Spec => ExclusiveUse
<1>1. Init => Claims!Init
  BY DEF Init, Claims!Init, User
<1>2. IInv /\ [Next]_vars => [Claims!Next]_User
  BY UsersApart DEF IInv
<1> QED BY <1>1, <1>2, Invariant, PTL DEF Spec, ExclusiveUse, Claims!Spec
=============================================================================
