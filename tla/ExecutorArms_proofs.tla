------------------------ MODULE ExecutorArms_proofs ------------------------
(***************************************************************************)
(* What holds of the arms and of stopping, for any missions, plans, hands, *)
(* clients, deadmen and bounds.                                            *)
(*                                                                         *)
(* Each part is an invariant of its own, inductive over those before it:   *)
(*   HoldersInv  which thread lets go of the arms, and why they are held;  *)
(*   FlagInv     what a stop has raised, and where a leaf can be;          *)
(*   AnswerInv   what an answer "ok" promises, over FlagInv;               *)
(*   LentInv     held arms are taken, and lent ones too, over HoldersInv;  *)
(*   TicksHeld   a mission that moves the arms has them, over LentInv;     *)
(*   ArmsInv     which hand a goal out at a server is about, over all.     *)
(* A theorem's hypotheses are those of the invariants it needs: that       *)
(* servers answer in time, that nobody runs deactivate_arm, or that no     *)
(* mission and no shutdown overtakes a lend (LendsAreOver).                *)
(***************************************************************************)
EXTENDS MissionExecutor_proofs

(* The names of the tuples of variables that a step leaves alone. *)
USE DEF claimVars, timerVars, missionVars, leafVars, lendVars, handVars,
        robotVars, armVars, stopVars, letGoFrame, tickFrame, stopFrame,
        stopGoalFrame, mainFrame, lendFrame, backFrame, teleopFrame,
        serverFrame, worldFrame
-----------------------------------------------------------------------------
(***************************************************************************)
(* HoldersInv: who lets go of the arms, and why they are held              *)
(***************************************************************************)
(* A thread is in letGoOfArms() only from the place that calls it. *)
ReleasersWork ==
    /\ letgo["mission"] # "idle"
       => \E m \in Missions : pc[m] = "lettinggo" /\ Mode[m] = "EXECUTE"
    /\ letgo["releaser"] # "idle" => releasing
    /\ letgo["lend"] # "idle" => lender.at = "overtaken"
    /\ letgo["main"] # "idle" => main = "lettinggo"

(* The phases of an executed mission that end in finish(). *)
ArmPhases == {"ticking", "halting", "settling", "sweeping", "closing"}

AcquiresExecuted ==
    \A m \in Missions : pc[m] = "acquiring" => Mode[m] = "EXECUTE"

(* Held arms are held for a hand, for a mission that will let go of them,   *)
(* by a thread that lets go of them, or for a lend, granted or being so.    *)
HeldForAReason ==
    armsHeld =>
        \/ MayHold(holding, unknown)
        \/ \E m \in Missions : Mode[m] = "EXECUTE" /\ pc[m] \in ArmPhases
        \/ \E t \in Releasers : letgo[t] # "idle"
        \/ lentTo # None
        \/ lender.at = "recheck"

(* onLend() serves one client, and nobody else is lent the arms meanwhile. *)
LendKnows ==
    lender.at # "idle" =>
        lender.client # None /\ lentTo \in {None, lender.client}

(* A lend begins only after the release of the one before. *)
LentIsQuiet == lentTo # None => ~releasing /\ lender.at # "overtaken"

(* Past the join of the worker no mission's thread runs. *)
WorkerJoined ==
    main \in {"reaping", "lettinggo", "down"}
    => \A m \in Missions : pc[m] \in {"new", "refused", "done"}

(* The phases in which an executed mission takes the arms and uses them. *)
MovePhases == {"acquiring"} \union (ArmPhases \ {"closing"})
Moves(m) == Mode[m] = "EXECUTE" /\ pc[m] \in MovePhases

(* takeAuthority() waits for the release of the lend before. *)
ReleaseAwaited == \A m \in Missions : Moves(m) => ~releasing

HoldersInv ==
    /\ ReleasersWork /\ AcquiresExecuted /\ HeldForAReason
    /\ LendKnows /\ LentIsQuiet /\ WorkerJoined /\ ReleaseAwaited

(* No lend is overtaken: none is still being granted, or told that it was  *)
(* taken back, when an executed mission takes the arms or uses them, and   *)
(* none is left when shutdown() lets go of them.                           *)
LendsAreOver ==
    /\ lender.at # "idle" => \A m \in Missions : ~Moves(m)
    /\ main \in {"lettinggo", "down"} => lender.at = "idle" /\ lentTo = None

(* Then shutdown() is the last to let go. *)
MainIsLast == main \in {"lettinggo", "down"} => ~releasing
-----------------------------------------------------------------------------
(***************************************************************************)
(* FlagInv and AnswerInv: what a stop has raised, and what it promises     *)
(***************************************************************************)
(* While a mission that a stop has hit still runs, halting_ stays set: no   *)
(* later claim or end of another mission clears it.                        *)
Flagged ==
    \A s \in Stoppers : \A m \in Missions : stopper[s].hit = m =>
        pc[m] \notin {"new", "refused"} /\ (running = m => halting)

LeafPhases ==
    \A m \in Missions : leaf[m] # "none" =>
        /\ Mode[m] = "EXECUTE"
        /\ pc[m] = "ticking" \/ (pc[m] = "halting" /\ leaf[m] = "out")

(* halted_ is set for the running mission only once its tree is halted, or *)
(* before ClearHalted.                                                     *)
HaltedWhere ==
    \A m \in Missions : halted /\ running = m =>
        pc[m] \in {"claimed", "sweeping", "closing", "lettinggo", "clearing"}

FlagInv == Flagged /\ LeafPhases /\ HaltedWhere

(* A goal not yet answered belongs to a leaf that waits for it, or to a    *)
(* halted tree that does.                                                  *)
SentAwaited ==
    \A m \in Missions : \A k \in 1..MaxSteps : goal[m][k] = "sent" =>
        pc[m] = "settling" \/ (leaf[m] = "out" /\ cur[m] = k)

(* From the moment stopEverything() has seen halted_, the mission it hit   *)
(* has no leaf and no unanswered goal; from the moment it has seen the     *)
(* servers idle, none in flight.                                           *)
QuietAnswer(s) ==
    /\ stopper[s].at = "asked" => ~stopper[s].ok
    /\ \A m \in Missions : stopper[s].hit = m /\ stopper[s].ok =>
         /\ leaf[m] = "none"
         /\ \A k \in 1..MaxSteps : goal[m][k] # "sent"
         /\ stopper[s].at \in {"note", "idle"} =>
              \A k \in 1..MaxSteps : goal[m][k] \notin InFlight

OkIsQuiet == \A s \in Stoppers : QuietAnswer(s)

AnswerInv == SentAwaited /\ OkIsQuiet
-----------------------------------------------------------------------------
(***************************************************************************)
(* LentInv and TicksHeld: who has the arms                                 *)
(***************************************************************************)
(* Arms the executor holds are taken until a thread has released them and  *)
(* is about to say so.                                                     *)
HeldIsTaken == armsHeld => armsTaken \/ \E t \in Releasers : letgo[t] = "clear"

LentIsTaken ==
    lentTo # None /\ main = "up" /\ lender.at \in {"idle", "recheck"}
    => armsTaken

LentInv == HeldIsTaken /\ LentIsTaken

(* A mission that moves the arms has them until it closes. *)
TicksHeld ==
    \A m \in Missions :
        /\ pc[m] \in ArmPhases \ {"closing"}
        /\ Mode[m] = "EXECUTE" /\ NeedsArms(m)
        => armsHeld /\ armsTaken
-----------------------------------------------------------------------------
(***************************************************************************)
(* ArmsInv: which hand a goal at the manipulation server is about          *)
(***************************************************************************)
InArm(m, k)  == Skill(m, k) # "walk" /\ goal[m][k] \in InFlight
OutArm(m, k) == Skill(m, k) # "walk" /\ goal[m][k] \in InFlight \union {"sent"}

(* A place has a hand that holds something to place. *)
PlaceHolds ==
    \A m \in Missions : leaf[m] # "none" /\ Skill(m, cur[m]) = "place" =>
        Hand(m, cur[m]) \in holding \union unknown

(* A goal at the manipulation server, or on its way, is watched by its      *)
(* leaf, or its hand counts as one that may hold something.                 *)
Watched ==
    \A m \in Missions : \A k \in StepsOf(m) : OutArm(m, k) =>
        /\ Mode[m] = "EXECUTE"
        /\ \/ leaf[m] = "out" /\ cur[m] = k
           \/ Hand(m, k) \in holding \union unknown

OneArmGoal ==
    \A m, n \in Missions : \A k \in StepsOf(m) : \A j \in StepsOf(n) :
        InArm(m, k) /\ InArm(n, j) => m = n /\ k = j

(* A goal in flight moves arms that are taken. *)
BusyIsTaken == ArmIsBusy => armsTaken

(* A pick or a place whose success the tree has yet to see is the last one *)
(* that ran: no other is closing or opening a hand.                        *)
DoneAlone ==
    \A m \in Missions :
        leaf[m] = "out" /\ Skill(m, cur[m]) # "walk" /\ GoalAt(m) = "succeeded"
        => ~ArmIsBusy

(* What letGoOfArms() found when it read the fingers is still so when it   *)
(* releases the arms, but for what a borrower's motion has closed since:   *)
(* no other hand is closed, and no goal is out to close one.  The          *)
(* executor's own belief may have changed, by another thread's reading.    *)
ReleaseIsEmpty ==
    \A t \in Releasers : letgo[t] = "release" =>
        /\ closed \subseteq late
        /\ \A m \in Missions : \A k \in StepsOf(m) : ~OutArm(m, k)

ArmsInv ==
    /\ PlaceHolds /\ Watched /\ OneArmGoal
    /\ BusyIsTaken /\ DoneAlone /\ ReleaseIsEmpty
-----------------------------------------------------------------------------
(***************************************************************************)
(* What the steps do to one goal, one stopper, one releaser, one phase     *)
(***************************************************************************)

(* One goal changes its state, and no other. *)
GoalTurns(m, k, g) ==
    \A n \in Missions : \A j \in 1..MaxSteps :
        goal'[n][j] = IF n = m /\ j = k THEN g ELSE goal[n][j]

(* Assigning one goal changes no other. *)
LEMMA GoalSetTurns ==
  ASSUME TypeOK, NEW m \in Missions, NEW k \in 1..MaxSteps, NEW g,
         goal' = [goal EXCEPT ![m][k] = g]
  PROVE  GoalTurns(m, k, g)
<1>1. goal \in [Missions -> [1..MaxSteps -> GoalStates]]
  BY DEF TypeOK, LeafTypeOK
<1>2. goal[m] \in [1..MaxSteps -> GoalStates]
  BY <1>1
<1>3. goal' = [goal EXCEPT ![m] = [goal[m] EXCEPT ![k] = g]]
  OBVIOUS
<1>4. \A n \in Missions \ {m} : goal'[n] = goal[n]
  BY <1>1, <1>3
<1>5. goal'[m] = [goal[m] EXCEPT ![k] = g]
  BY <1>1, <1>3
<1>6. \A j \in 1..MaxSteps : goal'[m][j] = IF j = k THEN g ELSE goal[m][j]
  BY <1>2, <1>5
<1> QED BY <1>4, <1>6 DEF GoalTurns

(* CancelAll asks every goal, and Asked tells the states apart no further. *)
LEMMA AskedGoals ==
  ASSUME TypeOK, CancelAll
  PROVE  \A n \in Missions : \A j \in 1..MaxSteps :
            /\ goal'[n][j] = "sent" <=> goal[n][j] = "sent"
            /\ goal'[n][j] \in InFlight <=> goal[n][j] \in InFlight
            /\ goal'[n][j] = "succeeded" <=> goal[n][j] = "succeeded"
BY SMTT(12) DEF CancelAll, Asked, InFlight

(* A leaf that is halted asks for its own goal only, and a hand that may   *)
(* hold something still may.                                               *)
LEMMA HaltLeafTurns ==
  ASSUME TypeOK, LeafInPlan, NEW m \in Missions, HaltLeaf(m)
  PROVE  /\ leaf' = [leaf EXCEPT ![m] = "none"]
         /\ \A n \in Missions : \A j \in 1..MaxSteps :
              /\ goal'[n][j] = "sent" <=> goal[n][j] = "sent"
              /\ goal'[n][j] \in InFlight <=> goal[n][j] \in InFlight
              /\ goal'[n][j] = "succeeded" <=> goal[n][j] = "succeeded"
         /\ holding \union unknown \subseteq holding \union unknown'
         /\ leaf[m] = "out" /\ Step(m).skill = "pick"
            => Step(m).hand \in holding \union unknown'
<1>1. CASE leaf[m] # "out"
  BY <1>1 DEF HaltLeaf
<1>2. CASE leaf[m] = "out"
  <2>1. cur[m] \in 1..MaxSteps
    BY <1>2, PlanSteps DEF LeafInPlan
  <2>2. goal' = [goal EXCEPT ![m][cur[m]] = Asked(GoalAt(m))]
    BY <1>2 DEF HaltLeaf, SetGoal
  <2>3. GoalTurns(m, cur[m], Asked(GoalAt(m)))
    BY <2>1, <2>2, GoalSetTurns
  <2>4. \A n \in Missions : \A j \in 1..MaxSteps :
              /\ goal'[n][j] = "sent" <=> goal[n][j] = "sent"
              /\ goal'[n][j] \in InFlight <=> goal[n][j] \in InFlight
              /\ goal'[n][j] = "succeeded" <=> goal[n][j] = "succeeded"
    BY <2>1, <2>3, SMTT(12) DEF GoalTurns, Asked, GoalAt, InFlight
  <2> QED BY <1>2, <2>4 DEF HaltLeaf
<1> QED BY <1>1, <1>2

(* One stopper's record changes, and no other.                             *)
StopperTurns(s, place, hit, ok) ==
    /\ \A q \in Stoppers : q # s => stopper'[q] = stopper[q]
    /\ stopper'[s].at = place /\ stopper'[s].hit = hit /\ stopper'[s].ok = ok

(* Assigning a stopper's fields changes no other stopper. *)
LEMMA StopperSets ==
  ASSUME TypeOK, NEW s \in Stoppers, NEW p
  PROVE  /\ stopper' = [stopper EXCEPT ![s].at = p]
            => StopperTurns(s, p, stopper[s].hit, stopper[s].ok)
         /\ \A h : stopper' = [stopper EXCEPT ![s].at = p, ![s].hit = h]
                   => StopperTurns(s, p, h, stopper[s].ok)
         /\ \A b : stopper' = [stopper EXCEPT ![s].at = p, ![s].ok = b]
                   => StopperTurns(s, p, stopper[s].hit, b)
<1>1. /\ stopper \in [Stoppers -> Stops]
      /\ \A r \in Stops : DOMAIN r = {"at", "aim", "hit", "cause", "ok"}
  BY DEF TypeOK, StopTypeOK, Stops
<1>2. /\ stopper[s] \in Stops
      /\ DOMAIN stopper[s] = {"at", "aim", "hit", "cause", "ok"}
  BY <1>1
<1> QED BY <1>1, <1>2, SMTT(12) DEF StopperTurns

(* What each step of stopEverything() writes to its stopper's record. *)
LEMMA StopperSteps ==
  ASSUME TypeOK, NEW s \in Stoppers
  PROVE  /\ RaiseFlags(s) => StopperTurns(s, "cancel", running, stopper[s].ok)
         /\ CancelGoals(s)
            => StopperTurns(s, "wait", stopper[s].hit, stopper[s].ok)
         /\ AwaitHalted(s)
            => StopperTurns(s, "settle", stopper[s].hit,
                            halted \/ stopper[s].hit = None)
         /\ SettleServers(s)
            => StopperTurns(s, "note", stopper[s].hit, stopper[s].ok /\ ~Busy)
         /\ NoteStopped(s)
            => StopperTurns(s, "idle", stopper[s].hit, stopper[s].ok)
<1>1. RaiseFlags(s) => StopperTurns(s, "cancel", running, stopper[s].ok)
  BY StopperSets, Zenon DEF RaiseFlags
<1>2. CancelGoals(s)
      => StopperTurns(s, "wait", stopper[s].hit, stopper[s].ok)
  BY StopperSets, Zenon DEF CancelGoals
<1>3. AwaitHalted(s)
      => StopperTurns(s, "settle", stopper[s].hit,
                      halted \/ stopper[s].hit = None)
  BY StopperSets, Zenon DEF AwaitHalted
<1>4. SettleServers(s)
      => StopperTurns(s, "note", stopper[s].hit, stopper[s].ok /\ ~Busy)
  BY StopperSets, Zenon DEF SettleServers
<1>5. NoteStopped(s)
      => StopperTurns(s, "idle", stopper[s].hit, stopper[s].ok)
  BY StopperSets, Zenon DEF NoteStopped
<1> QED BY <1>1, <1>2, <1>3, <1>4, <1>5

(* A stop that starts has hit nothing and answers nothing yet. *)
LEMMA StopStarts ==
  ASSUME TypeOK, NEW s \in Stoppers
  PROVE  \A aim, cause :
            stopper' = [stopper EXCEPT ![s] = [at |-> "asked", aim |-> aim,
                            hit |-> None, cause |-> cause, ok |-> FALSE]]
            => StopperTurns(s, "asked", None, FALSE)
BY SMTT(12) DEF TypeOK, StopTypeOK, StopperTurns

(* One releaser's place changes, and no other. *)
LEMMA LetGoTurns ==
  ASSUME TypeOK, NEW t \in Releasers, NEW p, letgo' = [letgo EXCEPT ![t] = p]
  PROVE  \A r \in Releasers : letgo'[r] = IF r = t THEN p ELSE letgo[r]
BY DEF TypeOK, ArmTypeOK

(* The steps of a mission's thread that move neither a leaf, nor an arm, nor *)
(* a lend: they go from one phase to another.                                *)
Plain(m) ==
    \/ StartMission(m) \/ ClearHalted(m) \/ SpawnWorker(m) \/ SpawnFails(m)
    \/ Execute(m) \/ RejectTree(m) \/ AcceptTree(m) \/ TakeAuthority(m)
    \/ Interrupt(m) \/ TreeSucceeds(m) \/ TreeFails(m) \/ TreeThrows(m)
    \/ SayHalted(m) \/ Finished(m) \/ EndClaim(m) \/ Report(m)

(* What their guards say of the phases they go between. *)
PlainEdge(m, to) ==
    /\ pc[m] \notin {"closing", "refused", "done"} /\ to # "lettinggo"
    /\ pc[m] = "new" => to = "refused" \/ (to = "claimed" /\ main = "up")
    /\ pc[m] # "new" => to \notin {"new", "refused", "claimed"}
    /\ pc[m] \in ArmPhases => to \in ArmPhases
    /\ pc[m] \notin ArmPhases /\ to \in ArmPhases /\ to # "closing" =>
          /\ pc[m] = "authorising" /\ to = "ticking"
          /\ Mode[m] = "EXECUTE" /\ NeedsArms(m) => armsHeld
    /\ to = "acquiring" => Mode[m] = "EXECUTE"
    /\ Mode[m] = "EXECUTE" /\ to \in MovePhases /\ pc[m] \notin MovePhases =>
          ~releasing
    /\ pc[m] = "lettinggo" => letgo["mission"] = "idle"
    /\ pc[m] = "settling" /\ PromptServers =>
          \A k \in 1..MaxSteps : goal[m][k] # "sent"

PlainMove(m, to) ==
    /\ Goto(m, to)
    /\ PlainEdge(m, to)
    /\ UNCHANGED <<leafVars, lendVars, armVars, stopper, main>>

(* Each of them is a move between the phases its guard allows. *)
LEMMA PlainMoves ==
  ASSUME NEW m \in Missions, Plain(m)
  PROVE  \E to : PlainMove(m, to)
<1> USE DEF PlainMove, PlainEdge, ArmPhases, MovePhases
<1>1. CASE StartMission(m)
  <2>1. CASE Claimable(m)
    BY <1>1, <2>1 DEF StartMission, Claimable
  <2>2. CASE ~Claimable(m)
    BY <1>1, <2>2 DEF StartMission
  <2> QED BY <2>1, <2>2
<1>2. CASE ClearHalted(m) \/ SpawnWorker(m) \/ SpawnFails(m)
  BY <1>2 DEF ClearHalted, SpawnWorker, SpawnFails
<1>3. CASE Execute(m)
  <2>1. CASE ShuttingDown
    BY <1>3, <2>1 DEF Execute
  <2>2. CASE ~ShuttingDown
    BY <1>3, <2>2 DEF Execute
  <2> QED BY <2>1, <2>2
<1>4. CASE RejectTree(m)
  BY <1>4 DEF RejectTree
<1>5. CASE AcceptTree(m)
  <2>1. PICK to \in {"closing", "authorising"} : Goto(m, to)
    BY <1>5, Zenon DEF AcceptTree
  <2>2. /\ pc[m] = "validating"
        /\ UNCHANGED <<leafVars, lendVars, armVars, stopper, main>>
    BY <1>5 DEF AcceptTree
  <2> QED BY <2>1, <2>2
<1>6. CASE TakeAuthority(m)
  <2>1. CASE Mode[m] = "EXECUTE" /\ TakesArms(m)
    BY <1>6, <2>1 DEF TakeAuthority
  <2>2. CASE ~(Mode[m] = "EXECUTE" /\ TakesArms(m))
    BY <1>6, <2>2 DEF TakeAuthority, TakesArms
  <2> QED BY <2>1, <2>2
<1>7. CASE \/ Interrupt(m) \/ TreeSucceeds(m) \/ TreeFails(m)
           \/ TreeThrows(m)
  BY <1>7 DEF Interrupt, TreeSucceeds, TreeFails, TreeThrows
<1>8. CASE SayHalted(m)
  BY <1>8 DEF SayHalted
<1>9. CASE Finished(m)
  BY <1>9 DEF Finished
<1>10. CASE EndClaim(m) \/ Report(m)
  BY <1>10 DEF EndClaim, Report
<1> QED BY <1>1, <1>2, <1>3, <1>4, <1>5, <1>6, <1>7, <1>8, <1>9, <1>10
        DEF Plain
-----------------------------------------------------------------------------
(***************************************************************************)
(* HoldersInv is kept                                                      *)
(***************************************************************************)
holderVars ==
    <<pc, armsHeld, holding, unknown, letgo, lentTo, releasing, lender, main>>

(* A step that leaves its variables alone keeps HoldersInv. *)
LEMMA HoldersKeep ==
  ASSUME HoldersInv, UNCHANGED holderVars
  PROVE  HoldersInv'
BY DEF HoldersInv, holderVars, ReleasersWork, AcquiresExecuted, HeldForAReason,
       LendKnows, LentIsQuiet, WorkerJoined, ReleaseAwaited, Moves, MayHold

(* A leaf that is halted leaves no hand less in doubt. *)
LEMMA HaltedMayHold ==
  ASSUME NEW m \in Missions, HaltLeaf(m), UNCHANGED holding,
         MayHold(holding, unknown)
  PROVE  MayHold(holding', unknown')
<1>1. \/ unknown' = unknown
      \/ unknown' = (unknown \ {Step(m).hand}) \union ({Step(m).hand} \ holding)
  BY Zenon DEF HaltLeaf
<1> QED BY <1>1 DEF MayHold

(* A step of a mission's thread keeps HoldersInv. *)
LEMMA MissionStepHolders ==
  ASSUME IInv, HoldersInv, NEW m \in Missions, MissionStep(m)
  PROVE  HoldersInv'
<1> USE MissionsAssumption, ClientsAssumption DEF HoldersInv, ReleasersWork,
      AcquiresExecuted, HeldForAReason, LendKnows, LentIsQuiet, WorkerJoined,
      ReleaseAwaited, Moves, MovePhases, MayHold, ArmPhases, Releasers, Goto,
      IInv, Working, Phases, ClaimIsTheThreads, OneUser, MissionTypeOK, TypeOK,
      ArmTypeOK, LendTypeOK
<1>1. CASE Plain(m)
  <2>1. PICK to : PlainMove(m, to)
    BY <1>1, PlainMoves
  <2> QED BY <2>1, SMTT(12) DEF PlainMove, PlainEdge
<1>2. CASE AcquireArms(m)
  <2>1. /\ pc[m] = "acquiring"
        /\ UNCHANGED <<running, lendVars, letgo, holding, main>>
    BY <1>2, Zenon DEF AcquireArms
  <2>2. \/ pc' = [pc EXCEPT ![m] = "closing"] /\ UNCHANGED <<armsHeld, unknown>>
        \/ pc' = [pc EXCEPT ![m] = "ticking"] /\ armsHeld' = TRUE
    BY <1>2, Zenon DEF AcquireArms, Goto
  <2>3. Mode[m] = "EXECUTE" /\ running = m /\ ~releasing
    BY <2>1
  <2> QED BY <2>1, <2>2, <2>3, SMTT(30)
<1>3. CASE HaltTree(m)
  <2>1. MayHold(holding, unknown) => MayHold(holding', unknown')
    <3>1. HaltLeaf(m) /\ UNCHANGED holding
      BY <1>3 DEF HaltTree
    <3> HIDE DEF MayHold
    <3> QED BY <3>1, HaltedMayHold
  <2>2. /\ pc[m] = "halting" /\ Goto(m, "settling")
        /\ UNCHANGED <<armsHeld, letgo, lendVars, main>>
    BY <1>3 DEF HaltTree
  <2> HIDE DEF MayHold
  <2> QED BY <2>1, <2>2, SMTT(12)
<1>4. CASE SweepAfterHalt(m)
  BY <1>4, SMTT(12) DEF SweepAfterHalt
<1>5. CASE Finish(m)
  BY <1>5, SMTT(12) DEF Finish
<1> QED BY <1>1, <1>2, <1>3, <1>4, <1>5 DEF MissionStep, Plain

(* A step of the tree's leaf keeps HoldersInv. *)
LEMMA LeafStepHolders ==
  ASSUME IInv, HoldersInv, NEW m \in Missions, LeafStep(m)
  PROVE  HoldersInv'
<1> USE MissionsAssumption, ClientsAssumption DEF HoldersInv, ReleasersWork,
      AcquiresExecuted, HeldForAReason, LendKnows, LentIsQuiet, WorkerJoined,
      ReleaseAwaited, Moves, MovePhases, MayHold, ArmPhases, Releasers, Goto,
      IInv, Working, Phases, ClaimIsTheThreads, OneUser, MissionTypeOK, TypeOK,
      ArmTypeOK, LendTypeOK
<1>1. CASE LeafJudged(m)
  <2>1. /\ pc[m] = "ticking" /\ Mode[m] = "EXECUTE"
        /\ UNCHANGED <<pc, armsHeld, letgo, lendVars, main>>
    BY <1>1 DEF LeafJudged, Acts
  <2> HIDE DEF MayHold
  <2> QED BY <2>1, SMTT(12)
<1>2. CASE StepTimesOut(m)
  <2>1. MayHold(holding, unknown) => MayHold(holding', unknown')
    <3>1. HaltLeaf(m) /\ UNCHANGED holding
      BY <1>2 DEF StepTimesOut
    <3> HIDE DEF MayHold
    <3> QED BY <3>1, HaltedMayHold
  <2>2. UNCHANGED <<pc, armsHeld, letgo, lendVars, main>>
    BY <1>2 DEF StepTimesOut
  <2> HIDE DEF MayHold
  <2> QED BY <2>1, <2>2, SMTT(12)
<1>3. CASE StartLeaf(m) \/ SendGoal(m) \/ LeafNotSent(m)
  <2>1. UNCHANGED holderVars
    BY <1>3 DEF StartLeaf, SendGoal, LeafNotSent, holderVars
  <2> QED BY <2>1, HoldersKeep
<1> QED BY <1>1, <1>2, <1>3 DEF LeafStep

(* A step of letGoOfArms(), on any thread, keeps HoldersInv. *)
LEMMA LetGoStepHolders ==
  ASSUME IInv, HoldersInv, NEW t \in Releasers, LetGoStep(t)
  PROVE  HoldersInv'
<1> USE MissionsAssumption, ClientsAssumption DEF HoldersInv, ReleasersWork,
      AcquiresExecuted, HeldForAReason, LendKnows, LentIsQuiet, WorkerJoined,
      ReleaseAwaited, Moves, MovePhases, MayHold, ArmPhases, Releasers, Goto,
      IInv, Working, Phases, ClaimIsTheThreads, OneUser, MissionTypeOK, TypeOK,
      ArmTypeOK, LendTypeOK
<1>1. CASE LetGoLook(t)
  BY <1>1, SMTT(12) DEF LetGoLook
<1>2. CASE ReadFingers(t)
  BY <1>2, SMTT(12) DEF ReadFingers
<1>3. CASE ReleaseArms(t)
  BY <1>3, SMTT(12) DEF ReleaseArms
<1>4. CASE ClearHeld(t)
  BY <1>4, SMTT(12) DEF ClearHeld
<1> QED BY <1>1, <1>2, <1>3, <1>4 DEF LetGoStep

(* Nobody is lent the arms under a mission that takes them or uses them. *)
LEMMA MovesAlone ==
  ASSUME IInv, NEW m \in Missions, Moves(m)
  PROVE  pc[m] \in Working \ {"lettinggo"} /\ lentTo = None
<1>1. pc[m] \in Working \ {"lettinggo"}
  BY DEF Moves, MovePhases, ArmPhases, Working, Phases
<1>2. running = m /\ running # None
  BY <1>1, MissionsAssumption DEF IInv, ClaimIsTheThreads
<1> QED BY <1>1, <1>2 DEF IInv, OneUser, Moves

(* So there is no lend to end, and no release begins under it. *)
LEMMA BackAwaited ==
  ASSUME IInv, HoldersInv, TakeBack, UNCHANGED pc
  PROVE  ReleaseAwaited'
<1>1. \A m \in Missions : Moves(m) => lentTo = None
  BY MovesAlone
<1>2. releasing' = releasing \/ lentTo # None
  BY DEF TakeBack
<1> QED BY <1>1, <1>2 DEF HoldersInv, ReleaseAwaited, Moves

(* A step of stopEverything() keeps HoldersInv. *)
LEMMA StopStepHolders ==
  ASSUME IInv, HoldersInv, NEW s \in Stoppers, StopStep(s)
  PROVE  HoldersInv'
<1> USE MissionsAssumption, ClientsAssumption DEF HoldersInv, ReleasersWork,
      AcquiresExecuted, HeldForAReason, LendKnows, LentIsQuiet, WorkerJoined,
      ReleaseAwaited, Moves, MovePhases, MayHold, ArmPhases, Releasers, Goto,
      IInv, Working, Phases, ClaimIsTheThreads, OneUser, MissionTypeOK, TypeOK,
      ArmTypeOK, LendTypeOK
<1>1. CASE SettleServers(s)
  <2>1. ReleaseAwaited'
    BY <1>1, BackAwaited DEF SettleServers
  <2> HIDE DEF ReleaseAwaited
  <2> QED BY <1>1, <2>1, SMTT(12) DEF SettleServers, TakeBack, At, Busy
<1>2. CASE RaiseFlags(s) \/ CancelGoals(s) \/ AwaitHalted(s) \/ NoteStopped(s)
  <2>1. UNCHANGED holderVars
    BY <1>2 DEF RaiseFlags, CancelGoals, AwaitHalted, NoteStopped, holderVars
  <2> QED BY <2>1, HoldersKeep
<1> QED BY <1>1, <1>2 DEF StopStep

(* A step of a lend keeps HoldersInv. *)
LEMMA LendHolders ==
  ASSUME IInv, HoldersInv, NEW c \in Clients, ClaimLend(c) \/ LendStep(c)
  PROVE  HoldersInv'
<1> USE MissionsAssumption, ClientsAssumption DEF HoldersInv, ReleasersWork,
      AcquiresExecuted, HeldForAReason, LendKnows, LentIsQuiet, WorkerJoined,
      ReleaseAwaited, Moves, MovePhases, MayHold, ArmPhases, Releasers, Goto,
      IInv, Working, Phases, ClaimIsTheThreads, OneUser, MissionTypeOK, TypeOK,
      ArmTypeOK, LendTypeOK
<1>1. CASE ClaimLend(c)
  BY <1>1, SMTT(12) DEF ClaimLend, LendAt, LendGoes, LendEnds, Lendable
<1>2. CASE TimeLend(c)
  BY <1>2, SMTT(12) DEF TimeLend, LendAt, LendGoes, LendEnds, Lendable
<1>3. CASE AcquireToLend(c)
  <2>1. UNCHANGED pc /\ (TakeBack \/ UNCHANGED releasing)
    BY <1>3, Zenon DEF AcquireToLend
  <2>2. ReleaseAwaited'
    <3>1. CASE TakeBack
      BY <2>1, <3>1, BackAwaited
    <3>2. CASE UNCHANGED releasing
      BY <2>1, <3>2
    <3> QED BY <2>1, <3>1, <3>2
  <2> HIDE DEF ReleaseAwaited
  <2> QED BY <1>3, <2>2, SMTT(12) DEF AcquireToLend, Acquired, TakeBack, LendAt,
          LendGoes, LendEnds
<1>4. CASE GrantLend(c)
  BY <1>4, SMTT(12) DEF GrantLend, LendAt, LendGoes, LendEnds, Lendable
<1>5. CASE LendOvertaken(c)
  BY <1>5, SMTT(12) DEF LendOvertaken, LendAt, LendGoes, LendEnds, Lendable
<1>6. CASE RefuseOvertaken(c)
  BY <1>6, SMTT(12) DEF RefuseOvertaken, LendAt, LendGoes, LendEnds, Lendable
<1> QED BY <1>1, <1>2, <1>3, <1>4, <1>5, <1>6 DEF LendStep

(* The steps of the other threads that touch HoldersInv keep it. *)
LEMMA OthersHolders ==
  ASSUME IInv, HoldersInv,
         Shutdown \/ JoinWorker \/ JoinReleaser \/ GoDown \/ GiveBack
         \/ CheckLend \/ ReleaserEnds
  PROVE  HoldersInv'
<1> USE MissionsAssumption, ClientsAssumption DEF HoldersInv, ReleasersWork,
      AcquiresExecuted, HeldForAReason, LendKnows, LentIsQuiet, WorkerJoined,
      ReleaseAwaited, Moves, MovePhases, MayHold, ArmPhases, Releasers, Goto,
      IInv, Working, Phases, ClaimIsTheThreads, OneUser, MissionTypeOK, TypeOK,
      ArmTypeOK, LendTypeOK
<1>1. CASE Shutdown
  BY <1>1, SMTT(12) DEF Shutdown
<1>2. CASE JoinWorker
  BY <1>2, SMTT(12) DEF JoinWorker
<1>3. CASE JoinReleaser
  BY <1>3, SMTT(12) DEF JoinReleaser
<1>4. CASE GoDown
  BY <1>4, SMTT(12) DEF GoDown
<1>5. CASE GiveBack
  <2>1. ReleaseAwaited'
    BY <1>5, BackAwaited DEF GiveBack
  <2> HIDE DEF ReleaseAwaited
  <2> QED BY <1>5, <2>1, SMTT(12) DEF GiveBack, TakeBack
<1>6. CASE CheckLend
  <2>1. ReleaseAwaited'
    BY <1>6, BackAwaited DEF CheckLend
  <2> HIDE DEF ReleaseAwaited
  <2> QED BY <1>6, <2>1, SMTT(12) DEF CheckLend, TakeBack
<1>7. CASE ReleaserEnds
  BY <1>7, SMTT(12) DEF ReleaserEnds
<1> QED BY <1>1, <1>2, <1>3, <1>4, <1>5, <1>6, <1>7

(* No other step is about the variables of HoldersInv. *)
LEMMA ElsewhereHolders ==
  ASSUME HoldersInv,
         \/ \E m \in Missions : CancelMission(m)
         \/ \E m \in Missions : \E k \in StepsOf(m) : ServerStep(m, k)
         \/ \E s \in Deadmen : Deadman(s)
         \/ OnStopAll \/ WatchdogReads \/ WatchdogFires \/ TeleopOn
         \/ TeleopOff \/ TeleopStill \/ BorrowerGrips \/ PassDeadline
         \/ PassLend \/ FallSilent \/ LoseBalance \/ DeactivateArm \/ Rest
         \/ UNCHANGED vars
  PROVE  HoldersInv'
<1>1. UNCHANGED holderVars
  BY DEF CancelMission, ServerStep, AnswerGoal, MoveFingers, EndGoal, Deadman,
      OnStopAll, WatchdogReads, WatchdogFires, TeleopOn, TeleopOff,
      TeleopStill, BorrowerGrips, PassDeadline, PassLend, FallSilent,
      LoseBalance, DeactivateArm, Rest, vars, holderVars
<1> QED BY <1>1, HoldersKeep

(* Every step keeps HoldersInv. *)
LEMMA HoldersStep ==
  ASSUME IInv, HoldersInv, [Next]_vars
  PROVE  HoldersInv'
BY MissionStepHolders, LeafStepHolders, LetGoStepHolders, StopStepHolders,
   LendHolders, OthersHolders, ElsewhereHolders
   DEF Next, ShutdownStep, WorldStep
-----------------------------------------------------------------------------
(***************************************************************************)
(* FlagInv is kept                                                         *)
(***************************************************************************)
flagVars == <<running, halting, halted, pc, leaf, stopper>>

(* A step that leaves its variables alone keeps FlagInv. *)
LEMMA FlagsKeep ==
  ASSUME FlagInv, UNCHANGED flagVars
  PROVE  FlagInv'
BY DEF FlagInv, flagVars, Flagged, LeafPhases, HaltedWhere

(* A step that moves no claim and lowers no flag keeps FlagInv when what   *)
(* it makes a stop hit still runs with halting_ set.                       *)
LEMMA FlagsFollow ==
  ASSUME IInv, FlagInv, UNCHANGED <<running, halted, pc, leaf>>,
         halting => halting',
         \A s \in Stoppers :
            \/ stopper'[s].hit \in {stopper[s].hit, None}
            \/ stopper'[s].hit = running /\ halting'
  PROVE  FlagInv'
<1>1. LeafPhases' /\ HaltedWhere'
  BY DEF FlagInv, LeafPhases, HaltedWhere
<1>2. Flagged'
  <2> SUFFICES ASSUME NEW s \in Stoppers, NEW m \in Missions,
                      stopper'[s].hit = m
               PROVE  /\ pc[m] \notin {"new", "refused"}
                      /\ running = m => halting'
    BY DEF Flagged
  <2>1. CASE stopper[s].hit = m
    BY <2>1 DEF FlagInv, Flagged
  <2>2. CASE m = running /\ halting'
    BY <2>2 DEF IInv, ClaimIsTheThreads, Working
  <2> QED BY <2>1, <2>2, MissionsAssumption
<1> QED BY <1>1, <1>2 DEF FlagInv

(* A step of a mission's thread keeps FlagInv. *)
LEMMA MissionStepFlags ==
  ASSUME IInv, FlagInv, NEW m \in Missions, MissionStep(m)
  PROVE  FlagInv'
<1> USE MissionsAssumption DEF FlagInv, Stoppers, Flagged, LeafPhases,
      HaltedWhere, Goto, Working, Phases, ClaimIsTheThreads, MissionTypeOK,
      LeafTypeOK, TypeOK, IInv
<1>1. CASE StartMission(m)
  BY <1>1, SMTT(12) DEF StartMission
<1>2. CASE ClearHalted(m)
  BY <1>2, SMTT(12) DEF ClearHalted
<1>3. CASE SpawnWorker(m)
  BY <1>3, SMTT(12) DEF SpawnWorker
<1>4. CASE SpawnFails(m)
  BY <1>4, SMTT(12) DEF SpawnFails
<1>5. CASE Execute(m)
  <2>1. PICK phase \in {"closing", "validating"} : Goto(m, phase)
    BY <1>5, Zenon DEF Execute
  <2>2. /\ pc[m] = "entered"
        /\ UNCHANGED <<running, halting, halted, leaf, stopper>>
    BY <1>5 DEF Execute
  <2> QED BY <2>1, <2>2, SMTT(12)
<1>6. CASE RejectTree(m)
  BY <1>6, SMTT(12) DEF RejectTree
<1>7. CASE AcceptTree(m)
  <2>1. PICK phase \in {"closing", "authorising"} : Goto(m, phase)
    BY <1>7, Zenon DEF AcceptTree
  <2>2. /\ pc[m] = "validating"
        /\ UNCHANGED <<running, halting, halted, leaf, stopper>>
    BY <1>7 DEF AcceptTree
  <2> QED BY <2>1, <2>2, SMTT(12)
<1>8. CASE TakeAuthority(m)
  BY <1>8, SMTT(12) DEF TakeAuthority
<1>9. CASE AcquireArms(m)
  <2>1. PICK phase \in {"closing", "ticking"} : Goto(m, phase)
    BY <1>9, Zenon DEF AcquireArms
  <2>2. /\ pc[m] = "acquiring"
        /\ UNCHANGED <<running, halting, halted, leaf, stopper>>
    BY <1>9, Zenon DEF AcquireArms
  <2> QED BY <2>1, <2>2, SMTT(12)
<1>10. CASE Interrupt(m)
  BY <1>10, SMTT(12) DEF Interrupt
<1>11. CASE TreeSucceeds(m)
  BY <1>11, SMTT(12) DEF TreeSucceeds
<1>12. CASE TreeFails(m)
  BY <1>12, SMTT(12) DEF TreeFails
<1>13. CASE TreeThrows(m)
  BY <1>13, SMTT(12) DEF TreeThrows
<1>14. CASE HaltTree(m)
  <2>1. /\ pc[m] = "halting" /\ Goto(m, "settling")
        /\ leaf' = [leaf EXCEPT ![m] = "none"]
        /\ UNCHANGED <<running, halting, halted, stopper>>
    BY <1>14, HaltLeafTurns DEF HaltTree
  <2> QED BY <2>1, SMTT(12)
<1>15. CASE SayHalted(m)
  <2>1. /\ pc[m] = "settling" /\ Goto(m, "sweeping") 
        /\ UNCHANGED <<running, halting, leaf, stopper>>
    BY <1>15 DEF SayHalted
  <2>2. \A n \in Missions : running = n => n = m
    BY <2>1
  <2> QED BY <2>1, <2>2, SMTT(12)
<1>16. CASE SweepAfterHalt(m)
  BY <1>16, SMTT(12) DEF SweepAfterHalt
<1>17. CASE Finish(m)
  BY <1>17, SMTT(12) DEF Finish
<1>18. CASE Finished(m)
  <2>1. /\ pc[m] = "lettinggo" /\ Goto(m, "clearing") 
        /\ UNCHANGED <<running, halting, leaf, stopper>>
    BY <1>18 DEF Finished
  <2>2. \A n \in Missions : running = n => n = m
    BY <2>1
  <2> QED BY <2>1, <2>2, SMTT(12)
<1>19. CASE EndClaim(m)
  BY <1>19, SMTT(12) DEF EndClaim
<1>20. CASE Report(m)
  BY <1>20, SMTT(12) DEF Report
<1> QED BY <1>1, <1>2, <1>3, <1>4, <1>5, <1>6, <1>7, <1>8, <1>9, <1>10, <1>11,
      <1>12, <1>13, <1>14, <1>15, <1>16, <1>17, <1>18, <1>19, <1>20
    DEF MissionStep

(* A step of the tree's leaf keeps FlagInv. *)
LEMMA LeafStepFlags ==
  ASSUME IInv, FlagInv, NEW m \in Missions, LeafStep(m)
  PROVE  FlagInv'
<1> USE MissionsAssumption DEF FlagInv, Stoppers, Flagged, LeafPhases,
      HaltedWhere, Goto, Working, Phases, ClaimIsTheThreads, MissionTypeOK,
      LeafTypeOK, TypeOK, IInv
<1>1. CASE StartLeaf(m)
  <2>1. /\ pc[m] = "ticking" /\ Mode[m] = "EXECUTE"
        /\ leaf' = [leaf EXCEPT ![m] = "starting"]
        /\ UNCHANGED <<running, halting, halted, pc, stopper>>
    BY <1>1 DEF StartLeaf, Acts
  <2> QED BY <2>1, SMTT(12)
<1>2. CASE SendGoal(m)
  BY <1>2, SMTT(12) DEF SendGoal
<1>3. CASE LeafNotSent(m)
  BY <1>3, SMTT(12) DEF LeafNotSent
<1>4. CASE LeafJudged(m)
  BY <1>4, SMTT(12) DEF LeafJudged
<1>5. CASE StepTimesOut(m)
  <2>1. /\ leaf' = [leaf EXCEPT ![m] = "none"]
        /\ UNCHANGED <<running, halting, halted, pc, stopper>>
    BY <1>5, HaltLeafTurns DEF StepTimesOut
  <2> QED BY <2>1, SMTT(12)
<1> QED BY <1>1, <1>2, <1>3, <1>4, <1>5 DEF LeafStep

(* cancelMission() keeps FlagInv. *)
LEMMA CancelMissionFlags ==
  ASSUME IInv, FlagInv, NEW m \in Missions, CancelMission(m)
  PROVE  FlagInv'
<1> USE MissionsAssumption DEF FlagInv, Stoppers, Flagged, LeafPhases,
      HaltedWhere, Goto, Working, Phases, ClaimIsTheThreads, MissionTypeOK,
      LeafTypeOK, TypeOK, IInv
<1>1. CASE CancelMission(m)
  <2>1. /\ UNCHANGED <<running, halted, pc, leaf, stopper>>
        /\ halting => halting'
    BY <1>1 DEF CancelMission
  <2> QED BY <2>1, SMTT(12)
<1> QED BY <1>1

(* A deadman that stops the robot keeps FlagInv. *)
LEMMA DeadmanFlags ==
  ASSUME IInv, FlagInv, NEW s \in Deadmen, Deadman(s)
  PROVE  FlagInv'
<1> USE MissionsAssumption DEF FlagInv, Stoppers, Flagged, LeafPhases,
      HaltedWhere, Goto, Working, Phases, ClaimIsTheThreads, MissionTypeOK,
      LeafTypeOK, TypeOK, IInv
<1>1. CASE Deadman(s)
  <2>1. UNCHANGED <<running, halting, halted, pc, leaf>>
    BY <1>1 DEF Deadman
  <2>2. \A q \in Stoppers : stopper'[q].hit \in {stopper[q].hit, None}
    BY <1>1, StopStarts, SMTT(12) DEF Deadman, StopperTurns, Stoppers
  <2> QED BY <2>1, <2>2, FlagsFollow
<1> QED BY <1>1

(* A step of stopEverything() keeps FlagInv. *)
LEMMA StopStepFlags ==
  ASSUME IInv, FlagInv, NEW s \in Stoppers, StopStep(s)
  PROVE  FlagInv'
<1> USE MissionsAssumption DEF FlagInv, Stoppers, Flagged, LeafPhases,
      HaltedWhere, Goto, Working, Phases, ClaimIsTheThreads, MissionTypeOK,
      LeafTypeOK, TypeOK, IInv
<1>1. CASE RaiseFlags(s)
  <2>1. /\ UNCHANGED <<running, halted, pc, leaf>>
        /\ running # None => halting'
        /\ halting => halting'
    BY <1>1 DEF RaiseFlags
  <2>2. \A q \in Stoppers :
           stopper'[q].hit \in {stopper[q].hit, running}
    BY <1>1, StopperSteps DEF StopperTurns
  <2> QED BY <2>1, <2>2, FlagsFollow
<1>2. CASE CancelGoals(s)
  <2>1. UNCHANGED <<running, halting, halted, pc, leaf>>
    BY <1>2 DEF CancelGoals
  <2>2. \A q \in Stoppers : stopper'[q].hit = stopper[q].hit
    BY <1>2, StopperSteps, ZenonT(40) DEF StopperTurns
  <2> QED BY <2>1, <2>2, FlagsFollow
<1>3. CASE AwaitHalted(s)
  <2>1. UNCHANGED <<running, halting, halted, pc, leaf>>
    BY <1>3 DEF AwaitHalted
  <2>2. \A q \in Stoppers : stopper'[q].hit = stopper[q].hit
    BY <1>3, StopperSteps, ZenonT(40) DEF StopperTurns
  <2> QED BY <2>1, <2>2, FlagsFollow
<1>4. CASE SettleServers(s)
  <2>1. UNCHANGED <<running, halting, halted, pc, leaf>>
    BY <1>4 DEF SettleServers
  <2>2. \A q \in Stoppers : stopper'[q].hit = stopper[q].hit
    BY <1>4, StopperSteps, ZenonT(40) DEF StopperTurns
  <2> QED BY <2>1, <2>2, FlagsFollow
<1>5. CASE NoteStopped(s)
  <2>1. UNCHANGED <<running, halting, halted, pc, leaf>>
    BY <1>5 DEF NoteStopped
  <2>2. \A q \in Stoppers : stopper'[q].hit = stopper[q].hit
    BY <1>5, StopperSteps, ZenonT(40) DEF StopperTurns
  <2> QED BY <2>1, <2>2, FlagsFollow
<1> QED BY <1>1, <1>2, <1>3, <1>4, <1>5 DEF StopStep

(* The steps of the other threads that touch FlagInv keep it. *)
LEMMA OthersFlags ==
  ASSUME IInv, FlagInv, OnStopAll \/ WatchdogFires \/ Shutdown
  PROVE  FlagInv'
<1> USE MissionsAssumption DEF FlagInv, Stoppers, Flagged, LeafPhases,
      HaltedWhere, Goto, Working, Phases, ClaimIsTheThreads, MissionTypeOK,
      LeafTypeOK, TypeOK, IInv
<1>1. CASE OnStopAll
  <2>1. UNCHANGED <<running, halting, halted, pc, leaf>>
    BY <1>1 DEF OnStopAll
  <2>2. \A q \in Stoppers : stopper'[q].hit \in {stopper[q].hit, None}
    BY <1>1, StopStarts, SMTT(12) DEF OnStopAll, StopperTurns, Stoppers
  <2> QED BY <2>1, <2>2, FlagsFollow
<1>2. CASE WatchdogFires
  BY <1>2, SMTT(12) DEF WatchdogFires
<1>3. CASE Shutdown
  BY <1>3, SMTT(12) DEF Shutdown
<1> QED BY <1>1, <1>2, <1>3

(* No other step is about the variables of FlagInv. *)
LEMMA ElsewhereFlags ==
  ASSUME FlagInv,
         \/ \E m \in Missions : \E k \in StepsOf(m) : ServerStep(m, k)
         \/ \E t \in Releasers : LetGoStep(t)
         \/ \E c \in Clients : ClaimLend(c) \/ LendStep(c)
         \/ WatchdogReads \/ JoinWorker \/ JoinReleaser \/ GoDown
         \/ GiveBack \/ CheckLend \/ ReleaserEnds \/ TeleopOn \/ TeleopOff
         \/ TeleopStill \/ BorrowerGrips \/ PassDeadline \/ PassLend
         \/ FallSilent \/ LoseBalance \/ DeactivateArm \/ Rest
         \/ UNCHANGED vars
  PROVE  FlagInv'
<1>1. UNCHANGED flagVars
  BY DEF ServerStep, AnswerGoal, MoveFingers, EndGoal, LetGoStep, LetGoLook,
      ReadFingers, ReleaseArms, ClearHeld, LendStep, ClaimLend, TimeLend,
      AcquireToLend, GrantLend, LendOvertaken, RefuseOvertaken, WatchdogReads,
      JoinWorker, JoinReleaser, GoDown, GiveBack, CheckLend, ReleaserEnds,
      TeleopOn, TeleopOff, TeleopStill, BorrowerGrips, PassDeadline, PassLend,
      FallSilent, LoseBalance, DeactivateArm, Rest, vars, flagVars
<1> QED BY <1>1, FlagsKeep

(* Every step keeps FlagInv. *)
LEMMA FlagsStep ==
  ASSUME IInv, FlagInv, [Next]_vars
  PROVE  FlagInv'
BY MissionStepFlags, LeafStepFlags, CancelMissionFlags, DeadmanFlags,
   StopStepFlags, OthersFlags, ElsewhereFlags
   DEF Next, ShutdownStep, WorldStep
-----------------------------------------------------------------------------
(***************************************************************************)
(* AnswerInv is kept, when servers answer in time                          *)
(***************************************************************************)
answerVars == <<stopper, pc, cur, leaf, goal>>

(* AnswerInv is kept when no goal is sent, no leaf moves, no thread leaves *)
(* "settling" with an unanswered goal, and a stop keeps what it promises.  *)
LEMMA AnswersFollow ==
  ASSUME AnswerInv, UNCHANGED <<cur, leaf>>,
         \A m \in Missions : \A k \in 1..MaxSteps :
            /\ goal'[m][k] = "sent" => goal[m][k] = "sent"
            /\ goal'[m][k] \in InFlight => goal[m][k] \in InFlight,
         \A m \in Missions : pc[m] = "settling" =>
            pc'[m] = "settling" \/ \A k \in 1..MaxSteps : goal[m][k] # "sent",
         \A s \in Stoppers :
            \/ stopper'[s] = stopper[s]
            \/ ~stopper'[s].ok
            \/ /\ stopper[s].ok /\ stopper'[s].hit = stopper[s].hit
               /\ stopper'[s].at # "asked"
               /\ stopper'[s].at \in {"note", "idle"} => stopper[s].at = "note"
  PROVE  AnswerInv'
<1>1. SentAwaited'
  BY DEF AnswerInv, SentAwaited
<1>2. OkIsQuiet'
  BY DEF AnswerInv, OkIsQuiet, QuietAnswer
<1> QED BY <1>1, <1>2 DEF AnswerInv

(* A step that leaves its variables alone keeps AnswerInv. *)
LEMMA AnswersKeep ==
  ASSUME AnswerInv, UNCHANGED answerVars
  PROVE  AnswerInv'
BY DEF AnswerInv, answerVars, SentAwaited, OkIsQuiet, QuietAnswer

(* A thread that changes its phase, and not from "settling", keeps it. *)
LEMMA ThreadMoves ==
  ASSUME TypeOK, AnswerInv, NEW m \in Missions, NEW phase,
         Goto(m, phase), pc[m] # "settling",
         UNCHANGED <<stopper, cur, leaf, goal>>
  PROVE  AnswerInv'
<1>1. \A n \in Missions : pc[n] = "settling" => pc'[n] = "settling"
  BY DEF Goto, TypeOK, MissionTypeOK
<1> QED BY <1>1, AnswersFollow

(* A leaf that ends keeps it when its goal is answered or still awaited. *)
LEMMA LeafEnds ==
  ASSUME TypeOK, AnswerInv, NEW m \in Missions,
         leaf' = [leaf EXCEPT ![m] = "none"],
         \/ pc'[m] = "settling" \/ GoalAt(m) # "sent"
         \/ \A k \in 1..MaxSteps : goal[m][k] # "sent",
         pc[m] # "settling",
         \A n \in Missions \ {m} : pc'[n] = pc[n],
         \A n \in Missions : \A k \in 1..MaxSteps :
            /\ goal'[n][k] = "sent" => goal[n][k] = "sent"
            /\ goal'[n][k] \in InFlight => goal[n][k] \in InFlight,
         UNCHANGED <<stopper, cur>>
  PROVE  AnswerInv'
<1>1. \A n \in Missions : leaf'[n] = IF n = m THEN "none" ELSE leaf[n]
  BY DEF TypeOK, LeafTypeOK
<1>2. SentAwaited'
  BY <1>1 DEF AnswerInv, SentAwaited, GoalAt
<1>3. OkIsQuiet'
  BY <1>1 DEF AnswerInv, OkIsQuiet, QuietAnswer
<1> QED BY <1>2, <1>3 DEF AnswerInv

(* A leaf that is halted keeps it, where the thread stays or settles. *)
LEMMA LeafHalts ==
  ASSUME IInv, AnswerInv, NEW m \in Missions, HaltLeaf(m),
         pc'[m] = "settling" \/ GoalAt(m) # "sent",
         pc[m] # "settling",
         \A n \in Missions \ {m} : pc'[n] = pc[n],
         UNCHANGED <<stopper, cur>>
  PROVE  AnswerInv'
<1>1. TypeOK /\ LeafInPlan
  BY DEF IInv
<1> QED BY <1>1, HaltLeafTurns, LeafEnds

(* A step of a mission's thread keeps AnswerInv. *)
LEMMA MissionStepAnswers ==
  ASSUME IInv, FlagInv, PromptServers, AnswerInv,
         NEW m \in Missions, MissionStep(m)
  PROVE  AnswerInv'
<1> USE DEF IInv, FlagInv
<1>1. CASE Plain(m)
  <2>1. PICK to : PlainMove(m, to)
    BY <1>1, PlainMoves
  <2>2. \A n \in Missions : pc[n] = "settling" =>
           pc'[n] = "settling" \/ \A k \in 1..MaxSteps : goal[n][k] # "sent"
    BY <2>1 DEF PlainMove, PlainEdge, Goto, TypeOK, MissionTypeOK
  <2> QED BY <2>1, <2>2, AnswersFollow DEF PlainMove
<1>2. CASE AcquireArms(m)
  <2>1. PICK phase \in {"closing", "ticking"} : Goto(m, phase)
    BY <1>2, Zenon DEF AcquireArms
  <2>2. pc[m] = "acquiring" /\ UNCHANGED <<stopper, cur, leaf, goal>>
    BY <1>2 DEF AcquireArms
  <2> QED BY <2>1, <2>2, ThreadMoves
<1>3. CASE HaltTree(m)
  <2>1. /\ pc[m] = "halting" /\ Goto(m, "settling") /\ HaltLeaf(m)
        /\ UNCHANGED <<stopper, cur>>
    BY <1>3 DEF HaltTree
  <2>2. \A n \in Missions : pc'[n] = IF n = m THEN "settling" ELSE pc[n]
    BY <2>1 DEF Goto, TypeOK, MissionTypeOK
  <2> QED BY <2>1, <2>2, LeafHalts
<1>4. CASE SweepAfterHalt(m)
  <2>1. /\ pc[m] = "sweeping" /\ Goto(m, "closing") /\ CancelAll
        /\ UNCHANGED <<stopper, cur, leaf>>
    BY <1>4 DEF SweepAfterHalt
  <2>2. \A n \in Missions : pc[n] = "settling" => pc'[n] = "settling"
    BY <2>1 DEF Goto, TypeOK, MissionTypeOK
  <2> QED BY <2>1, <2>2, AskedGoals, AnswersFollow
<1>5. CASE Finish(m)
  <2>1. /\ pc[m] = "closing" /\ Goto(m, "lettinggo")
        /\ UNCHANGED <<stopper, cur, leaf, goal>>
    BY <1>5 DEF Finish
  <2> QED BY <2>1, ThreadMoves
<1> QED BY <1>1, <1>2, <1>3, <1>4, <1>5 DEF MissionStep, Plain

(* A step of the tree's leaf keeps AnswerInv. *)
LEMMA LeafStepAnswers ==
  ASSUME IInv, FlagInv, PromptServers, AnswerInv,
         NEW m \in Missions, LeafStep(m)
  PROVE  AnswerInv'
<1> USE DEF IInv, FlagInv
<1>1. CASE StartLeaf(m)
  <2>1. /\ leaf[m] = "none" /\ pc[m] = "ticking" /\ ~halting
        /\ leaf' = [leaf EXCEPT ![m] = "starting"]
        /\ cur' = [cur EXCEPT ![m] = @ + 1]
        /\ UNCHANGED <<stopper, pc, goal>>
    BY <1>1 DEF StartLeaf, Acts
  <2>2. running = m
    BY <2>1 DEF ClaimIsTheThreads, Working, Phases
  <2>3. \A s \in Stoppers : stopper[s].hit # m
    BY <2>1, <2>2 DEF Flagged
  <2>4. \A k \in 1..MaxSteps : goal[m][k] # "sent"
    BY <2>1 DEF AnswerInv, SentAwaited
  <2>5. \A n \in Missions \ {m} : leaf'[n] = leaf[n] /\ cur'[n] = cur[n]
    BY <2>1 DEF TypeOK, LeafTypeOK
  <2> QED BY <2>1, <2>3, <2>4, <2>5 DEF AnswerInv, SentAwaited, OkIsQuiet,
             QuietAnswer
<1>2. CASE SendGoal(m)
  <2>1. /\ leaf[m] = "starting" /\ pc[m] = "ticking"
        /\ leaf' = [leaf EXCEPT ![m] = "out"]
        /\ goal' = [goal EXCEPT ![m][cur[m]] = "sent"]
        /\ UNCHANGED <<stopper, cur, pc>>
    BY <1>2 DEF SendGoal, Acts, SetGoal
  <2>2. cur[m] \in 1..MaxSteps
    BY <2>1, PlanSteps DEF LeafInPlan
  <2>3. GoalTurns(m, cur[m], "sent")
    BY <2>1, <2>2, GoalSetTurns
  <2>4. \A s \in Stoppers : stopper[s].hit = m => ~stopper[s].ok
    BY <2>1 DEF AnswerInv, OkIsQuiet, QuietAnswer
  <2>5. \A n \in Missions : leaf'[n] = IF n = m THEN "out" ELSE leaf[n]
    BY <2>1 DEF TypeOK, LeafTypeOK
  <2>6. \A k \in 1..MaxSteps : goal[m][k] # "sent"
    BY <2>1 DEF AnswerInv, SentAwaited
  <2>7. SentAwaited'
    BY <2>1, <2>3, <2>5, <2>6 DEF AnswerInv, SentAwaited, GoalTurns
  <2>8. OkIsQuiet'
    BY <2>1, <2>3, <2>4, <2>5 DEF AnswerInv, OkIsQuiet, QuietAnswer, GoalTurns
  <2> QED BY <2>7, <2>8 DEF AnswerInv
<1>3. CASE LeafNotSent(m)
  <2>1. /\ leaf[m] = "starting" /\ pc[m] = "ticking"
        /\ leaf' = [leaf EXCEPT ![m] = "none"]
        /\ UNCHANGED <<stopper, cur, pc, goal>>
    BY <1>3 DEF LeafNotSent, Acts
  <2>2. \A k \in 1..MaxSteps : goal[m][k] # "sent"
    BY <2>1 DEF AnswerInv, SentAwaited
  <2> QED BY <2>1, <2>2, LeafEnds
<1>4. CASE LeafJudged(m)
  <2>1. /\ GoalAt(m) # "sent" /\ pc[m] = "ticking"
        /\ leaf' = [leaf EXCEPT ![m] = "none"]
        /\ UNCHANGED <<stopper, cur, pc, goal>>
    BY <1>4 DEF LeafJudged, Acts
  <2> QED BY <2>1, LeafEnds
<1>5. CASE StepTimesOut(m)
  <2>1. /\ HaltLeaf(m) /\ GoalAt(m) # "sent" /\ pc[m] = "ticking"
        /\ UNCHANGED <<stopper, cur, pc>>
    BY <1>5 DEF StepTimesOut, Acts
  <2> QED BY <2>1, LeafHalts
<1> QED BY <1>1, <1>2, <1>3, <1>4, <1>5 DEF LeafStep

(* What a server does with a goal keeps AnswerInv. *)
LEMMA ServerStepAnswers ==
  ASSUME IInv, FlagInv, PromptServers, AnswerInv,
         NEW m \in Missions, NEW k \in StepsOf(m), ServerStep(m, k)
  PROVE  AnswerInv'
<1> USE DEF IInv, FlagInv
<1>1. CASE AnswerGoal(m, k)
  <2>1. /\ goal[m][k] = "sent"
        /\ \/ goal' = [goal EXCEPT ![m][k] = "active"]
           \/ goal' = [goal EXCEPT ![m][k] = "failed"]
        /\ UNCHANGED <<stopper, cur, pc, leaf>>
    BY <1>1 DEF AnswerGoal
  <2>2. k \in 1..MaxSteps
    BY PlanSteps DEF StepsOf
  <2>3. GoalTurns(m, k, "active") \/ GoalTurns(m, k, "failed")
    BY <2>1, <2>2, GoalSetTurns
  <2>4. \A s \in Stoppers : stopper[s].hit = m => ~stopper[s].ok
    BY <2>1, <2>2 DEF AnswerInv, OkIsQuiet, QuietAnswer
  <2>7. SentAwaited'
    BY <2>1, <2>3 DEF AnswerInv, SentAwaited, GoalTurns
  <2>8. OkIsQuiet'
    BY <2>1, <2>3, <2>4 DEF AnswerInv, OkIsQuiet, QuietAnswer, GoalTurns
  <2> QED BY <2>7, <2>8 DEF AnswerInv
<1>2. CASE EndGoal(m, k)
  <2>1. /\ \/ goal' = [goal EXCEPT ![m][k] = "succeeded"]
           \/ goal' = [goal EXCEPT ![m][k] = "failed"]
        /\ UNCHANGED <<stopper, cur, pc, leaf>>
    BY <1>2 DEF EndGoal
  <2>2. k \in 1..MaxSteps
    BY PlanSteps DEF StepsOf
  <2>3. GoalTurns(m, k, "succeeded") \/ GoalTurns(m, k, "failed")
    BY <2>1, <2>2, GoalSetTurns
  <2> QED BY <2>1, <2>3, AnswersFollow DEF GoalTurns, InFlight
<1>3. CASE MoveFingers(m, k)
  <2>1. UNCHANGED answerVars
    BY <1>3 DEF MoveFingers, answerVars
  <2> QED BY <2>1, AnswersKeep
<1> QED BY <1>1, <1>2, <1>3 DEF ServerStep

(* A deadman that stops the robot keeps AnswerInv. *)
LEMMA DeadmanAnswers ==
  ASSUME IInv, FlagInv, PromptServers, AnswerInv,
         NEW s \in Deadmen, Deadman(s)
  PROVE  AnswerInv'
<1> USE DEF IInv, FlagInv
<1>1. CASE Deadman(s)
  <2>1. UNCHANGED <<cur, pc, leaf, goal>>
    BY <1>1 DEF Deadman
  <2>2. \A q \in Stoppers : stopper'[q] = stopper[q] \/ ~stopper'[q].ok
    BY <1>1, StopStarts, SMTT(12) DEF Deadman, StopperTurns, Stoppers
  <2> QED BY <2>1, <2>2, AnswersFollow
<1> QED BY <1>1

(* A step of stopEverything() keeps AnswerInv. *)
LEMMA StopStepAnswers ==
  ASSUME IInv, FlagInv, PromptServers, AnswerInv,
         NEW s \in Stoppers, StopStep(s)
  PROVE  AnswerInv'
<1> USE DEF IInv, FlagInv
<1>1. CASE RaiseFlags(s)
  <2>1. stopper[s].at = "asked" /\ UNCHANGED <<cur, pc, leaf, goal>>
    BY <1>1 DEF RaiseFlags, At
  <2>2. \A q \in Stoppers : stopper'[q] = stopper[q] \/ ~stopper'[q].ok
    BY <1>1, <2>1, StopperSteps DEF StopperTurns, AnswerInv, OkIsQuiet,
       QuietAnswer
  <2> QED BY <2>1, <2>2, AnswersFollow
<1>2. CASE CancelGoals(s)
  <2>1. stopper[s].at = "cancel" /\ CancelAll /\ UNCHANGED <<cur, pc, leaf>>
    BY <1>2 DEF CancelGoals, At
  <2>2. StopperTurns(s, "wait", stopper[s].hit, stopper[s].ok)
    BY <1>2, StopperSteps
  <2> QED BY <2>1, <2>2, AskedGoals, AnswersFollow DEF StopperTurns
<1>3. CASE AwaitHalted(s)
  <2>1. stopper[s].at = "wait" /\ CancelAll /\ UNCHANGED <<cur, pc, leaf>>
    BY <1>3 DEF AwaitHalted, At
  <2>2. StopperTurns(s, "settle", stopper[s].hit,
                     halted \/ stopper[s].hit = None)
    BY <1>3, StopperSteps
  <2>3. ASSUME NEW m \in Missions, stopper[s].hit = m, halted
        PROVE  leaf[m] = "none" /\ \A k \in 1..MaxSteps : goal[m][k] # "sent"
    <3>1. pc[m] \notin {"ticking", "halting", "settling"}
      BY <2>3 DEF HaltedWhere, ClaimIsTheThreads, Working, Phases
    <3> QED BY <3>1 DEF LeafPhases, AnswerInv, SentAwaited, TypeOK, LeafTypeOK
  <2>4. SentAwaited'
    BY <2>1, AskedGoals DEF AnswerInv, SentAwaited
  <2>5. ASSUME NEW q \in Stoppers PROVE QuietAnswer(q)'
    <3>1. CASE q # s
      BY <2>1, <2>2, <3>1, AskedGoals DEF AnswerInv, OkIsQuiet, QuietAnswer,
         StopperTurns
    <3>2. CASE q = s
      <4>1. stopper'[s].at = "settle"
        BY <2>2 DEF StopperTurns
      <4>2. ASSUME NEW m \in Missions, stopper'[s].hit = m, stopper'[s].ok
            PROVE  /\ leaf'[m] = "none"
                   /\ \A k \in 1..MaxSteps : goal'[m][k] # "sent"
        <5>1. stopper[s].hit = m /\ halted
          BY <2>2, <4>2, MissionsAssumption DEF StopperTurns
        <5> QED BY <2>1, <2>3, <5>1, AskedGoals
      <4> QED BY <3>2, <4>1, <4>2 DEF QuietAnswer
    <3> QED BY <3>1, <3>2
  <2> QED BY <2>4, <2>5 DEF AnswerInv, OkIsQuiet, QuietAnswer
<1>4. CASE SettleServers(s)
  <2>1. stopper[s].at = "settle" /\ UNCHANGED <<cur, pc, leaf, goal>>
    BY <1>4 DEF SettleServers, At
  <2>2. StopperTurns(s, "note", stopper[s].hit, stopper[s].ok /\ ~Busy)
    BY <1>4, StopperSteps
  <2>3. ASSUME NEW q \in Stoppers PROVE QuietAnswer(q)'
    <3>1. CASE q # s
      BY <2>1, <2>2, <3>1 DEF AnswerInv, OkIsQuiet, QuietAnswer, StopperTurns
    <3>2. CASE q = s
      BY <2>1, <2>2, <3>2 DEF AnswerInv, OkIsQuiet, QuietAnswer, StopperTurns,
         Busy
    <3> QED BY <3>1, <3>2
  <2> QED BY <2>1, <2>3 DEF AnswerInv, SentAwaited, OkIsQuiet, QuietAnswer
<1>5. CASE NoteStopped(s)
  <2>1. stopper[s].at = "note" /\ UNCHANGED <<cur, pc, leaf, goal>>
    BY <1>5 DEF NoteStopped, At
  <2>2. StopperTurns(s, "idle", stopper[s].hit, stopper[s].ok)
    BY <1>5, StopperSteps
  <2> QED BY <2>1, <2>2, AnswersFollow DEF StopperTurns
<1> QED BY <1>1, <1>2, <1>3, <1>4, <1>5 DEF StopStep

(* The steps of the other threads that touch AnswerInv keep it. *)
LEMMA OthersAnswers ==
  ASSUME IInv, FlagInv, PromptServers, AnswerInv, OnStopAll
  PROVE  AnswerInv'
<1> USE DEF IInv, FlagInv
<1>1. CASE OnStopAll
  <2>1. UNCHANGED <<cur, pc, leaf, goal>>
    BY <1>1 DEF OnStopAll
  <2>2. \A q \in Stoppers : stopper'[q] = stopper[q] \/ ~stopper'[q].ok
    BY <1>1, StopStarts, SMTT(12) DEF OnStopAll, StopperTurns, Stoppers
  <2> QED BY <2>1, <2>2, AnswersFollow
<1> QED BY <1>1

(* No other step is about the variables of AnswerInv. *)
LEMMA ElsewhereAnswers ==
  ASSUME AnswerInv,
         \/ \E m \in Missions : CancelMission(m)
         \/ \E t \in Releasers : LetGoStep(t)
         \/ \E c \in Clients : ClaimLend(c) \/ LendStep(c)
         \/ WatchdogReads \/ WatchdogFires \/ Shutdown \/ JoinWorker
         \/ JoinReleaser \/ GoDown \/ GiveBack \/ CheckLend \/ ReleaserEnds
         \/ TeleopOn \/ TeleopOff \/ TeleopStill \/ BorrowerGrips
         \/ PassDeadline \/ PassLend \/ FallSilent \/ LoseBalance
         \/ DeactivateArm \/ Rest \/ UNCHANGED vars
  PROVE  AnswerInv'
<1>1. UNCHANGED answerVars
  BY DEF CancelMission, LetGoStep, LetGoLook, ReadFingers, ReleaseArms,
      ClearHeld, LendStep, ClaimLend, TimeLend, AcquireToLend, GrantLend,
      LendOvertaken, RefuseOvertaken, WatchdogReads, WatchdogFires, Shutdown,
      JoinWorker, JoinReleaser, GoDown, GiveBack, CheckLend, ReleaserEnds,
      TeleopOn, TeleopOff, TeleopStill, BorrowerGrips, PassDeadline, PassLend,
      FallSilent, LoseBalance, DeactivateArm, Rest, vars, answerVars
<1> QED BY <1>1, AnswersKeep

(* Every step keeps AnswerInv. *)
LEMMA AnswersStep ==
  ASSUME IInv, FlagInv, PromptServers, AnswerInv, [Next]_vars
  PROVE  AnswerInv'
BY MissionStepAnswers, LeafStepAnswers, ServerStepAnswers, DeadmanAnswers,
   StopStepAnswers, OthersAnswers, ElsewhereAnswers
   DEF Next, ShutdownStep, WorldStep
-----------------------------------------------------------------------------
(***************************************************************************)
(* LentInv is kept, when nobody runs deactivate_arm                        *)
(***************************************************************************)
lentVars == <<lentTo, lender, letgo, armsHeld, armsTaken, main>>

(* A step that leaves its variables alone keeps LentInv. *)
LEMMA LentKeep ==
  ASSUME LentInv, UNCHANGED lentVars
  PROVE  LentInv'
BY DEF LentInv, lentVars, HeldIsTaken, LentIsTaken

(* Nobody lets go of the arms while they are lent or being lent. *)
LEMMA LentLetsGoNot ==
  ASSUME IInv, HoldersInv, lentTo # None, main = "up"
  PROVE  \A t \in Releasers : letgo[t] = "idle"
<1>1. letgo["mission"] = "idle"
  <2> SUFFICES ASSUME NEW m \in Missions, pc[m] = "lettinggo",
                      Mode[m] = "EXECUTE"
               PROVE  FALSE
    BY DEF HoldersInv, ReleasersWork
  <2>1. running = m /\ m # None
    BY MissionsAssumption DEF IInv, ClaimIsTheThreads, Working, Phases
  <2> QED BY <2>1 DEF IInv, OneUser
<1>2. letgo["releaser"] = "idle" /\ letgo["lend"] = "idle"
  BY DEF HoldersInv, ReleasersWork, LentIsQuiet
<1>3. letgo["main"] = "idle"
  BY DEF HoldersInv, ReleasersWork
<1> QED BY <1>1, <1>2, <1>3 DEF Releasers

(* A step that frees no arms and moves no releaser keeps LentInv. *)
LEMMA LentFollows ==
  ASSUME LentInv, UNCHANGED <<armsHeld, armsTaken>>,
         \A t \in Releasers : letgo[t] = "clear" => letgo'[t] = "clear",
         main' = "up" => main = "up",
         \/ lentTo' = None
         \/ /\ lentTo' = lentTo
            /\ lender'.at \in {"idle", "recheck"}
               => lender.at \in {"idle", "recheck"}
  PROVE  LentInv'
BY DEF LentInv, HeldIsTaken, LentIsTaken

(* Taking the arms back from a client starts the releaser alone. *)
LEMMA TakenBack ==
  ASSUME TypeOK, HoldersInv, TakeBack
  PROVE  /\ lentTo' = None
         /\ \A t \in Releasers : letgo[t] = "clear" => letgo'[t] = "clear"
<1>1. CASE lentTo = None
  BY <1>1 DEF TakeBack
<1>2. CASE lentTo # None
  <2>1. /\ letgo' = [letgo EXCEPT !["releaser"] = "look"]
        /\ "releaser" \in Releasers
    BY <1>2 DEF TakeBack, Releasers
  <2>2. letgo["releaser"] = "idle"
    BY <1>2 DEF HoldersInv, ReleasersWork, LentIsQuiet
  <2> QED BY <1>2, <2>1, <2>2, LetGoTurns DEF TakeBack
<1> QED BY <1>1, <1>2

(* A step of a mission's thread keeps LentInv. *)
LEMMA MissionStepLent ==
  ASSUME IInv, HoldersInv, LentInv, "deactivate" \notin Requests,
         NEW m \in Missions, MissionStep(m)
  PROVE  LentInv'
<1> USE DEF IInv
<1>1. CASE AcquireArms(m)
  BY <1>1, SMTT(12) DEF AcquireArms, HandsAfter, Acquired, LentInv,
      HeldIsTaken, LentIsTaken, TypeOK, ArmTypeOK, Releasers
<1>2. CASE Finish(m)
  <2>1. /\ pc[m] = "closing"
        /\ letgo' \in {letgo, [letgo EXCEPT !["mission"] = "look"]}
        /\ UNCHANGED <<armsHeld, armsTaken, lentTo, lender, main>>
    BY <1>2 DEF Finish
  <2>2. running = m
    BY <2>1 DEF ClaimIsTheThreads, Working, Phases
  <2>3. letgo["mission"] = "idle"
    BY <2>1, <2>2 DEF HoldersInv, ReleasersWork, ClaimIsTheThreads, Working,
       Phases
  <2>4. "mission" \in Releasers
    BY DEF Releasers
  <2> QED BY <2>1, <2>3, <2>4, LetGoTurns, LentFollows
<1>3. CASE StartMission(m) \/ ClearHalted(m) \/ SpawnWorker(m)
           \/ SpawnFails(m) \/ Execute(m) \/ RejectTree(m) \/ AcceptTree(m)
           \/ TakeAuthority(m) \/ Interrupt(m) \/ TreeSucceeds(m)
           \/ TreeFails(m) \/ TreeThrows(m) \/ HaltTree(m) \/ SayHalted(m)
           \/ SweepAfterHalt(m) \/ Finished(m) \/ EndClaim(m) \/ Report(m)
  <2>1. UNCHANGED lentVars
    BY <1>3 DEF StartMission, ClearHalted, SpawnWorker, SpawnFails, Execute,
      RejectTree, AcceptTree, TakeAuthority, Interrupt, TreeSucceeds,
      TreeFails, TreeThrows, HaltTree, SayHalted, SweepAfterHalt, Finished,
      EndClaim, Report, lentVars
  <2> QED BY <2>1, LentKeep
<1> QED BY <1>1, <1>2, <1>3 DEF MissionStep

(* A step of letGoOfArms(), on any thread, keeps LentInv. *)
LEMMA LetGoStepLent ==
  ASSUME IInv, HoldersInv, LentInv, "deactivate" \notin Requests,
         NEW t \in Releasers, LetGoStep(t)
  PROVE  LentInv'
<1> USE DEF IInv
<1>1. CASE LetGoLook(t)
  BY <1>1, SMTT(12) DEF LetGoLook, LentInv, HeldIsTaken, LentIsTaken, TypeOK,
      ArmTypeOK, Releasers
<1>2. CASE ReadFingers(t)
  BY <1>2, SMTT(12) DEF ReadFingers, LentInv, HeldIsTaken, LentIsTaken, TypeOK,
      ArmTypeOK, Releasers
<1>3. CASE ReleaseArms(t)
  <2>1. /\ letgo[t] = "release" /\ letgo' = [letgo EXCEPT ![t] = "clear"]
        /\ UNCHANGED <<lentTo, lender, main>>
    BY <1>3 DEF ReleaseArms
  <2>2. letgo'[t] = "clear"
    BY <2>1, LetGoTurns, ZenonT(40)
  <2>3. ~(lentTo # None /\ main = "up")
    BY <2>1, LentLetsGoNot
  <2> QED BY <2>1, <2>2, <2>3 DEF LentInv, HeldIsTaken, LentIsTaken
<1>4. CASE ClearHeld(t)
  BY <1>4, SMTT(12) DEF ClearHeld, LentInv, HeldIsTaken, LentIsTaken, TypeOK,
      ArmTypeOK, Releasers
<1> QED BY <1>1, <1>2, <1>3, <1>4 DEF LetGoStep

(* A step of stopEverything() keeps LentInv. *)
LEMMA StopStepLent ==
  ASSUME IInv, HoldersInv, LentInv, "deactivate" \notin Requests,
         NEW s \in Stoppers, StopStep(s)
  PROVE  LentInv'
<1> USE DEF IInv
<1>1. CASE SettleServers(s)
  <2>1. TakeBack /\ UNCHANGED <<armsHeld, armsTaken, main>>
    BY <1>1 DEF SettleServers
  <2> QED BY <2>1, TakenBack, LentFollows
<1>2. CASE RaiseFlags(s) \/ CancelGoals(s) \/ AwaitHalted(s) \/ NoteStopped(s)
  <2>1. UNCHANGED lentVars
    BY <1>2 DEF RaiseFlags, CancelGoals, AwaitHalted, NoteStopped, lentVars
  <2> QED BY <2>1, LentKeep
<1> QED BY <1>1, <1>2 DEF StopStep

(* A step of a lend keeps LentInv. *)
LEMMA LendLent ==
  ASSUME IInv, HoldersInv, LentInv, "deactivate" \notin Requests,
         NEW c \in Clients, ClaimLend(c) \/ LendStep(c)
  PROVE  LentInv'
<1> USE DEF IInv
<1>1. CASE ClaimLend(c)
  BY <1>1, SMTT(12) DEF ClaimLend, LendAt, LendGoes, LendEnds, Lendable,
      LentInv, HeldIsTaken, LentIsTaken, TypeOK, ArmTypeOK, Releasers
<1>2. CASE TimeLend(c)
  <2>1. /\ lender'.at = IF armsHeld THEN "recheck" ELSE "acquiring"
        /\ UNCHANGED <<armsHeld, armsTaken, letgo, lentTo, main>>
    BY <1>2 DEF TimeLend, LendGoes
  <2>2. lentTo # None /\ main = "up" /\ armsHeld => armsTaken
    BY LentLetsGoNot DEF LentInv, HeldIsTaken
  <2> QED BY <2>1, <2>2 DEF LentInv, HeldIsTaken, LentIsTaken
<1>3. CASE AcquireToLend(c)
  <2>1. UNCHANGED main
    BY <1>3 DEF AcquireToLend
  <2>2. CASE armsTaken'
    BY <2>2 DEF LentInv, HeldIsTaken, LentIsTaken
  <2>3. CASE ~armsTaken'
    <3>1. TakeBack /\ UNCHANGED <<armsHeld, armsTaken>>
      BY <1>3, <2>3 DEF AcquireToLend
    <3> QED BY <2>1, <3>1, TakenBack, LentFollows
  <2> QED BY <2>2, <2>3
<1>4. CASE GrantLend(c)
  BY <1>4, SMTT(12) DEF GrantLend, LendAt, LendGoes, LendEnds, Lendable,
      LentInv, HeldIsTaken, LentIsTaken, TypeOK, ArmTypeOK, Releasers
<1>5. CASE LendOvertaken(c)
  <2>1. /\ lender.at = "recheck" /\ lender'.at = "overtaken"
        /\ letgo' = [letgo EXCEPT !["lend"] = "look"] /\ "lend" \in Releasers
        /\ UNCHANGED <<armsHeld, armsTaken, lentTo, main>>
    BY <1>5 DEF LendOvertaken, LendAt, LendGoes, Releasers
  <2>2. letgo["lend"] = "idle"
    BY <2>1 DEF HoldersInv, ReleasersWork
  <2> QED BY <2>1, <2>2, LetGoTurns, LentFollows
<1>6. CASE RefuseOvertaken(c)
  <2>1. /\ lender.at = "overtaken"
        /\ UNCHANGED <<armsHeld, armsTaken, letgo, lentTo, main>>
    BY <1>6 DEF RefuseOvertaken, LendAt
  <2>2. lentTo' = None
    BY <2>1 DEF HoldersInv, LentIsQuiet
  <2> QED BY <2>1, <2>2, LentFollows
<1> QED BY <1>1, <1>2, <1>3, <1>4, <1>5, <1>6 DEF LendStep

(* The steps of the other threads that touch LentInv keep it. *)
LEMMA OthersLent ==
  ASSUME IInv, HoldersInv, LentInv, "deactivate" \notin Requests,
         Shutdown \/ JoinWorker \/ JoinReleaser \/ GoDown \/ GiveBack
         \/ CheckLend \/ DeactivateArm
  PROVE  LentInv'
<1> USE DEF IInv
<1>1. CASE Shutdown
  BY <1>1, SMTT(12) DEF Shutdown, LentInv, HeldIsTaken, LentIsTaken, TypeOK,
      ArmTypeOK, Releasers
<1>2. CASE JoinWorker
  BY <1>2, SMTT(12) DEF JoinWorker, LentInv, HeldIsTaken, LentIsTaken, TypeOK,
      ArmTypeOK, Releasers
<1>3. CASE JoinReleaser
  <2>1. /\ main = "reaping" /\ main' = "lettinggo"
        /\ letgo' = [letgo EXCEPT !["main"] = "look"] /\ "main" \in Releasers
        /\ UNCHANGED <<armsHeld, armsTaken, lentTo, lender>>
    BY <1>3 DEF JoinReleaser, Releasers
  <2>2. letgo["main"] = "idle"
    BY <2>1 DEF HoldersInv, ReleasersWork
  <2> QED BY <2>1, <2>2, LetGoTurns, LentFollows
<1>4. CASE GoDown
  BY <1>4, SMTT(12) DEF GoDown, LentInv, HeldIsTaken, LentIsTaken, TypeOK,
      ArmTypeOK, Releasers
<1>5. CASE GiveBack
  <2>1. TakeBack /\ UNCHANGED <<armsHeld, armsTaken, main>>
    BY <1>5 DEF GiveBack
  <2> QED BY <2>1, TakenBack, LentFollows
<1>6. CASE CheckLend
  <2>1. TakeBack /\ UNCHANGED <<armsHeld, armsTaken, main>>
    BY <1>6 DEF CheckLend
  <2> QED BY <2>1, TakenBack, LentFollows
<1>7. CASE DeactivateArm
  BY <1>7, SMTT(12) DEF DeactivateArm, LentInv, HeldIsTaken, LentIsTaken,
      TypeOK, ArmTypeOK, Releasers
<1> QED BY <1>1, <1>2, <1>3, <1>4, <1>5, <1>6, <1>7

(* No other step is about the variables of LentInv. *)
LEMMA ElsewhereLent ==
  ASSUME LentInv,
         \/ \E m \in Missions : LeafStep(m)
         \/ \E m \in Missions : CancelMission(m)
         \/ \E m \in Missions : \E k \in StepsOf(m) : ServerStep(m, k)
         \/ \E s \in Deadmen : Deadman(s)
         \/ OnStopAll \/ WatchdogReads \/ WatchdogFires \/ ReleaserEnds
         \/ TeleopOn \/ TeleopOff \/ TeleopStill \/ BorrowerGrips
         \/ PassDeadline \/ PassLend \/ FallSilent \/ LoseBalance \/ Rest
         \/ UNCHANGED vars
  PROVE  LentInv'
<1>1. UNCHANGED lentVars
  BY ZenonT(40) DEF LeafStep, StartLeaf, SendGoal, LeafNotSent, LeafJudged,
      StepTimesOut, CancelMission, ServerStep, AnswerGoal, MoveFingers, EndGoal,
      Deadman,
      OnStopAll, WatchdogReads, WatchdogFires, ReleaserEnds, TeleopOn,
      TeleopOff, TeleopStill, BorrowerGrips, PassDeadline, PassLend,
      FallSilent, LoseBalance, Rest, vars, lentVars
<1> QED BY <1>1, LentKeep

(* Every step keeps LentInv. *)
LEMMA LentStep ==
  ASSUME IInv, HoldersInv, LentInv, "deactivate" \notin Requests, [Next]_vars
  PROVE  LentInv'
BY MissionStepLent, LetGoStepLent, StopStepLent, LendLent, OthersLent,
   ElsewhereLent
   DEF Next, ShutdownStep, WorldStep
-----------------------------------------------------------------------------
(***************************************************************************)
(* TicksHeld is kept, when no lend is overtaken                            *)
(***************************************************************************)
ticksVars == <<pc, armsHeld, armsTaken>>

(* A step that leaves its variables alone keeps TicksHeld. *)
LEMMA TicksKeep ==
  ASSUME TicksHeld, UNCHANGED ticksVars
  PROVE  TicksHeld'
BY DEF ticksVars, TicksHeld

Ticking(m) == pc[m] \in ArmPhases \ {"closing"} /\ Mode[m] = "EXECUTE"

(* Nobody lets go of the arms while a mission works, before it comes to do  *)
(* so itself, once the release of the lend before is over and no other is   *)
(* under way.                                                               *)
LEMMA ThreadLetsGoNot ==
  ASSUME IInv, HoldersInv, NEW m \in Missions,
         pc[m] \in Working \ {"lettinggo"}, ~releasing, lender.at = "idle"
  PROVE  \A t \in Releasers : letgo[t] = "idle"
<1>1. running = m
  BY DEF IInv, ClaimIsTheThreads
<1>2. letgo["mission"] = "idle"
  BY <1>1 DEF HoldersInv, ReleasersWork, IInv, ClaimIsTheThreads, Working,
     Phases
<1>3. letgo["releaser"] = "idle" /\ letgo["lend"] = "idle"
  BY DEF HoldersInv, ReleasersWork
<1>4. letgo["main"] = "idle"
  BY DEF HoldersInv, ReleasersWork, WorkerJoined, Working, Phases
<1> QED BY <1>2, <1>3, <1>4 DEF Releasers

(* So nobody does under a mission that takes the arms or uses them, when no *)
(* lend is overtaken.                                                       *)
LEMMA MoveLetsGoNot ==
  ASSUME IInv, HoldersInv, LendsAreOver, NEW m \in Missions, Moves(m)
  PROVE  /\ \A t \in Releasers : letgo[t] = "idle"
         /\ lender.at = "idle" /\ lentTo = None
<1>1. pc[m] \in Working \ {"lettinggo"} /\ lentTo = None
  BY MovesAlone
<1>2. ~releasing /\ lender.at = "idle"
  BY DEF HoldersInv, ReleaseAwaited, LendsAreOver
<1> QED BY <1>1, <1>2, ThreadLetsGoNot

(* Nor under a tree that ticks. *)
LEMMA TickLetsGoNot ==
  ASSUME IInv, HoldersInv, LendsAreOver, NEW m \in Missions, Ticking(m)
  PROVE  \A t \in Releasers : letgo[t] = "idle"
BY MoveLetsGoNot DEF Ticking, Moves, MovePhases

(* A thread that changes its phase, and does not start to tick, keeps it. *)
LEMMA ThreadTicks ==
  ASSUME TypeOK, TicksHeld, NEW m \in Missions, NEW phase, Goto(m, phase),
         \/ phase \notin ArmPhases \ {"closing"}
         \/ pc[m] \in ArmPhases \ {"closing"},
         UNCHANGED <<armsHeld, armsTaken>>
  PROVE  TicksHeld'
<1>1. \A n \in Missions : pc'[n] = IF n = m THEN phase ELSE pc[n]
  BY DEF Goto, TypeOK, MissionTypeOK
<1> QED BY <1>1 DEF TicksHeld

(* A step of a mission's thread keeps TicksHeld. *)
LEMMA MissionStepTicks ==
  ASSUME IInv, HoldersInv, LentInv, TicksHeld, LendsAreOver,
         LendsAreOver', "deactivate" \notin Requests,
         NEW m \in Missions, MissionStep(m)
  PROVE  TicksHeld'
<1> USE DEF IInv
<1>1. CASE Plain(m)
  <2>1. PICK to : PlainMove(m, to)
    BY <1>1, PlainMoves
  <2>2. CASE pc[m] = "authorising" /\ to = "ticking"
    <3>1. \A n \in Missions : pc'[n] = IF n = m THEN "ticking" ELSE pc[n]
      BY <2>1, <2>2 DEF PlainMove, Goto, TypeOK, MissionTypeOK
    <3>2. Mode[m] = "EXECUTE" /\ NeedsArms(m) => armsHeld
      BY <2>1, <2>2 DEF PlainMove, PlainEdge, ArmPhases
    <3>3. Mode[m] = "EXECUTE" /\ NeedsArms(m) => armsTaken
      <4> SUFFICES ASSUME Mode[m] = "EXECUTE", NeedsArms(m)
                   PROVE  armsTaken
        OBVIOUS
      <4>1. ~releasing
        BY <2>1, <2>2 DEF PlainMove, PlainEdge, MovePhases, ArmPhases
      <4>2. lender.at = "idle"
        <5>1. Moves(m)'
          BY <3>1 DEF Moves, MovePhases, ArmPhases
        <5>2. lender' = lender
          BY <2>1 DEF PlainMove
        <5> QED BY <5>1, <5>2 DEF LendsAreOver
      <4>3. \A t \in Releasers : letgo[t] = "idle"
        BY <2>2, <4>1, <4>2, ThreadLetsGoNot DEF Working, Phases
      <4> QED BY <3>2, <4>3 DEF LentInv, HeldIsTaken
    <3> QED BY <2>1, <3>1, <3>2, <3>3 DEF TicksHeld, PlainMove
  <2>3. CASE ~(pc[m] = "authorising" /\ to = "ticking")
    BY <2>1, <2>3, ThreadTicks DEF PlainMove, PlainEdge
  <2> QED BY <2>2, <2>3
<1>2. CASE AcquireArms(m)
  <2>1. pc[m] = "acquiring"
    BY <1>2 DEF AcquireArms
  <2>2. CASE Goto(m, "closing") /\ UNCHANGED <<armsHeld, armsTaken>>
    BY <2>1, <2>2, ThreadTicks DEF ArmPhases
  <2>3. CASE Goto(m, "ticking") /\ armsHeld' /\ armsTaken'
    BY <2>3 DEF TicksHeld
  <2>4. \/ Goto(m, "closing") /\ UNCHANGED <<armsHeld, armsTaken>>
        \/ Goto(m, "ticking") /\ armsHeld' = TRUE /\ armsTaken' = TRUE
    BY <1>2, Zenon DEF AcquireArms
  <2> QED BY <2>2, <2>3, <2>4
<1>3. CASE HaltTree(m)
  <2>1. /\ pc[m] = "halting" /\ Goto(m, "settling")
        /\ UNCHANGED <<armsHeld, armsTaken>>
    BY <1>3 DEF HaltTree
  <2> QED BY <2>1, ThreadTicks DEF ArmPhases
<1>4. CASE SweepAfterHalt(m)
  <2>1. /\ pc[m] = "sweeping" /\ Goto(m, "closing")
        /\ UNCHANGED <<armsHeld, armsTaken>>
    BY <1>4 DEF SweepAfterHalt
  <2> QED BY <2>1, ThreadTicks DEF ArmPhases
<1>5. CASE Finish(m)
  <2>1. /\ pc[m] = "closing" /\ Goto(m, "lettinggo")
        /\ UNCHANGED <<armsHeld, armsTaken>>
    BY <1>5 DEF Finish
  <2> QED BY <2>1, ThreadTicks DEF ArmPhases
<1> QED BY <1>1, <1>2, <1>3, <1>4, <1>5 DEF MissionStep, Plain

(* A step of letGoOfArms(), on any thread, keeps TicksHeld. *)
LEMMA LetGoStepTicks ==
  ASSUME IInv, HoldersInv, LentInv, TicksHeld, LendsAreOver,
         LendsAreOver', "deactivate" \notin Requests,
         NEW t \in Releasers, LetGoStep(t)
  PROVE  TicksHeld'
<1> USE DEF IInv
<1>1. CASE ReleaseArms(t)
  <2>1. letgo[t] # "idle" /\ UNCHANGED pc
    BY <1>1 DEF ReleaseArms
  <2>2. \A m \in Missions : ~Ticking(m)
    BY <2>1, TickLetsGoNot
  <2> QED BY <2>1, <2>2 DEF TicksHeld, Ticking, ArmPhases
<1>2. CASE ClearHeld(t)
  <2>1. letgo[t] # "idle" /\ UNCHANGED pc
    BY <1>2 DEF ClearHeld
  <2>2. \A m \in Missions : ~Ticking(m)
    BY <2>1, TickLetsGoNot
  <2> QED BY <2>1, <2>2 DEF TicksHeld, Ticking, ArmPhases
<1>3. CASE LetGoLook(t) \/ ReadFingers(t)
  <2>1. UNCHANGED ticksVars
    BY <1>3 DEF LetGoLook, ReadFingers, ticksVars
  <2> QED BY <2>1, TicksKeep
<1> QED BY <1>1, <1>2, <1>3 DEF LetGoStep

(* A step of a lend keeps TicksHeld. *)
LEMMA LendTicks ==
  ASSUME IInv, HoldersInv, LentInv, TicksHeld, LendsAreOver,
         LendsAreOver', "deactivate" \notin Requests,
         NEW c \in Clients, ClaimLend(c) \/ LendStep(c)
  PROVE  TicksHeld'
<1> USE DEF IInv
<1>1. CASE AcquireToLend(c)
  <2>1. lender.at # "idle" /\ UNCHANGED pc
    BY <1>1 DEF AcquireToLend, LendAt
  <2> QED BY <2>1 DEF LendsAreOver, Moves, MovePhases, TicksHeld
<1>2. CASE ClaimLend(c) \/ TimeLend(c) \/ GrantLend(c) \/ LendOvertaken(c)
           \/ RefuseOvertaken(c)
  <2>1. UNCHANGED ticksVars
    BY <1>2 DEF ClaimLend, TimeLend, GrantLend, LendOvertaken, RefuseOvertaken,
      ticksVars
  <2> QED BY <2>1, TicksKeep
<1> QED BY <1>1, <1>2 DEF LendStep

(* The steps of the other threads that touch TicksHeld keep it. *)
LEMMA OthersTicks ==
  ASSUME IInv, HoldersInv, LentInv, TicksHeld, LendsAreOver,
         LendsAreOver', "deactivate" \notin Requests,
         DeactivateArm
  PROVE  TicksHeld'
<1> USE DEF IInv
<1>1. CASE DeactivateArm
  BY <1>1, SMTT(12) DEF DeactivateArm
<1> QED BY <1>1

(* No other step is about the variables of TicksHeld. *)
LEMMA ElsewhereTicks ==
  ASSUME TicksHeld,
         \/ \E m \in Missions : LeafStep(m)
         \/ \E m \in Missions : CancelMission(m)
         \/ \E m \in Missions : \E k \in StepsOf(m) : ServerStep(m, k)
         \/ \E s \in Deadmen : Deadman(s)
         \/ \E s \in Stoppers : StopStep(s)
         \/ OnStopAll \/ WatchdogReads \/ WatchdogFires \/ Shutdown
         \/ JoinWorker \/ JoinReleaser \/ GoDown \/ GiveBack \/ CheckLend
         \/ ReleaserEnds \/ TeleopOn \/ TeleopOff \/ TeleopStill
         \/ BorrowerGrips \/ PassDeadline \/ PassLend \/ FallSilent
         \/ LoseBalance \/ Rest \/ UNCHANGED vars
  PROVE  TicksHeld'
<1>1. UNCHANGED ticksVars
  BY ZenonT(40) DEF LeafStep, StartLeaf, SendGoal, LeafNotSent, LeafJudged,
      StepTimesOut, CancelMission, ServerStep, AnswerGoal, MoveFingers, EndGoal,
      Deadman,
      StopStep, RaiseFlags, CancelGoals, AwaitHalted, SettleServers,
      NoteStopped, OnStopAll, WatchdogReads, WatchdogFires, Shutdown,
      JoinWorker, JoinReleaser, GoDown, GiveBack, CheckLend, ReleaserEnds,
      TeleopOn, TeleopOff, TeleopStill, BorrowerGrips, PassDeadline, PassLend,
      FallSilent, LoseBalance, Rest, vars, ticksVars
<1> QED BY <1>1, TicksKeep

(* Every step keeps TicksHeld. *)
LEMMA TicksStep ==
  ASSUME IInv, HoldersInv, LentInv, TicksHeld, LendsAreOver,
         LendsAreOver', "deactivate" \notin Requests, [Next]_vars
  PROVE  TicksHeld'
BY MissionStepTicks, LetGoStepTicks, LendTicks, OthersTicks, ElsewhereTicks
   DEF Next, ShutdownStep, WorldStep
-----------------------------------------------------------------------------
(***************************************************************************)
(* ArmsInv is kept, with all of these                                      *)
(***************************************************************************)
armGoalVars == <<cur, leaf, goal, holding, unknown, closed, late, armsTaken,
                 letgo>>

(* A step that leaves its variables alone keeps ArmsInv. *)
LEMMA ArmsKeep ==
  ASSUME ArmsInv, UNCHANGED armGoalVars
  PROVE  ArmsInv'
BY DEF armGoalVars, ArmsInv, PlaceHolds, Watched, OutArm, OneArmGoal,
   BusyIsTaken, ArmIsBusy, DoneAlone, ReleaseIsEmpty, InArm, GoalAt

(* Goals that end, or are asked to, and threads that do not come to the    *)
(* release, keep ArmsInv.                                                  *)
LEMMA ArmsFollow ==
  ASSUME ArmsInv, UNCHANGED <<cur, leaf, holding, unknown, robotVars>>,
         LeafInPlan,
         \A m \in Missions : \A k \in 1..MaxSteps :
            /\ goal'[m][k] = "sent" <=> goal[m][k] = "sent"
            /\ goal'[m][k] \in InFlight <=> goal[m][k] \in InFlight
            /\ goal'[m][k] = "succeeded" <=> goal[m][k] = "succeeded",
         \A t \in Releasers : letgo'[t] = "release" => letgo[t] = "release"
  PROVE  ArmsInv'
<1>1. \A m \in Missions : StepsOf(m) \subseteq 1..MaxSteps
  BY PlanSteps DEF StepsOf
<1>2. PlaceHolds' /\ Watched' /\ OneArmGoal'
  BY <1>1 DEF ArmsInv, PlaceHolds, Watched, OutArm, OneArmGoal, InArm
<1>3. ArmIsBusy' => ArmIsBusy
  BY <1>1 DEF ArmIsBusy
<1>4. DoneAlone'
  <2>1. \A m \in Missions : leaf[m] = "out" => cur[m] \in 1..MaxSteps
    BY <1>1 DEF LeafInPlan, StepsOf
  <2> QED BY <1>3, <2>1 DEF ArmsInv, DoneAlone, GoalAt
<1>5. BusyIsTaken' /\ ReleaseIsEmpty'
  BY <1>1, <1>3 DEF ArmsInv, BusyIsTaken, ReleaseIsEmpty, OutArm
<1> QED BY <1>2, <1>4, <1>5 DEF ArmsInv

(* One mission has a leaf at a time. *)
LEMMA OneLeaf ==
  ASSUME IInv, FlagInv, NEW m \in Missions, pc[m] \in Working
  PROVE  \A n \in Missions \ {m} : leaf[n] = "none" /\ pc[n] # "settling"
BY DEF IInv, ClaimIsTheThreads, FlagInv, LeafPhases, Working, Phases

(* A goal out at the manipulation server has a leaf that waits for it, and  *)
(* then nobody lets go of the arms, or its hand counts as one that may hold *)
(* something.                                                               *)
LEMMA OutIsKnown ==
  ASSUME IInv, HoldersInv, FlagInv, ArmsInv, LendsAreOver,
         NEW t \in Releasers, letgo[t] # "idle",
         NEW m \in Missions, NEW k \in StepsOf(m), OutArm(m, k)
  PROVE  MayHold(holding, unknown)
<1>1. ~Ticking(m)
  BY TickLetsGoNot
<1>2. leaf[m] # "out"
  BY <1>1 DEF FlagInv, LeafPhases, Ticking, ArmPhases
<1> QED BY <1>2 DEF ArmsInv, Watched, MayHold

(* A leaf that is halted keeps ArmsInv: a pick it leaves behind makes its  *)
(* hand unknown.                                                           *)
LEMMA ArmLeafHalts ==
  ASSUME IInv, HoldersInv, FlagInv, ArmsInv, LendsAreOver, NEW m \in Missions,
         Ticking(m), HaltLeaf(m),
         UNCHANGED <<cur, holding, robotVars, letgo>>
  PROVE  ArmsInv'
<1>1. /\ TypeOK /\ LeafInPlan
      /\ (\A n \in Missions : StepsOf(n) \subseteq 1..MaxSteps)
  BY PlanSteps DEF IInv, StepsOf
<1>2. \A n \in Missions : \A j \in 1..MaxSteps :
         /\ goal'[n][j] = "sent" <=> goal[n][j] = "sent"
         /\ goal'[n][j] \in InFlight <=> goal[n][j] \in InFlight
         /\ goal'[n][j] = "succeeded" <=> goal[n][j] = "succeeded"
  BY <1>1, HaltLeafTurns
<1>3. \A n \in Missions : leaf'[n] = IF n = m THEN "none" ELSE leaf[n]
  BY <1>1, HaltLeafTurns DEF TypeOK, LeafTypeOK
<1>4. holding \union unknown \subseteq holding' \union unknown'
  BY <1>1, HaltLeafTurns
<1>5. PlaceHolds'
  BY <1>3, <1>4 DEF ArmsInv, PlaceHolds
<1>6. Watched'
  <2> SUFFICES ASSUME NEW n \in Missions, NEW k \in StepsOf(n), OutArm(n, k)
               PROVE  /\ Mode[n] = "EXECUTE"
                      /\ \/ leaf'[n] = "out" /\ cur[n] = k
                         \/ Hand(n, k) \in holding' \union unknown'
    BY <1>1, <1>2 DEF Watched, OutArm
  <2>1. /\ Mode[n] = "EXECUTE"
        /\ \/ leaf[n] = "out" /\ cur[n] = k
           \/ Hand(n, k) \in holding \union unknown
    BY DEF ArmsInv, Watched
  <2>2. CASE n = m /\ leaf[m] = "out" /\ cur[m] = k
    <3>1. Skill(m, k) \in {"pick", "place"}
      BY <2>2, PlanSteps DEF OutArm, StepsOf, Skill, Steps
    <3>2. CASE Skill(m, k) = "pick"
      <4>1. Step(m).skill = "pick" /\ Step(m).hand = Hand(m, k)
        BY <2>2, <3>2 DEF Step, Skill, Hand
      <4> QED BY <1>1, <2>1, <2>2, <4>1, HaltLeafTurns
    <3>3. CASE Skill(m, k) = "place"
      BY <1>4, <2>1, <2>2, <3>3 DEF ArmsInv, PlaceHolds
    <3> QED BY <3>1, <3>2, <3>3
  <2>3. CASE ~(n = m /\ leaf[m] = "out" /\ cur[m] = k)
    BY <1>3, <1>4, <2>1, <2>3
  <2> QED BY <2>2, <2>3
<1>7. OneArmGoal'
  BY <1>1, <1>2 DEF ArmsInv, OneArmGoal, InArm
<1>8. ArmIsBusy' => ArmIsBusy
  BY <1>1, <1>2 DEF ArmIsBusy
<1>9. DoneAlone'
  <2>1. \A n \in Missions : leaf[n] = "out" => cur[n] \in 1..MaxSteps
    BY <1>1 DEF LeafInPlan, StepsOf
  <2> QED BY <1>2, <1>3, <1>8, <2>1 DEF ArmsInv, DoneAlone, GoalAt
<1>10. BusyIsTaken'
  BY <1>8 DEF ArmsInv, BusyIsTaken
<1>11. ReleaseIsEmpty'
  BY TickLetsGoNot DEF ReleaseIsEmpty
<1> QED BY <1>5, <1>6, <1>7, <1>9, <1>10, <1>11 DEF ArmsInv

(* A step of a mission's thread keeps ArmsInv. *)
LEMMA MissionStepArms ==
  ASSUME IInv, HoldersInv, FlagInv, AnswerInv, LentInv, TicksHeld, ArmsInv,
         LendsAreOver, LendsAreOver', "deactivate" \notin Requests,
         NEW m \in Missions, MissionStep(m)
  PROVE  ArmsInv'
<1> USE DEF IInv
<1>1. CASE AcquireArms(m)
  <2>1. /\ pc[m] = "acquiring"
        /\ UNCHANGED <<cur, leaf, goal, holding, closed, letgo>>
    BY <1>1 DEF AcquireArms
  <2>2. \/ UNCHANGED <<armsTaken, unknown>>
        \/ armsTaken' = TRUE /\ unknown' \in {unknown, Hands \ holding}
        \/ armsTaken' = TRUE /\ ~armsTaken
    BY <1>1 DEF AcquireArms, HandsAfter, Acquired
  <2>3. /\ \A n \in Missions : leaf[n] = "none"
        /\ \A n \in Missions : \A k \in 1..MaxSteps : goal[n][k] # "sent"
    <3>1. leaf[m] = "none" /\ pc[m] # "settling" /\ pc[m] \in Working
      BY <2>1 DEF FlagInv, LeafPhases, Working, Phases
    <3>2. \A n \in Missions : leaf[n] = "none" /\ pc[n] # "settling"
      BY <3>1, OneLeaf
    <3> QED BY <3>2 DEF AnswerInv, SentAwaited
  <2>4. \A t \in Releasers : letgo[t] = "idle"
    BY <2>1, MoveLetsGoNot
       DEF Moves, MovePhases, HoldersInv, AcquiresExecuted
  <2>5. PlaceHolds' /\ DoneAlone'
    BY <2>1, <2>3 DEF PlaceHolds, DoneAlone
  <2>6. Watched'
    <3> SUFFICES ASSUME NEW n \in Missions, NEW k \in StepsOf(n), OutArm(n, k)
                 PROVE  /\ Mode[n] = "EXECUTE"
                        /\ Hand(n, k) \in holding \union unknown'
      BY <2>1 DEF Watched, OutArm
    <3>1. Mode[n] = "EXECUTE" /\ Hand(n, k) \in holding \union unknown
      BY <2>3 DEF ArmsInv, Watched
    <3>2. k \in 1..MaxSteps /\ Hand(n, k) \in Hands
      BY PlanSteps DEF StepsOf, Hand
    <3>3. armsTaken
      BY <2>3, <3>2 DEF ArmsInv, BusyIsTaken, ArmIsBusy, OutArm
    <3> QED BY <2>2, <3>1, <3>2, <3>3
  <2>7. OneArmGoal' /\ BusyIsTaken'
    BY <2>1, <2>2 DEF ArmsInv, OneArmGoal, InArm, BusyIsTaken, ArmIsBusy
  <2>8. ReleaseIsEmpty'
    BY <2>1, <2>4 DEF ReleaseIsEmpty
  <2> QED BY <2>5, <2>6, <2>7, <2>8 DEF ArmsInv
<1>2. CASE HaltTree(m)
  <2>1. /\ pc[m] = "halting" /\ HaltLeaf(m)
        /\ UNCHANGED <<cur, holding, robotVars, letgo>>
    BY <1>2 DEF HaltTree
  <2>2. CASE Mode[m] = "EXECUTE"
    BY <2>1, <2>2, ArmLeafHalts DEF Ticking, ArmPhases
  <2>3. CASE Mode[m] # "EXECUTE"
    <3>1. leaf[m] = "none"
      BY <2>3 DEF FlagInv, LeafPhases
    <3>2. UNCHANGED <<leaf, goal, unknown>>
      BY <2>1, <3>1 DEF HaltLeaf, TypeOK, LeafTypeOK
    <3> QED BY <2>1, <3>2, ArmsKeep DEF armGoalVars
  <2> QED BY <2>2, <2>3
<1>3. CASE SweepAfterHalt(m)
  <2>1. /\ CancelAll
        /\ UNCHANGED <<cur, leaf, holding, unknown, robotVars, letgo>>
    BY <1>3 DEF SweepAfterHalt
  <2> QED BY <2>1, AskedGoals, ArmsFollow
<1>4. CASE Finish(m)
  <2>1. /\ letgo' \in {letgo, [letgo EXCEPT !["mission"] = "look"]}
        /\ UNCHANGED <<cur, leaf, goal, holding, unknown, robotVars>>
    BY <1>4 DEF Finish
  <2>2. "mission" \in Releasers
    BY DEF Releasers
  <2> QED BY <2>1, <2>2, LetGoTurns, ArmsFollow
<1>5. CASE StartMission(m) \/ ClearHalted(m) \/ SpawnWorker(m)
           \/ SpawnFails(m) \/ Execute(m) \/ RejectTree(m) \/ AcceptTree(m)
           \/ TakeAuthority(m) \/ Interrupt(m) \/ TreeSucceeds(m)
           \/ TreeFails(m) \/ TreeThrows(m) \/ SayHalted(m) \/ Finished(m)
           \/ EndClaim(m) \/ Report(m)
  <2>1. UNCHANGED armGoalVars
    BY <1>5 DEF StartMission, ClearHalted, SpawnWorker, SpawnFails, Execute,
      RejectTree, AcceptTree, TakeAuthority, Interrupt, TreeSucceeds,
      TreeFails, TreeThrows, SayHalted, Finished, EndClaim, Report, armGoalVars
  <2> QED BY <2>1, ArmsKeep
<1> QED BY <1>1, <1>2, <1>3, <1>4, <1>5 DEF MissionStep

(* A step of the tree's leaf keeps ArmsInv. *)
LEMMA LeafStepArms ==
  ASSUME IInv, HoldersInv, FlagInv, AnswerInv, LentInv, TicksHeld, ArmsInv,
         LendsAreOver, LendsAreOver', "deactivate" \notin Requests,
         NEW m \in Missions, LeafStep(m)
  PROVE  ArmsInv'
<1> USE DEF IInv
<1>1. CASE StartLeaf(m)
  <2>1. /\ Acts(m) /\ leaf[m] = "none" /\ cur[m] < Len(Plan[m])
        /\ cur' = [cur EXCEPT ![m] = @ + 1]
        /\ leaf' = [leaf EXCEPT ![m] = "starting"]
        /\ UNCHANGED <<goal, holding, unknown, robotVars, letgo>>
    BY <1>1 DEF StartLeaf
  <2>2. Skill(m, cur[m] + 1) = "place"
        => Hand(m, cur[m] + 1) \in holding \union unknown
    BY <1>1 DEF StartLeaf, Skill, Hand
  <2>3. \A n \in Missions :
          /\ leaf'[n] = IF n = m THEN "starting" ELSE leaf[n]
          /\ cur'[n] = IF n = m THEN cur[m] + 1 ELSE cur[n]
    BY <2>1 DEF TypeOK, LeafTypeOK
  <2>4. PlaceHolds'
    BY <2>1, <2>2, <2>3 DEF ArmsInv, PlaceHolds
  <2>5. Watched' /\ DoneAlone'
    BY <2>1, <2>3 DEF ArmsInv, Watched, OutArm, DoneAlone, GoalAt, ArmIsBusy
  <2>6. OneArmGoal' /\ BusyIsTaken' /\ ReleaseIsEmpty'
    BY <2>1 DEF ArmsInv, OneArmGoal, InArm, BusyIsTaken, ArmIsBusy,
       ReleaseIsEmpty, OutArm
  <2> QED BY <2>4, <2>5, <2>6 DEF ArmsInv
<1>2. CASE SendGoal(m)
  <2>1. /\ Acts(m) /\ leaf[m] = "starting"
        /\ leaf' = [leaf EXCEPT ![m] = "out"]
        /\ goal' = [goal EXCEPT ![m][cur[m]] = "sent"]
        /\ UNCHANGED <<cur, holding, unknown, robotVars, letgo>>
    BY <1>2 DEF SendGoal, SetGoal
  <2>2. /\ cur[m] \in 1..MaxSteps
        /\ \A n \in Missions : StepsOf(n) \subseteq 1..MaxSteps
    BY <2>1, PlanSteps DEF LeafInPlan, StepsOf
  <2>3. GoalTurns(m, cur[m], "sent")
    BY <2>1, <2>2, GoalSetTurns
  <2>4. \A n \in Missions : leaf'[n] = IF n = m THEN "out" ELSE leaf[n]
    BY <2>1 DEF TypeOK, LeafTypeOK
  <2>5. PlaceHolds'
    BY <2>1, <2>4 DEF ArmsInv, PlaceHolds
  <2>6. Watched'
    BY <2>1, <2>2, <2>3, <2>4 DEF ArmsInv, Watched, OutArm, GoalTurns, Acts
  <2>7. OneArmGoal'
    BY <2>2, <2>3 DEF ArmsInv, OneArmGoal, InArm, GoalTurns, InFlight
  <2>8. ArmIsBusy' => ArmIsBusy
    BY <2>2, <2>3 DEF ArmIsBusy, GoalTurns, InFlight
  <2>9. DoneAlone'
    <3>1. \A n \in Missions \ {m} : leaf[n] = "none"
      BY <2>1, OneLeaf DEF Acts, Working, Phases
    <3> QED BY <2>1, <2>2, <2>3, <2>4, <3>1 DEF DoneAlone, GoalAt, GoalTurns
  <2>10. BusyIsTaken' /\ ReleaseIsEmpty'
    <3>1. \A t \in Releasers : letgo[t] = "idle"
      BY <2>1, TickLetsGoNot DEF Acts, Ticking, ArmPhases
    <3> QED BY <2>1, <2>8, <3>1 DEF ArmsInv, BusyIsTaken, ReleaseIsEmpty
  <2> QED BY <2>5, <2>6, <2>7, <2>9, <2>10 DEF ArmsInv
<1>3. CASE LeafNotSent(m)
  <2>1. /\ leaf[m] = "starting" /\ leaf' = [leaf EXCEPT ![m] = "none"]
        /\ UNCHANGED <<cur, goal, holding, unknown, robotVars, letgo>>
    BY <1>3 DEF LeafNotSent
  <2>3. \A n \in Missions : leaf'[n] = IF n = m THEN "none" ELSE leaf[n]
    BY <2>1 DEF TypeOK, LeafTypeOK
  <2>4. PlaceHolds'
    BY <2>1, <2>3 DEF ArmsInv, PlaceHolds
  <2>5. Watched' /\ DoneAlone'
    BY <2>1, <2>3 DEF ArmsInv, Watched, OutArm, DoneAlone, GoalAt, ArmIsBusy
  <2>6. OneArmGoal' /\ BusyIsTaken' /\ ReleaseIsEmpty'
    BY <2>1 DEF ArmsInv, OneArmGoal, InArm, BusyIsTaken, ArmIsBusy,
       ReleaseIsEmpty, OutArm
  <2> QED BY <2>4, <2>5, <2>6 DEF ArmsInv
<1>4. CASE LeafJudged(m)
  <2>1. /\ Acts(m) /\ leaf[m] = "out" /\ GoalAt(m) \in {"succeeded", "failed"}
        /\ leaf' = [leaf EXCEPT ![m] = "none"]
        /\ UNCHANGED <<cur, goal, robotVars, letgo>>
    BY <1>4 DEF LeafJudged
  <2>2. \/ holding \union unknown \subseteq holding' \union unknown'
        \/ GoalAt(m) = "succeeded" /\ Step(m).skill = "place"
    BY <1>4 DEF LeafJudged
  <2>3. \A n \in Missions : leaf'[n] = "none"
    <3>1. \A n \in Missions \ {m} : leaf[n] = "none"
      BY <2>1, OneLeaf DEF Acts, Working, Phases
    <3> QED BY <2>1, <3>1 DEF TypeOK, LeafTypeOK
  <2>4. PlaceHolds' /\ DoneAlone'
    BY <2>3 DEF PlaceHolds, DoneAlone
  <2>5. Watched'
    <3> SUFFICES ASSUME NEW n \in Missions, NEW k \in StepsOf(n), OutArm(n, k)
                 PROVE  /\ Mode[n] = "EXECUTE"
                        /\ Hand(n, k) \in holding' \union unknown'
      BY <2>1 DEF Watched, OutArm
    <3>1. ~(n = m /\ k = cur[m])
      BY <2>1 DEF OutArm, GoalAt, InFlight
    <3>2. Mode[n] = "EXECUTE" /\ Hand(n, k) \in holding \union unknown
      <4>1. ~(leaf[n] = "out" /\ cur[n] = k)
        BY <2>1, <3>1, OneLeaf DEF Acts, Working, Phases
      <4> QED BY <4>1 DEF ArmsInv, Watched
    <3>3. CASE GoalAt(m) = "succeeded" /\ Step(m).skill = "place"
      <4>1. ~ArmIsBusy
        BY <2>1, <3>3 DEF ArmsInv, DoneAlone, Step, Skill
      <4>2. goal[n][k] # "sent"
        <5>1. pc[n] # "settling" /\ ~(leaf[n] = "out" /\ cur[n] = k)
          BY <2>1, <3>1, OneLeaf DEF Acts, Working, Phases
        <5>2. k \in 1..MaxSteps
          BY PlanSteps DEF StepsOf
        <5> QED BY <5>1, <5>2 DEF AnswerInv, SentAwaited
      <4> QED BY <4>1, <4>2 DEF ArmIsBusy, OutArm
    <3>4. CASE ~(GoalAt(m) = "succeeded" /\ Step(m).skill = "place")
      BY <2>2, <3>2, <3>4
    <3> QED BY <3>3, <3>4
  <2>6. OneArmGoal' /\ BusyIsTaken'
    BY <2>1 DEF ArmsInv, OneArmGoal, InArm, BusyIsTaken, ArmIsBusy
  <2>7. ReleaseIsEmpty'
    <3>1. \A t \in Releasers : letgo[t] = "idle"
      BY <2>1, TickLetsGoNot DEF Acts, Ticking, ArmPhases
    <3> QED BY <2>1, <3>1 DEF ReleaseIsEmpty
  <2> QED BY <2>4, <2>5, <2>6, <2>7 DEF ArmsInv
<1>5. CASE StepTimesOut(m)
  <2>1. /\ Ticking(m) /\ HaltLeaf(m)
        /\ UNCHANGED <<cur, holding, robotVars, letgo>>
    BY <1>5 DEF StepTimesOut, Acts, Ticking, ArmPhases
  <2> QED BY <2>1, ArmLeafHalts
<1> QED BY <1>1, <1>2, <1>3, <1>4, <1>5 DEF LeafStep

(* What a server does with a goal keeps ArmsInv. *)
LEMMA ServerStepArms ==
  ASSUME IInv, HoldersInv, FlagInv, AnswerInv, LentInv, TicksHeld, ArmsInv,
         LendsAreOver, LendsAreOver', "deactivate" \notin Requests,
         NEW m \in Missions, NEW k \in StepsOf(m), ServerStep(m, k)
  PROVE  ArmsInv'
<1> USE DEF IInv
<1>1. CASE AnswerGoal(m, k)
  <2>1. /\ goal[m][k] = "sent"
        /\ UNCHANGED <<cur, leaf, holding, unknown, robotVars, letgo>>
    BY <1>1 DEF AnswerGoal
  <2>2. /\ k \in 1..MaxSteps
        /\ \A n \in Missions : StepsOf(n) \subseteq 1..MaxSteps
    BY PlanSteps DEF StepsOf
  <2>3. \/ GoalTurns(m, k, "active") /\ (Skill(m, k) # "walk" => ~ArmIsBusy)
        \/ GoalTurns(m, k, "failed")
    BY <1>1, <2>2, GoalSetTurns DEF AnswerGoal
  <2>4. PlaceHolds' /\ ReleaseIsEmpty'
    BY <2>1, <2>2, <2>3
       DEF ArmsInv, PlaceHolds, ReleaseIsEmpty, OutArm, GoalTurns, InFlight
  <2>5. Watched'
    BY <2>1, <2>2, <2>3 DEF ArmsInv, Watched, OutArm, GoalTurns
  <2>6. OneArmGoal'
    BY <2>1, <2>2, <2>3 DEF ArmsInv, OneArmGoal, InArm, ArmIsBusy, GoalTurns,
       InFlight
  <2>7. CASE GoalTurns(m, k, "failed") \/ Skill(m, k) = "walk"
    <3>1. ArmIsBusy' => ArmIsBusy
      BY <2>2, <2>3, <2>7 DEF ArmIsBusy, GoalTurns, InFlight
    <3>2. DoneAlone'
      <4>1. \A n \in Missions : leaf[n] = "out" => cur[n] \in 1..MaxSteps
        BY <2>2 DEF LeafInPlan, StepsOf
      <4> QED BY <2>1, <2>3, <3>1, <4>1 DEF ArmsInv, DoneAlone, GoalAt,
                 GoalTurns
    <3>3. BusyIsTaken'
      BY <2>1, <3>1 DEF ArmsInv, BusyIsTaken
    <3> QED BY <2>4, <2>5, <2>6, <3>2, <3>3 DEF ArmsInv
  <2>8. CASE GoalTurns(m, k, "active") /\ Skill(m, k) # "walk"
    <3>1. pc[m] = "settling" \/ (leaf[m] = "out" /\ cur[m] = k)
      BY <2>1, <2>2 DEF AnswerInv, SentAwaited
    <3>2. /\ Mode[m] = "EXECUTE" /\ pc[m] \in ArmPhases \ {"closing"}
          /\ NeedsArms(m) /\ pc[m] \in Working
      <4>1. Mode[m] = "EXECUTE"
        BY <2>1, <2>8 DEF ArmsInv, Watched, OutArm
      <4>2. NeedsArms(m)
        BY <2>8 DEF NeedsArms, StepsOf, Skill
      <4> QED BY <3>1, <4>1, <4>2 DEF FlagInv, LeafPhases, ArmPhases, Working,
                 Phases
    <3>3. BusyIsTaken'
      BY <2>1, <3>2 DEF TicksHeld, BusyIsTaken
    <3>4. DoneAlone'
      <4> SUFFICES ASSUME NEW n \in Missions, leaf[n] = "out",
                          GoalAt(n)' = "succeeded"
                   PROVE  FALSE
        BY <2>1 DEF DoneAlone
      <4>1. n = m
        BY <3>2, OneLeaf
      <4>2. pc[m] # "settling"
        BY <4>1 DEF FlagInv, LeafPhases
      <4>3. cur[m] = k
        BY <3>1, <4>2
      <4> QED BY <2>1, <2>2, <2>8, <4>1, <4>3 DEF GoalAt, GoalTurns
    <3> QED BY <2>4, <2>5, <2>6, <3>3, <3>4 DEF ArmsInv
  <2> QED BY <2>3, <2>7, <2>8
<1>2. CASE MoveFingers(m, k)
  <2>1. /\ goal[m][k] \in InFlight
        /\ UNCHANGED <<cur, leaf, goal, holding, unknown, armsTaken, letgo>>
    BY <1>2 DEF MoveFingers
  <2>2. PlaceHolds' /\ Watched' /\ OneArmGoal' /\ BusyIsTaken' /\ DoneAlone'
    BY <2>1 DEF ArmsInv, PlaceHolds, Watched, OutArm, OneArmGoal, InArm,
                BusyIsTaken, ArmIsBusy, DoneAlone, GoalAt
  <2>3. ReleaseIsEmpty'
    <3>1. CASE Skill(m, k) = "walk"
      <4>1. UNCHANGED <<closed, late>>
        BY <1>2, <3>1 DEF MoveFingers
      <4> QED BY <2>1, <4>1 DEF ArmsInv, ReleaseIsEmpty, OutArm
    <3>2. CASE Skill(m, k) # "walk"
      <4>1. \A t \in Releasers : letgo[t] # "release"
        BY <2>1, <3>2 DEF ArmsInv, ReleaseIsEmpty, OutArm
      <4> QED BY <2>1, <4>1 DEF ReleaseIsEmpty
    <3> QED BY <3>1, <3>2
  <2> QED BY <2>2, <2>3 DEF ArmsInv
<1>3. CASE EndGoal(m, k)
  <2>1. /\ goal[m][k] \in InFlight
        /\ UNCHANGED <<cur, leaf, holding, unknown, robotVars, letgo>>
    BY <1>3 DEF EndGoal
  <2>2. /\ k \in 1..MaxSteps
        /\ \A n \in Missions : StepsOf(n) \subseteq 1..MaxSteps
    BY PlanSteps DEF StepsOf
  <2>3. GoalTurns(m, k, "succeeded") \/ GoalTurns(m, k, "failed")
    BY <1>3, <2>2, GoalSetTurns DEF EndGoal
  <2>4. PlaceHolds' /\ ReleaseIsEmpty'
    BY <2>1, <2>2, <2>3
       DEF ArmsInv, PlaceHolds, ReleaseIsEmpty, OutArm, GoalTurns, InFlight
  <2>5. Watched'
    BY <2>1, <2>2, <2>3 DEF ArmsInv, Watched, OutArm, GoalTurns, InFlight
  <2>6. OneArmGoal'
    BY <2>1, <2>2, <2>3 DEF ArmsInv, OneArmGoal, InArm, GoalTurns, InFlight
  <2>7. ArmIsBusy' => ArmIsBusy
    BY <2>2, <2>3 DEF ArmIsBusy, GoalTurns, InFlight
  <2>8. BusyIsTaken'
    BY <2>1, <2>7 DEF ArmsInv, BusyIsTaken
  <2>9. DoneAlone'
    <3> SUFFICES ASSUME NEW n \in Missions, leaf[n] = "out",
                        Skill(n, cur[n]) # "walk",
                        GoalAt(n)' = "succeeded", ArmIsBusy'
                 PROVE  FALSE
      BY <2>1 DEF DoneAlone
    <3>1. cur[n] \in StepsOf(n)
      BY DEF LeafInPlan, StepsOf
    <3>2. n = m /\ cur[n] = k
      <4>1. GoalAt(n) # "succeeded"
        BY <2>7 DEF ArmsInv, DoneAlone
      <4> QED BY <2>1, <2>2, <2>3, <3>1, <4>1 DEF GoalAt, GoalTurns
    <3>3. PICK q \in Missions : \E j \in StepsOf(q) :
             Skill(q, j) # "walk" /\ goal'[q][j] \in InFlight
      BY DEF ArmIsBusy
    <3>5. PICK j \in StepsOf(q) :
             Skill(q, j) # "walk" /\ goal'[q][j] \in InFlight
      BY <3>3
    <3>4. ~(q = m /\ j = k) /\ goal[q][j] \in InFlight
      BY <2>2, <2>3, <3>5 DEF GoalTurns, InFlight
    <3> QED BY <2>1, <3>1, <3>2, <3>5, <3>4 DEF ArmsInv, OneArmGoal, InArm
  <2> QED BY <2>4, <2>5, <2>6, <2>8, <2>9 DEF ArmsInv
<1> QED BY <1>1, <1>2, <1>3 DEF ServerStep

(* A step of letGoOfArms(), on any thread, keeps ArmsInv. *)
LEMMA LetGoStepArms ==
  ASSUME IInv, HoldersInv, FlagInv, AnswerInv, LentInv, TicksHeld, ArmsInv,
         LendsAreOver, LendsAreOver', "deactivate" \notin Requests,
         NEW t \in Releasers, LetGoStep(t)
  PROVE  ArmsInv'
<1> USE DEF IInv
<1>1. CASE LetGoLook(t)
  <2>1. /\ \E p \in {"read", "idle"} : letgo' = [letgo EXCEPT ![t] = p]
        /\ UNCHANGED <<cur, leaf, goal, holding, unknown, robotVars>>
    BY <1>1 DEF LetGoLook
  <2> QED BY <2>1, LetGoTurns, ArmsFollow
<1>2. CASE ReadFingers(t)
  <2>1. PICK shut \in {closed, Hands} :
          /\ unknown' = unknown \union shut
          /\ letgo' = [letgo EXCEPT ![t] =
                           IF MayHold(holding, unknown \union shut)
                           THEN "idle" ELSE "release"]
    BY <1>2 DEF ReadFingers
  <2>2. /\ letgo[t] = "read"
        /\ UNCHANGED <<cur, leaf, goal, holding, robotVars>>
    BY <1>2 DEF ReadFingers
  <2>3. PlaceHolds' /\ Watched' /\ OneArmGoal' /\ BusyIsTaken' /\ DoneAlone'
    BY <2>1, <2>2 DEF ArmsInv, PlaceHolds, Watched, OutArm, OneArmGoal, InArm,
                      BusyIsTaken, ArmIsBusy, DoneAlone, GoalAt
  <2>4. ReleaseIsEmpty'
    <3>1. CASE MayHold(holding, unknown \union shut)
      BY <2>1, <2>2, <3>1, LetGoTurns DEF ArmsInv, ReleaseIsEmpty, OutArm
    <3>2. CASE ~MayHold(holding, unknown \union shut)
      <4>1. closed = {}
        BY <3>2 DEF MayHold, TypeOK, ArmTypeOK
      <4>2. \A m \in Missions : \A k \in StepsOf(m) : ~OutArm(m, k)
        BY <2>2, <3>2, OutIsKnown DEF MayHold
      <4> QED BY <2>2, <4>1, <4>2 DEF ReleaseIsEmpty, OutArm
    <3> QED BY <3>1, <3>2
  <2> QED BY <2>3, <2>4 DEF ArmsInv
<1>3. CASE ReleaseArms(t)
  <2>1. /\ letgo[t] = "release" /\ letgo' = [letgo EXCEPT ![t] = "clear"]
        /\ UNCHANGED <<closed, late>> \/ closed' = {}
        /\ UNCHANGED <<cur, leaf, goal, holding, unknown>>
    BY <1>3 DEF ReleaseArms, Limp
  <2>2. ~ArmIsBusy
    BY <2>1 DEF ArmsInv, ReleaseIsEmpty, ArmIsBusy, OutArm
  <2>3. PlaceHolds' /\ Watched' /\ OneArmGoal' /\ BusyIsTaken' /\ DoneAlone'
    BY <2>1, <2>2 DEF ArmsInv, PlaceHolds, Watched, OutArm, OneArmGoal, InArm,
                      BusyIsTaken, ArmIsBusy, DoneAlone, GoalAt
  <2>4. ReleaseIsEmpty'
    BY <2>1, LetGoTurns DEF ArmsInv, ReleaseIsEmpty, OutArm
  <2> QED BY <2>3, <2>4 DEF ArmsInv
<1>4. CASE ClearHeld(t)
  <2>1. /\ \E p \in {"read", "idle"} : letgo' = [letgo EXCEPT ![t] = p]
        /\ UNCHANGED <<cur, leaf, goal, holding, unknown, robotVars>>
    BY <1>4 DEF ClearHeld
  <2> QED BY <2>1, LetGoTurns, ArmsFollow
<1> QED BY <1>1, <1>2, <1>3, <1>4 DEF LetGoStep

(* A lend that ends keeps ArmsInv: its releaser has still to look. *)
LEMMA BackArms ==
  ASSUME IInv, ArmsInv, TakeBack, UNCHANGED <<leafVars, handVars, robotVars>>
  PROVE  ArmsInv'
<1>1. \/ letgo' = letgo
      \/ letgo' = [letgo EXCEPT !["releaser"] = "look"]
  BY DEF TakeBack
<1>2. "releaser" \in Releasers
  BY DEF Releasers
<1> QED BY <1>1, <1>2, LetGoTurns, ArmsFollow DEF IInv

(* A step of stopEverything() keeps ArmsInv. *)
LEMMA StopStepArms ==
  ASSUME IInv, HoldersInv, FlagInv, AnswerInv, LentInv, TicksHeld, ArmsInv,
         LendsAreOver, LendsAreOver', "deactivate" \notin Requests,
         NEW s \in Stoppers, StopStep(s)
  PROVE  ArmsInv'
<1> USE DEF IInv
<1>1. CASE CancelGoals(s)
  <2>1. /\ CancelAll
        /\ UNCHANGED <<cur, leaf, holding, unknown, robotVars, letgo>>
    BY <1>1 DEF CancelGoals
  <2> QED BY <2>1, AskedGoals, ArmsFollow
<1>2. CASE AwaitHalted(s)
  <2>1. /\ CancelAll
        /\ UNCHANGED <<cur, leaf, holding, unknown, robotVars, letgo>>
    BY <1>2 DEF AwaitHalted
  <2> QED BY <2>1, AskedGoals, ArmsFollow
<1>3. CASE SettleServers(s)
  <2>1. TakeBack /\ UNCHANGED <<leafVars, handVars, robotVars>>
    BY <1>3 DEF SettleServers
  <2> QED BY <2>1, BackArms
<1>4. CASE RaiseFlags(s) \/ NoteStopped(s)
  <2>1. UNCHANGED armGoalVars
    BY <1>4 DEF RaiseFlags, NoteStopped, armGoalVars
  <2> QED BY <2>1, ArmsKeep
<1> QED BY <1>1, <1>2, <1>3, <1>4 DEF StopStep

(* A step of a lend keeps ArmsInv. *)
LEMMA LendArms ==
  ASSUME IInv, HoldersInv, FlagInv, AnswerInv, LentInv, TicksHeld, ArmsInv,
         LendsAreOver, LendsAreOver', "deactivate" \notin Requests,
         NEW c \in Clients, ClaimLend(c) \/ LendStep(c)
  PROVE  ArmsInv'
<1> USE DEF IInv
<1>1. CASE AcquireToLend(c)
  <2>1. CASE TakeBack /\ UNCHANGED <<armsTaken, unknown>>
    <3>1. UNCHANGED <<leafVars, handVars, robotVars>>
      BY <1>1, <2>1 DEF AcquireToLend
    <3> QED BY <2>1, <3>1, BackArms
  <2>2. CASE /\ armsTaken' = TRUE /\ unknown' \in {unknown, Hands \ holding}
             /\ letgo' = letgo
    <3>1. UNCHANGED <<cur, leaf, goal, holding, closed, late>>
      BY <1>1 DEF AcquireToLend
    <3>2. holding \union unknown \subseteq holding' \union unknown'
      BY <2>2, <3>1 DEF TypeOK, ArmTypeOK
    <3>3. PlaceHolds' /\ Watched'
      BY <3>1, <3>2 DEF ArmsInv, PlaceHolds, Watched, OutArm
    <3>4. OneArmGoal' /\ BusyIsTaken' /\ DoneAlone' /\ ReleaseIsEmpty'
      BY <2>2, <3>1 DEF ArmsInv, OneArmGoal, InArm, BusyIsTaken, DoneAlone,
         GoalAt, ArmIsBusy, ReleaseIsEmpty, OutArm
    <3> QED BY <3>3, <3>4 DEF ArmsInv
  <2> QED BY <1>1, <2>1, <2>2, Zenon DEF AcquireToLend
<1>2. CASE LendOvertaken(c)
  <2>1. /\ letgo' = [letgo EXCEPT !["lend"] = "look"]
        /\ UNCHANGED <<cur, leaf, goal, holding, unknown, robotVars>>
    BY <1>2 DEF LendOvertaken
  <2>2. "lend" \in Releasers
    BY DEF Releasers
  <2> QED BY <2>1, <2>2, LetGoTurns, ArmsFollow
<1>3. CASE ClaimLend(c) \/ TimeLend(c) \/ GrantLend(c) \/ RefuseOvertaken(c)
  <2>1. UNCHANGED armGoalVars
    BY <1>3 DEF ClaimLend, TimeLend, GrantLend, RefuseOvertaken, armGoalVars
  <2> QED BY <2>1, ArmsKeep
<1> QED BY <1>1, <1>2, <1>3 DEF LendStep

(* Nobody lets go of the arms while they are lent, when shutdown() waits    *)
(* for the lend to end.                                                     *)
LEMMA LentLetsGoNone ==
  ASSUME IInv, HoldersInv, LendsAreOver, lentTo # None
  PROVE  \A t \in Releasers : letgo[t] = "idle"
<1>1. letgo["releaser"] = "idle" /\ letgo["lend"] = "idle"
  BY DEF HoldersInv, ReleasersWork, LentIsQuiet
<1>2. letgo["main"] = "idle"
  BY DEF HoldersInv, ReleasersWork, LendsAreOver
<1>3. letgo["mission"] = "idle"
  <2> SUFFICES ASSUME NEW m \in Missions, pc[m] = "lettinggo",
                      Mode[m] = "EXECUTE"
               PROVE  FALSE
    BY DEF HoldersInv, ReleasersWork
  <2>1. running = m /\ running # None
    BY MissionsAssumption DEF IInv, ClaimIsTheThreads, Working, Phases
  <2> QED BY <2>1 DEF IInv, OneUser
<1> QED BY <1>1, <1>2, <1>3 DEF Releasers

(* The steps of the other threads that touch ArmsInv keep it. *)
LEMMA OthersArms ==
  ASSUME IInv, HoldersInv, FlagInv, AnswerInv, LentInv, TicksHeld, ArmsInv,
         LendsAreOver, LendsAreOver', "deactivate" \notin Requests,
         JoinReleaser \/ GiveBack \/ CheckLend \/ BorrowerGrips
         \/ DeactivateArm
  PROVE  ArmsInv'
<1> USE DEF IInv
<1>1. CASE JoinReleaser
  <2>1. /\ letgo' = [letgo EXCEPT !["main"] = "look"]
        /\ UNCHANGED <<cur, leaf, goal, holding, unknown, robotVars>>
    BY <1>1 DEF JoinReleaser
  <2>2. "main" \in Releasers
    BY DEF Releasers
  <2> QED BY <2>1, <2>2, LetGoTurns, ArmsFollow
<1>2. CASE GiveBack \/ CheckLend
  <2>1. TakeBack /\ UNCHANGED <<leafVars, handVars, robotVars>>
    BY <1>2 DEF GiveBack, CheckLend
  <2> QED BY <2>1, BackArms
<1>4. CASE BorrowerGrips
  <2>1. UNCHANGED <<cur, leaf, goal, holding, unknown, armsTaken, letgo>>
    BY <1>4 DEF BorrowerGrips
  <2>2. \/ \A t \in Releasers : letgo[t] = "idle"
        \/ closed \subseteq late => closed' \subseteq late'
    BY <1>4, LentLetsGoNone DEF BorrowerGrips
  <2>3. PlaceHolds' /\ Watched' /\ OneArmGoal' /\ BusyIsTaken' /\ DoneAlone'
    BY <2>1 DEF ArmsInv, PlaceHolds, Watched, OutArm, OneArmGoal, InArm,
                BusyIsTaken, ArmIsBusy, DoneAlone, GoalAt
  <2>4. ReleaseIsEmpty'
    BY <2>1, <2>2 DEF ArmsInv, ReleaseIsEmpty, OutArm
  <2> QED BY <2>3, <2>4 DEF ArmsInv
<1>5. CASE DeactivateArm
  BY <1>5 DEF DeactivateArm
<1> QED BY <1>1, <1>2, <1>4, <1>5

(* No other step is about the variables of ArmsInv. *)
LEMMA ElsewhereArms ==
  ASSUME ArmsInv,
         \/ \E m \in Missions : CancelMission(m)
         \/ \E s \in Deadmen : Deadman(s)
         \/ OnStopAll \/ WatchdogReads \/ WatchdogFires \/ Shutdown
         \/ JoinWorker \/ GoDown \/ ReleaserEnds \/ TeleopOn \/ TeleopOff
         \/ TeleopStill \/ PassDeadline \/ PassLend \/ FallSilent
         \/ LoseBalance \/ Rest \/ UNCHANGED vars
  PROVE  ArmsInv'
<1>1. UNCHANGED armGoalVars
  BY DEF CancelMission, Deadman, OnStopAll, WatchdogReads, WatchdogFires,
      Shutdown, JoinWorker, GoDown, ReleaserEnds, TeleopOn, TeleopOff,
      TeleopStill, PassDeadline, PassLend, FallSilent, LoseBalance, Rest, vars,
      armGoalVars
<1> QED BY <1>1, ArmsKeep

(* Every step keeps ArmsInv. *)
LEMMA ArmsStep ==
  ASSUME IInv, HoldersInv, FlagInv, AnswerInv, LentInv, TicksHeld, ArmsInv,
         LendsAreOver, LendsAreOver',
         "deactivate" \notin Requests, [Next]_vars
  PROVE  ArmsInv'
BY MissionStepArms, LeafStepArms, ServerStepArms, LetGoStepArms, StopStepArms,
   LendArms, OthersArms, ElsewhereArms
   DEF Next, ShutdownStep, WorldStep
-----------------------------------------------------------------------------
(***************************************************************************)
(* The invariants hold, and what they say                                  *)
(***************************************************************************)

(* The invariants of the parts, each after those it needs. *)
LEMMA HoldersHold == Spec => []HoldersInv
<1>1. Init => HoldersInv
  BY ClientsAssumption, SMTT(12)
     DEF Init, HoldersInv, ReleasersWork, AcquiresExecuted, HeldForAReason,
         LendKnows, LentIsQuiet, WorkerJoined, ReleaseAwaited, Moves,
         MovePhases, ArmPhases, Releasers
<1>2. IInv /\ HoldersInv /\ [Next]_vars => HoldersInv'
  BY HoldersStep
<1> QED BY <1>1, <1>2, Invariant, PTL DEF Spec

(* Once nobody uses the robot, the arms are held only for a hand that holds *)
(* something or may, however the mission or the lend before ended: finish() *)
(* and takeBack() reach letGoOfArms() on each of their paths.               *)
THEOREM NobodyHoldsIdleArms == Spec => []IdleLetsGo
<1>1. IInv /\ HoldersInv => IdleLetsGo
  BY MissionsAssumption
     DEF HoldersInv, HeldForAReason, IdleLetsGo, Unused, ArmPhases, IInv,
         ClaimIsTheThreads, Working, Phases
<1> QED BY <1>1, HoldersHold, Invariant, PTL

(* Every step keeps shutdown() the last to let go. *)
LEMMA LastStep ==
  ASSUME IInv, LendsAreOver, MainIsLast, [Next]_vars
  PROVE  MainIsLast'
<1>1. CASE JoinReleaser
  BY <1>1 DEF JoinReleaser, MainIsLast
<1>2. CASE GiveBack \/ CheckLend \/ \E s \in Stoppers : SettleServers(s)
  <2>1. main' = main /\ TakeBack
    BY <1>2 DEF GiveBack, CheckLend, SettleServers
  <2> QED BY <2>1 DEF TakeBack, MainIsLast, LendsAreOver
<1>3. CASE \E c \in Clients : AcquireToLend(c)
  <2>1. main' = main /\ lender.at # "idle"
    BY <1>3 DEF AcquireToLend, LendAt
  <2> QED BY <2>1 DEF MainIsLast, LendsAreOver
<1>4. CASE ReleaserEnds
  BY <1>4 DEF ReleaserEnds, MainIsLast
<1>5. CASE JoinWorker \/ GoDown \/ Shutdown
  BY <1>5 DEF JoinWorker, GoDown, Shutdown, MainIsLast
<1>6. CASE UNCHANGED <<main, releasing>>
  BY <1>6 DEF MainIsLast
<1>7. \/ UNCHANGED <<main, releasing>>
      \/ JoinReleaser \/ JoinWorker \/ GoDown \/ Shutdown
      \/ GiveBack \/ CheckLend \/ ReleaserEnds
      \/ \E s \in Stoppers : SettleServers(s)
      \/ \E c \in Clients : AcquireToLend(c)
  <2>1. CASE \E m \in Missions : MissionStep(m) \/ LeafStep(m)
                                 \/ CancelMission(m)
    <3>1. UNCHANGED <<main, releasing>>
      <4>1. CASE \E m \in Missions : MissionStep(m)
        BY <4>1, ZenonT(60) DEF MissionStep, StartMission, ClearHalted,
           SpawnWorker, SpawnFails, Execute, RejectTree, AcceptTree,
           TakeAuthority, AcquireArms, Interrupt, TreeSucceeds, TreeFails,
           TreeThrows, HaltTree, SayHalted, SweepAfterHalt, Finish, Finished,
           EndClaim, Report
      <4>2. CASE \E m \in Missions : LeafStep(m) \/ CancelMission(m)
        BY <4>2, ZenonT(40) DEF LeafStep, StartLeaf, SendGoal, LeafNotSent,
           LeafJudged, StepTimesOut, CancelMission
      <4> QED BY <2>1, <4>1, <4>2
    <3> QED BY <3>1
  <2>2. CASE \/ \E m \in Missions : \E k \in StepsOf(m) : ServerStep(m, k)
             \/ \E t \in Releasers : LetGoStep(t)
             \/ \E s \in Deadmen : Deadman(s)
    <3>1. UNCHANGED <<main, releasing>>
      BY <2>2, ZenonT(40) DEF ServerStep, AnswerGoal, MoveFingers, EndGoal,
         LetGoStep, LetGoLook, ReadFingers, ReleaseArms, ClearHeld, Deadman
    <3> QED BY <3>1
  <2>3. CASE \E s \in Stoppers : StopStep(s)
    BY <2>3 DEF StopStep, RaiseFlags, CancelGoals, AwaitHalted, NoteStopped
  <2>4. CASE \E c \in Clients : ClaimLend(c) \/ LendStep(c)
    BY <2>4 DEF ClaimLend, LendStep, TimeLend, GrantLend, LendOvertaken,
       RefuseOvertaken
  <2>5. CASE \/ OnStopAll \/ WatchdogReads \/ WatchdogFires
             \/ TeleopOn \/ TeleopOff \/ TeleopStill
             \/ WorldStep \/ Rest \/ UNCHANGED vars
    <3>1. UNCHANGED <<main, releasing>>
      BY <2>5, ZenonT(40) DEF OnStopAll, WatchdogReads, WatchdogFires,
         TeleopOn, TeleopOff, TeleopStill, WorldStep, BorrowerGrips,
         PassDeadline, PassLend, FallSilent, LoseBalance, DeactivateArm, Rest,
         vars
    <3> QED BY <3>1
  <2> QED BY <2>1, <2>2, <2>3, <2>4, <2>5 DEF Next, ShutdownStep
<1> QED BY <1>1, <1>2, <1>3, <1>4, <1>5, <1>6, <1>7

(* With nobody to borrow the arms, no lend is overtaken: the hypothesis of  *)
(* the theorems below is met by every execution.                            *)
LEMMA NobodyLends ==
  ASSUME Clients = {}
  PROVE  Spec => []LendsAreOver
<1>1. IInv /\ HoldersInv => LendsAreOver
  BY DEF IInv, TypeOK, LendTypeOK, HoldersInv, LendKnows, LendsAreOver
<1> QED BY <1>1, HoldersHold, Invariant, PTL

(* Once shutdown() returns, the arms are held only for such a hand, when no *)
(* lend is overtaken by it: one still being granted may still be letting go. *)
THEOREM ShutdownLeavesNoArms ==
  Spec /\ []LendsAreOver => []ShutdownLetsGo
<1>1. IInv /\ HoldersInv /\ LendsAreOver /\ MainIsLast => ShutdownLetsGo
  <2> SUFFICES ASSUME IInv, HoldersInv, LendsAreOver, MainIsLast,
                      main = "down", armsHeld
               PROVE  MayHold(holding, unknown)
    BY DEF ShutdownLetsGo
  <2>1. \A m \in Missions : pc[m] \in {"new", "refused", "done"}
    BY DEF HoldersInv, WorkerJoined
  <2>2. ~releasing /\ lender.at = "idle" /\ lentTo = None
    BY DEF MainIsLast, LendsAreOver
  <2>3. \A t \in Releasers : letgo[t] = "idle"
    BY <2>1, <2>2 DEF HoldersInv, ReleasersWork, Releasers
  <2> QED BY <2>1, <2>2, <2>3 DEF HoldersInv, HeldForAReason, ArmPhases
<1>2. Init => MainIsLast
  BY DEF Init, MainIsLast
<1>3. IInv /\ LendsAreOver /\ MainIsLast /\ [Next]_vars => MainIsLast'
  BY LastStep
<1> QED BY <1>1, <1>2, <1>3, HoldersHold, Invariant, PTL DEF Spec

(* A stop's flags hold with no hypothesis. *)
LEMMA FlagsHold == Spec => []FlagInv
<1>1. Init => FlagInv
  BY MissionsAssumption, SMTT(12)
     DEF Init, FlagInv, Flagged, LeafPhases, HaltedWhere
<1>2. IInv /\ FlagInv /\ [Next]_vars => FlagInv'
  BY FlagsStep
<1> QED BY <1>1, <1>2, Invariant, PTL DEF Spec

(* What a stop answers is so, when servers answer in time. *)
LEMMA AnswersHold ==
  ASSUME PromptServers
  PROVE  Spec => []AnswerInv
<1>1. Init => AnswerInv
  BY SMTT(12) DEF Init, AnswerInv, SentAwaited, OkIsQuiet, QuietAnswer
<1>2. IInv /\ FlagInv /\ AnswerInv /\ [Next]_vars => AnswerInv'
  BY AnswersStep
<1> QED BY <1>1, <1>2, FlagsHold, Invariant, PTL DEF Spec

(* After stopEverything() answered "ok" for a mission, no leaf of it is out *)
(* and no goal of it in flight, whichever thread's stop it was and whatever *)
(* missions start meanwhile, when servers answer within cancel_settle_s: a  *)
(* goal accepted after that limit runs on, and the answer was given.        *)
THEOREM StopsHold ==
  ASSUME PromptServers
  PROVE  Spec => []StopHolds
<1>1. AnswerInv => StopHolds
  BY DEF AnswerInv, OkIsQuiet, QuietAnswer, StopHolds, At
<1> QED BY <1>1, AnswersHold, PTL

(* Who has the arms is known while nobody runs deactivate_arm. *)
LEMMA LentHold ==
  ASSUME "deactivate" \notin Requests
  PROVE  Spec => []LentInv
<1>1. Init => LentInv
  BY DEF Init, LentInv, HeldIsTaken, LentIsTaken
<1>2. IInv /\ HoldersInv /\ LentInv /\ [Next]_vars => LentInv'
  BY LentStep
<1> QED BY <1>1, <1>2, HoldersHold, Invariant, PTL DEF Spec

(* A client that onLend() granted the arms has them until its lend ends,    *)
(* when nobody runs deactivate_arm behind the executor's back: no release   *)
(* that takeBack(), finish() or an overtaken lend started lands on it.      *)
THEOREM BorrowersHaveTheArms ==
  ASSUME "deactivate" \notin Requests
  PROVE  Spec => []LentArmsAreTaken
<1>1. LentInv => LentArmsAreTaken
  BY DEF LentInv, LentIsTaken, LentArmsAreTaken
<1> QED BY <1>1, LentHold, PTL

(* A tree that needs the arms has them, when no lend is overtaken either. *)
LEMMA TicksHold ==
  ASSUME "deactivate" \notin Requests
  PROVE  Spec /\ []LendsAreOver => []TicksHeld
<1>1. Init => TicksHeld
  BY DEF Init, TicksHeld, ArmPhases
<1>2. /\ IInv /\ HoldersInv /\ LentInv /\ TicksHeld
      /\ LendsAreOver /\ LendsAreOver' /\ [Next]_vars
      => TicksHeld'
  BY TicksStep
<1> QED BY <1>1, <1>2, LentHold, HoldersHold, Invariant, PTL DEF Spec

(* While a pick's or a place's goal is out its arms are taken, whoever      *)
(* stops, cancels or fails the mission and whoever borrowed the arms before *)
(* it, when nobody runs deactivate_arm and no lend is overtaken: one that a *)
(* mission overtakes lets go of the arms at a moment of its own.            *)
THEOREM TreesHaveTheArms ==
  ASSUME "deactivate" \notin Requests
  PROVE  Spec /\ []LendsAreOver => []ArmsUnderTheTree
<1>1. IInv /\ TicksHeld => ArmsUnderTheTree
  <2> SUFFICES ASSUME IInv, TicksHeld, NEW m \in Missions,
                      Acts(m), leaf[m] = "out", Step(m).skill # "walk"
               PROVE  armsTaken
    BY DEF ArmsUnderTheTree
  <2>1. NeedsArms(m)
    BY DEF IInv, LeafInPlan, NeedsArms, Step
  <2> QED BY <2>1 DEF Acts, TicksHeld, ArmPhases
<1> QED BY <1>1, TicksHold, Invariant, PTL

(* Which hand a goal is about is known under all three hypotheses. *)
LEMMA ArmsHold ==
  ASSUME "deactivate" \notin Requests, PromptServers
  PROVE  Spec /\ []LendsAreOver => []ArmsInv
<1>1. Init => ArmsInv
  <2> SUFFICES ASSUME Init PROVE ArmsInv
    OBVIOUS
  <2>1. \A m \in Missions : \A k \in StepsOf(m) : goal[m][k] = "unsent"
    BY PlanSteps DEF Init, StepsOf
  <2>2. (\A m \in Missions : leaf[m] = "none")
        /\ (\A t \in Releasers : letgo[t] = "idle")
    BY DEF Init
  <2> QED BY <2>1, <2>2
      DEF ArmsInv, PlaceHolds, Watched, OutArm, OneArmGoal, InArm, BusyIsTaken,
          ArmIsBusy, DoneAlone, ReleaseIsEmpty, InFlight
<1>2. /\ IInv /\ HoldersInv /\ FlagInv /\ AnswerInv /\ LentInv /\ TicksHeld
      /\ ArmsInv /\ LendsAreOver /\ LendsAreOver' /\ [Next]_vars
      => ArmsInv'
  BY ArmsStep
<1> QED BY <1>1, <1>2, Invariant, HoldersHold, FlagsHold, AnswersHold,
           LentHold,
           TicksHold, PTL DEF Spec

(* letGoOfArms() never releases the arms over a closed hand, on whichever   *)
(* thread, although it reads the fingers before the release and picks that  *)
(* nobody waits for may still close a hand: under the hypotheses above, and *)
(* when servers answer in time, so that a goal is accepted only under the   *)
(* mission that sent it.  A borrower's hand motion that closes a hand after *)
(* its lend ended is the exception, and harms no other hand: nothing        *)
(* cancels it, and it may act between the reading and the release.          *)
THEOREM ReleasesDropNothing ==
  ASSUME "deactivate" \notin Requests, PromptServers
  PROVE  Spec /\ []LendsAreOver => NeverDrops
<1>1. IInv /\ ArmsInv /\ [Next]_vars
      => [\A t \in Releasers : ReleaseKeeps(t)]_vars
  <2> SUFFICES ASSUME ArmsInv, NEW t \in Releasers, letgo[t] = "release"
               PROVE  closed \ late \subseteq closed'
    BY DEF ReleaseKeeps, Releasing
  <2> QED BY DEF ArmsInv, ReleaseIsEmpty
<1> QED BY <1>1, ArmsHold, Invariant, PTL DEF Spec, NeverDrops

(* What a borrower has closed a hand on while its lend lasted, or a mission *)
(* left in it before, is not dropped by the releaser that takeBack() starts *)
(* when the lend ends, although the borrower's motion goes on meanwhile:    *)
(* under the same hypotheses, as a lend that a mission overtakes leaves     *)
(* that mission's goals moving a hand that counts as empty.                 *)
THEOREM LendsDropNothing ==
  ASSUME "deactivate" \notin Requests, PromptServers
  PROVE  Spec /\ []LendsAreOver => LendNeverDrops
<1>1. IInv /\ ArmsInv /\ [Next]_vars => [ReleaseKeeps("releaser")]_vars
  <2> SUFFICES ASSUME ArmsInv, letgo["releaser"] = "release"
               PROVE  closed \ late \subseteq closed'
    BY DEF ReleaseKeeps, Releasing
  <2> QED BY DEF ArmsInv, ReleaseIsEmpty, Releasers
<1> QED BY <1>1, ArmsHold, Invariant, PTL DEF Spec, LendNeverDrops
=============================================================================
