-------------------------- MODULE MissionExecutor --------------------------
(***************************************************************************)
(* g1_orchestration's mission executor: its threads, interleaved at their  *)
(* mutexes and blocking calls, with the robot and the clients around it.   *)
(***************************************************************************)
EXTENDS MissionThread, StopThread, Lending, Robot

(* run()'s thread and the thread that starts it. *)
MissionStep(m) ==
    \/ StartMission(m)
    \/ ClearHalted(m)
    \/ SpawnWorker(m)
    \/ SpawnFails(m)
    \/ Execute(m)
    \/ RejectTree(m)
    \/ AcceptTree(m)
    \/ TakeAuthority(m)
    \/ AcquireArms(m)
    \/ Interrupt(m)
    \/ TreeSucceeds(m)
    \/ TreeFails(m)
    \/ TreeThrows(m)
    \/ HaltTree(m)
    \/ SayHalted(m)
    \/ SweepAfterHalt(m)
    \/ Finish(m)
    \/ Finished(m)
    \/ EndClaim(m)
    \/ Report(m)

LeafStep(m) ==
    \/ StartLeaf(m)
    \/ SendGoal(m)
    \/ LeafNotSent(m)
    \/ LeafJudged(m)
    \/ StepTimesOut(m)

(* Every thread is back where it waits for work, and no goal is left to    *)
(* start: the only place the executor may rest.                            *)
AtRest ==
    /\ \A m \in Missions :
          pc[m] \in {"refused", "done"} \/ (main = "down" /\ pc[m] = "new")
    /\ \A s \in Stoppers : stopper[s].at = "idle"
    /\ \A t \in Releasers : letgo[t] = "idle"
    /\ lender.at = "idle" /\ ~releasing
    /\ main \in {"up", "down"}

Rest == AtRest /\ UNCHANGED vars

Next ==
    \/ \E m \in Missions : MissionStep(m) \/ LeafStep(m) \/ CancelMission(m)
    \/ \E m \in Missions : \E k \in StepsOf(m) : ServerStep(m, k)
    \/ \E t \in Releasers : LetGoStep(t)
    \/ \E s \in Deadmen : Deadman(s)
    \/ \E s \in Stoppers : StopStep(s)
    \/ \E c \in Clients : ClaimLend(c) \/ LendStep(c)
    \/ OnStopAll
    \/ WatchdogReads \/ WatchdogFires
    \/ Shutdown \/ ShutdownStep
    \/ GiveBack \/ CheckLend \/ ReleaserEnds
    \/ TeleopOn \/ TeleopOff \/ TeleopStill
    \/ WorldStep
    \/ Rest

Spec == Init /\ [][Next]_vars

(* Every thread that is not waiting for work is scheduled, its blocking     *)
(* calls have limits, the timers' callbacks come, and a prompt server       *)
(* answers.  Nobody has to send, cancel or stop anything, no clock has to   *)
(* pass a limit, no goal has to end and no tree has to get anywhere.        *)
WorkerRuns(m) == MissionStep(m) /\ pc[m] # "new"
LeafSends(m)  == SendGoal(m) \/ LeafNotSent(m)

FairSpec ==
    /\ Spec
    /\ \A m \in Missions : WF_vars(WorkerRuns(m)) /\ WF_vars(LeafSends(m))
    /\ \A m \in Missions : \A k \in StepsOf(m) : WF_vars(AnswerGoal(m, k))
    /\ \A t \in Releasers : WF_vars(LetGoStep(t))
    /\ \A s \in Stoppers : WF_vars(StopStep(s))
    /\ \A c \in Clients : WF_vars(LendStep(c))
    /\ \A s \in Deadmen : WF_vars(Deadman(s))
    /\ WF_vars(CheckLend) /\ WF_vars(ReleaserEnds)
    /\ WF_vars(ShutdownStep)
-----------------------------------------------------------------------------
(***************************************************************************)
(* Who uses the robot                                                      *)
(***************************************************************************)
User ==
    IF running # None /\ Mode[running] = "EXECUTE" THEN running
    ELSE IF lentTo # None THEN lentTo
    ELSE IF teleop = "on" THEN "operator"
    ELSE None

Claims == INSTANCE RobotClaim
          WITH Users <- Missions \union Clients \union {"operator"},
               Nobody <- None, user <- User

(* A mission, a lend and teleop exclude each other, and the robot passes   *)
(* from one to the next only through nobody ("a lend and a mission exclude *)
(* each other", nervros_executor.hpp).                                     *)
ExclusiveUse == Claims!Spec

(* The robot is claimed for a mission exactly while that mission's thread   *)
(* works: a claim is not lost under a running tree, and none outlives its   *)
(* thread, after which every later mission would be refused as "busy".      *)
ClaimIsTheThreads == \A m \in Missions : running = m <=> pc[m] \in Working

(***************************************************************************)
(* The arms and the hands                                                  *)
(***************************************************************************)
(* While a pick's or a place's goal is out, its arms are taken: no thread  *)
(* lets go of them, or forgets that it did, under a running tree.          *)
ArmsUnderTheTree ==
    \A m \in Missions :
        Acts(m) /\ leaf[m] = "out" /\ Step(m).skill # "walk" => armsTaken

(* A release opens no hand but one that a borrower's motion closed after   *)
(* its lend had ended.                                                     *)
Releasing(t) == letgo[t] = "release" /\ letgo'[t] = "clear"
ReleaseKeeps(t) == Releasing(t) => closed \ late \subseteq closed'

(* The arms are never released with an object in a closed hand, whichever  *)
(* of four threads lets go, although the fingers are read before the       *)
(* release and pick goals nobody waits for may still be closing a hand.    *)
(* Only what a borrower's own motion closes after its lend is left out.    *)
NeverDrops == [][\A t \in Releasers : ReleaseKeeps(t)]_vars

(* What a borrower has closed a hand on while the arms were lent to it is  *)
(* not dropped when its lend ends, given back, timed out or stopped.       *)
LendNeverDrops == [][ReleaseKeeps("releaser")]_vars

(* A client that was granted the arms has them until its lend ends: no     *)
(* release left over from an earlier lend or mission lands on the new one. *)
LentArmsAreTaken ==
    lentTo # None /\ lender.at = "idle" /\ main = "up" => armsTaken

(* Once shutdown() returns, the executor holds the arms only for a hand    *)
(* that holds something, or may.                                           *)
ShutdownLetsGo == main = "down" => ~armsHeld \/ MayHold(holding, unknown)

(* Nor does it keep them, once nobody uses the robot, for any other reason: *)
(* each way a mission or a lend can end lets go of them.                    *)
Unused ==
    /\ running = None /\ lentTo = None /\ lender.at = "idle"
    /\ \A t \in Releasers : letgo[t] = "idle"
IdleLetsGo == Unused => ~armsHeld \/ MayHold(holding, unknown)

(***************************************************************************)
(* Stopping                                                                *)
(***************************************************************************)
(* After StopAll answers ok for a mission, nothing of that mission moves   *)
(* the robot: no leaf has a goal out and none of its goals is in flight.   *)
StopHolds ==
    \A s \in Stoppers : \A m \in Missions :
        At(s, "idle") /\ stopper[s].ok /\ stopper[s].hit = m
        => /\ leaf[m] = "none"
           /\ \A k \in 1..MaxSteps : goal[m][k] \notin InFlight \union {"sent"}

(* A stop ends only the mission that was running when it was asked for.    *)
StopHitsItsMission ==
    \A s \in Stoppers : stopper[s].hit \in {None, stopper[s].aim}

(***************************************************************************)
(* What has to happen                                                      *)
(***************************************************************************)
(* A stop that found a mission running ends it.                            *)
StopEndsMission ==
    \A m \in Missions : (running = m /\ stopRequested) ~> (running # m)

(* A mission whose client falls silent, or whose robot falls, ends.        *)
DeadmanEndsMission ==
    \A m \in Missions :
        (running = m /\ DeadmanTrips) ~> (running # m)

(* A client that cancels gets its result.                                  *)
CancelAnswered == \A m \in Missions : (m \in canceling) ~> (pc[m] = "done")

(* A mission past its limit ends, whatever its tree waits for.             *)
DeadlineEndsMission ==
    \A m \in Missions : (running = m /\ deadline = "past") ~> (running # m)

(* shutdown() returns: the worker and the releaser end.                    *)
ShutdownReturns == (main = "joining") ~> (main = "down")

(* A lend whose time is up ends, unless the client asked for it again or   *)
(* the process ended, and the release it starts ends.                      *)
LendRunsOut ==
    /\ (lentTo # None /\ lentUntil = "past")
          ~> (lentTo = None \/ lentUntil = "ahead" \/ main = "down")
    /\ releasing ~> ~releasing
=============================================================================
