# A TLA+ model of grove-g1

grove-g1 drives a Unitree G1 humanoid: an agent sends missions as behaviour
trees, `g1_orchestration` runs them, and skill servers, navigation, controllers
and hardware interfaces move the robot. This directory holds TLA+ modules of
its control logic, the TLC instances that check them and the theorems TLAPS
proves of them. Source paths below are relative to `src/workspace/src/`;
`cpp` is `g1_orchestration/src/nervros_executor.cpp` and `hpp` its header.

Run from this directory: `tlc -workers 2 -config ExecutorStop.cfg MCExecutor`,
`tlc -workers 2 -config ControlStack.cfg ControlStack`, `tlapm ControlMotors_proofs.tla`.

The project has four stacks of modules that meet at the interfaces the code has:
the **executor** (who uses the robot, and how every use ends), the **missions**
(what a tree is let do), the **skills** (picks and places, and walking) and the
**control stack** (what reaches the motors).

## 1. The system

| Component | State it keeps | Operations | Hard behaviour | What makes it correct |
|---|---|---|---|---|
| Mission executor (`nervros_executor.cpp`) | claim of the robot, flags that wind a mission down, lend, arms and hands, clocks | ExecuteMission, cancel, StopAll, LendResources, Teleop, PauseMission, heartbeats, shutdown | seven kinds of thread over four mutexes and a dozen atomics | one user at a time; a stop holds and hits its mission; no object is dropped; everything ends |
| Action leaves (`ros_action_node.hpp`) | the goal sent, its answer, its result | start, run, halt | a goal accepted after the halt | no goal is left behind |
| Server fleet (`server_fleet.cpp`) | each server's last status message | cancelAll, busy, settle | the status is late | what it calls quiet is quiet |
| Arm authority (`arm_authority.cpp`, `authority_port.cpp`) | none; controller_manager's | acquire, release, read the fingers | several service calls, each may fail | all switched or none |
| Teleop driver (`teleop_driver.cpp`) | active, stopping, velocities | enable, disable, tick | the ramp outlives active | one writer of the base's topic |
| Validator, catalog, macros | none once loaded | validate a tree | none (pure), but five kinds of control node combine | no step reads what nobody wrote; the worst case bounds every run |
| Learned skills, repertoire | files, drafts and kept skills, the current set | define, forget, load | crash between write and rename; a set replaced under a mission | what was kept returns, what was forgotten does not; a mission runs what it was checked against |
| Manipulation server (`g1_manipulation`) | busy, planning scene, hands, speeds | pick, place, posture, move hand | two dozen ways out; cancel in every phase | scene, hand and speed are defined at every end |
| Base approach (`g1_locomotion`) | the goal that owns the base, last transform, last sighting | approach, retreat, step clear | cancel, throw, stale poses, shutdown | the base stops when the goal ends; no goal stays for ever |
| Controllers (`g1_controllers`) | blend ratio, references, emergency latch, flags of its request | update, switch, emergency | real-time thread against a timer and a service | the command is smooth; a latched fault goes on asking for the freeze |
| Hardware interfaces | claims and commands, frame, active flag, channels | read, write, switch, lifecycle, release ramp | write against the ramp, silence, errors on the update thread | frames are whole; a release is final |
| State estimation | the latched start, the last samples | configure to shutdown, samples, timer | late and repeated samples, a node reconfigured | a transform says where the base was at its stamp |
| VLA server (`g1_vla`) | the running chunk | request, execute, cancel | engine timeout against a cancel | no chunk after the end |
| Sensor relay, perception | partial frames, tracks | parse, track | cut input, late clouds | silence rather than stale data |

Leaves call servers through ROS actions, services reach the executor through
callback groups on five threads (`nervros_executor_main.cpp:27`), and the
executor's own worker, releaser and main thread share its members with them.
The hazards list in `PROJECT.json` says where each of these bites.

## 2. Modules

| Module | What it models |
|---|---|
| `ExecutorState` | the shared variables, their types, the constants and what several threads share: `CancelAll`, `TakeBack`, `Acquired`, `Init` |
| `ArmRelease` | `letGoOfArms()`, run by four threads: look, read the fingers, release, clear |
| `MissionThread` | `startMission()`, `run()`, `execute()`, `takeAuthority()`, `tickLoop()`, the leaves, `halt()`, `finish()` |
| `StopThread` | `stopEverything()` under StopAll and the deadman, `handleCancel()`, `watchdog()`, `shutdown()` |
| `Lending` | `onLend()`, `takeBack()`, `checkLend()`, `onTeleop()` and the driver's states |
| `Robot` | the environment: servers, fingers, a borrower, clocks, heartbeats, balance, `deactivate_arm` |
| `MissionExecutor` | the composition: `Next`, `Spec`, `FairSpec`, and all properties |
| `RobotClaim` | the abstract specification: one user, and never a hand-over without nobody in between |
| `MCExecutor` | the plans and modes of the TLC instances |
| `MissionExecutor_proofs`, `ExecutorArms_proofs` | the theorems |

Control stack:

| Module | What it models |
|---|---|
| `LowCmdSystem` | `g1_lowcmd_system.cpp`: read, the mode table, the frame filled motor by motor, publish, activation, release ramp, errors; `BodySpec` is the component under any controllers |
| `Dex3System` | `g1_dex3_system.cpp`: a hand's seeding, slew, staleness and release; `HandSpec` |
| `LegControllers` | policy, safety controller and freeze: blend, slew, domain check, latch, emergency request |
| `ControllerManager` | external: who holds which joints, queued switch calls, STRICT and BEST_EFFORT |
| `ArmAuthority` | `arm_authority.cpp` step by step, and the scripts that swap the same controllers |
| `ControlStack` | the process: update thread, lifecycles, spawners, callers; all its properties |
| `Hardware_proofs`, `ControlStack_proofs`, `ControlMotors_proofs` | the theorems |

Walking:

| Module | What it models |
|---|---|
| `Odometry` | the odometry publisher: lifecycle, two sources, latched start, timer |
| `ApproachPlanner` | `approach_planner.cpp`, `step_clear.cpp`: the drive of a tick, reach, nudges, the way that clears |
| `BaseApproach` | the approach node's three actions, `runGuarded`, accepts, cancels, shutdown |
| `Walking`, `MCWalking` | the two nodes with the robot, the clock and the clients; properties; rooms |
| `Walking_proofs` | the theorems |

Manipulation:

| Module | What it models |
|---|---|
| `PlanningScene` | the collision matrix and objects as a record, each request an operator |
| `GraspChoice` | which of the offered grasps are looked at and how many are tried; the grip check |
| `ManipulationSkills`, `MCSkills` | the four skills phase by phase, their clean-ups; properties; offers |
| `ManipulationSkills_proofs` | the theorems |

Missions:

| Module | What it models |
|---|---|
| `MissionTree` | trees as values, and `Runs`: every way a tree may go under BehaviorTree.CPP |
| `MissionValidator` | the checks of `mission_validator.cpp`, surely-written outputs, the worst case |
| `SkillStore` | define, forget, load and commit of skills, the files under them and crashes; its properties |
| `LearnedSkills` | the checks of a definition's body, what a taught skill then is, and the set the robot serves |
| `Missions`, `MCMissions` | `execute()` from the document to the run, beside teaching and crashes; properties; the documents |
| `SkillStore_proofs` | the theorems |

How the stacks meet. `MissionExecutor` takes an acquire or a release of the arms as
one step; `ArmAuthority` is that step in detail, over controllers that others trade
too. `MissionExecutor` takes a tree as a sequence of leaves; `Missions` says what
authority and time it gets. `Robot` takes a pick or a place as one change of the
fingers; `ManipulationSkills` says what each may leave behind.

### The executor

A variable is a member of `MissionExecutor` or a thread's place in its function
(`pc`, `lender`, `stopper`, `letgo`, `main`); the comments in `ExecutorState`
name the member of each. An action is what one thread does under one mutex or
between two blocking calls, with all the writes of that stretch:

- Claim: `StartMission` is the block under `stop_mutex_` (cpp 647-675), and the
  clearing of `halted_` and the joining of the last worker are separate steps,
  since a stop may come between them.
- A mission: `Execute`, `RejectTree`/`AcceptTree`, `TakeAuthority`,
  `AcquireArms`, then leaves and ticks, then `HaltTree`, `SayHalted`,
  `SweepAfterHalt`, `Finish`, the release, `Finished`, `EndClaim`, `Report`.
- A leaf: `StartLeaf` passes the check of the stop flag
  (`ros_action_node.hpp` 224-240), `SendGoal` or `LeafNotSent` ends the wait for the
  server, whatever was asked meanwhile, and `LeafJudged` takes the result. A
  goal's way (`sent`, `active`, `canceling`, ended) goes on without its leaf.
- A stop: five steps per thread (flags, cancel, wait for `halted_`, settle,
  note), with `aim` and `hit`, the mission it was asked for and the one it
  found. Those two and `stops` are history variables.
- A lend: claim, time, acquire, look again; `TakeBack` by whoever calls it.
- Mutants' alternatives ("Slip") stand before the definition they vary; they are
  in no specification.

Callback groups give the guards that keep a callback from running twice: one
action callback at a time, one StopAll or Teleop at a time, one lend at a time.
The deadman timer is in a reentrant group (cpp:319-323, 440), so several may run:
`Deadmen` is that set.

### The control stack

`rt` is where the update thread stands in its cycle: `Read`, `RunControllers`, a
`Switch` if a call waits, `EnterWrite` to `PublishWrite`. `active`, `inWrite`, `sdk`
are the atomics of the component; `tr` is the transition under way and its thread
(`BeginActivate`, `ReleaseMotionMode`, `FirstState`, `Seed`; `BeginRelease` or
`OnError`, `Drain`, `FillRelease`, `PublishRelease`, `Close`). `lowCmd` is the frame
both loops fill, `wire` the last one out. The hand's names carry an `h`. Of the
safety controller, each variable names its member (`latched` is
`emergency_latched_`); `EmergencyTimer` marks the request and queues it,
`EmergencyAnswer` is its callback. `arm` is where `acquireArm` or `releaseArm`
stands: listing, deciding and asking are three steps.

### Walking

A goal is a record: its action, its state for the client, where its thread stands,
its deadline and what its loop remembers. A step of a thread is one pass of its
loop: look, decide, publish, sleep; `StopAndAbort`, `CancelledTick`, `LeaveLoop`,
`Ends` are the code's ways out. `Tick` moves the clock and the base.

### Manipulation

`goal.pc` is the phase. One action is one phase up to its next look at the cancel
flag; `CleansUp`, `Keeps` and `Cancels` are the code's clean-ups, whose steps are
actions of their own, since MoveIt may not answer each (`broken`).

### Missions

`Execute` takes the set of skills once, checks, takes the authority; `Run` picks one
of the tree's ways. `DefineKept`, `WriteTemp`, `Rename`, `Commit` hold the
repertoire's mutex (`edit`); `Crash` may come between any two.

`SkillStore` knows nothing of trees: which definitions pass their checks is its constant
`Sound`. `LearnedSkills` says what the checks are, and `SoundAssumption`, which TLC evaluates,
that `Sound` is what they pass. The steps of `Missions` on the store are its own: `Teach` is
`Edit`, `StartUp` is `Boot`, `Die` is `Crash`, and all others leave `learnVars` alone. So what is
proved of `StoreSpec` holds in every behaviour of `Missions`.

## 3. Abstractions

Executor:

- A clock is whether its limit has passed (`deadline`, `lentUntil`), a heartbeat
  or the robot's health is `trouble`; a heartbeat that comes back before the
  deadman looks is as if none was missed.
- A tree is a sequence of leaves (`Plan`) that may fail, succeed or throw
  wherever a tree can; control nodes and the other leaves only decide which
  leaf is next. `FAILURE` stands for every outcome of a failed tree.
- `acquireArm()`, `releaseArm()` and one reading of the fingers each take effect
  in one step, at their end. An acquire has a step before it, so others run
  meanwhile. Either may fail when `Requests` has `noarms`.
- `ServerFleet` sees the goals' true states; its status messages have no delay.
- A borrower moves its hand with motions of its own (`moves`). The end of its lend stops
  none of them, neither here nor in the code, so `BorrowerGrips` may happen until the
  arms are released; `late` is a history variable, the hands closed after the lend.
- The arm's trajectory controller, whose goal a stop also cancels, moves only
  for the manipulation server's goal and is not told apart from it.
- The spawn failure's two resets (`halted_`, `running_`) are one step. The
  exception paths of `stopEverything()` and `finish()` are left out.
- `JoinReleaser` waits for the release under way. The code tests and joins
  `releaser_` unlocked, which may race with `takeBack()` (hazard cpp:573).
- `PromptServers`: a server answers a goal, and so it can be cancelled, within
  `cancel_settle_s`, and before a `Timeout` of its step (30 to 1500 s).
  `sweepAfterHalt()` rests on the same. All runs make this assumption; without it
  a goal accepted after the sweep moves the arm unwatched.
- `deactivate_arm` is run between missions and with no skill moving the arm,
  as the README of `g1_orchestration` asks.
- An attached executor may find the arms taken, and with `EmptyOnAttach` false an
  object in a hand.
- VALIDATE goals are in the model and in the proofs, but in no run.

Control stack:

- A behaviour has a scene, fixed at its start: which of errors, releases,
  emergencies, blends, arm swaps and hand transitions happen in it. The runs
  combine those that meet; the theorems hold for every set of scenes, the one with all
  six included.
- Callers of controller_manager move at two places of the body's cycle, the hand's
  share of the cycle comes after the body's. Reads, fills and publishes neither see
  nor touch what the callers do. A lifecycle transition and the SDK's samples
  interleave with every step.
- One joint stands for the legs, one for the arms, one finger for a hand; a
  stiffness is full or none, positions are whole numbers. A policy is any pose or a failed
  inference. A frame that DDS refuses is not sent: write() of the body answers `ERROR`, the
  hand's `publish()` ignores it, its release frame included (`PublishHand`).
- controller_manager is external: one call at a time; served even while a
  transition runs, which it does not do (more behaviours, never fewer). It answers
  every call in the end; who gives up is still served.
- The executor's hand is taken at most `MaxHandOps` times.
- The velocity limit of the legs' command is a constant, 1 in the run. As shipped there is none
  (`max_velocity: -1` in `lowcmd_controllers.yaml:135`): then the blend alone is what smooths, and
  `LegsCommandIsSmooth` is about a configuration that sets a limit.

Walking:

- The line is whole steps, with one step aside at most; headings, tilt and the
  exact velocities are left out, turning is one direction that changes no place.
- Time moves when each thread sleeps its tick, so a tick is long against the code
  in it. What is heard at an instant is heard before the threads wake or at the next.
- A walk's odometry comes at once or falls silent; late and repeated samples are in
  the scene `odometry`, where a sample may be of before the configuration that hears it,
  as FAST-LIO's stamps allow. `heard` is a history variable: the stamps of the samples a
  configuration heard. A costmap shows the obstacles there are.
- `settle_s` is not 0 (`SettleAssumption`). It is 1.0 as shipped and nothing checks it; at 0
  `settle()` publishes nothing (`g1_base_approach_node.cpp:338-348`), the model's `Settle` neither,
  and `BaseStopsWithGoal` would fail.
- A goal's own standoff or a surface's edge may make a reach window that the planner refuses
  (`usable`): the approach then stops and aborts. Which goals do is left open.
- At most `Timeout + 3` before the last instant no further goal starts, so that
  every goal's deadline lies within the time modelled.
- `Boundless` stands for the infinite distance a measurement is compared with at first;
  `BoundlessAssumption` keeps every distance of an instance under it.

Manipulation:

- Plans, motions, solutions and sightings succeed or fail; offers are sequences of
  six kinds of grasps. The server's parameters are constants.
- `MaxFaults`: how many of "the scene did not answer", "the hand did not move", "the
  goal threw" happen. Where one did, the code cannot restore and the properties say so.

Missions:

- Text is left out: XML, canonical form, spelling of names, kinds of arguments, JSON.
  An approval's hash is right or wrong.
- The watchdog is not run; `WithinItsTime` compares a run with the limit it is set to.
- `learned_skills_dir` is set, and its files are JSON objects of a definition or do not parse.
  A write or a rename may fail; a crash leaves a temporary file, whole or cut short. A write
  that fails only when the stream is closed is not seen by the code: `edit.whole` is then false,
  the short file is renamed into place, and `cut`, a history variable, has its name.

## 4. What the runs check

The `Executor` runs use `MCExecutor`. Missions and requests each happen at most once or
`MaxStops` times; the sets `Requests` select the kinds, so that each run keeps one
question small enough to finish. Symmetry is not used, since the plans of the
missions differ.

| Run | Instance | Properties and what they show |
|---|---|---|
| `ExecutorStop` | a pick mission, then a place mission; one StopAll; shutdown (1.1 M states) | `StopHolds`: an ok answer of StopAll means that no leaf and no goal of that mission is left. `ArmsUnderTheTree`, `ShutdownLetsGo`, `NeverDrops`, `TypeOK` |
| `ExecutorHands` | the same missions; cancel, deadline, deactivate_arm, spawn failure, failing switches, throwing trees (0.4 M) | `ClaimIsTheThreads`: no claim is lost or outlives its thread. `IdleLetsGo`: each end lets go of empty hands. `NeverDrops`: no release finds a closed hand |
| `ExecutorLend` | a dry run and a pick mission beside a client that borrows; teleop, silence, failing switches (2.8 M) | `ExclusiveUse`: refines `RobotClaim`. `LentArmsAreTaken`. `LendNeverDrops`: what a borrower gripped while it had the arms is not dropped |
| `ExecutorEnds` | one mission, one deadman, fair (58 k) | `StopEndsMission`, `DeadmanEndsMission`, `CancelAnswered`, `DeadlineEndsMission` |
| `ExecutorReturns` | one mission, a borrower, shutdown, fair (0.13 M) | `LendRunsOut`, `ShutdownReturns` |
| `ExecutorLateStop` | two missions, one deadman | finding: `StopHitsItsMission` is violated |
| `ExecutorLateLend` | two missions, a borrower | finding: `ArmsUnderTheTree` is violated |
| `ExecutorDown` | one mission, a borrower, shutdown | finding: `ShutdownLetsGo` is violated |

The bounds: two missions are what a stop, a flag or a release left over from the
last one needs to land on the next. One step each is enough for a leaf out at a
halt, and the second mission finds the hand as the first left it (`EmptyOnAttach`
is false, so any start of the hand is covered). One hand is enough, since the
two hands are treated alike and each release covers both. One client and one
deadman are enough for the races of a thread with the worker; two of either are
covered by the proofs for what they prove.

`Rest` lets TLC check for deadlock: the executor may stutter only where every
thread is back at its wait and no mission is left to start, so any state in which
everyone waits on everyone is reported.

The other stacks:

| Run | Instance | Properties and what they show |
|---|---|---|
| `ControlStack` | seven scenes of two ingredients or one; 3 lifecycle calls, 2 calls queued, 2 arm swaps (1.9 M states) | `FramesWhole`, `ReleaseIsFinal`, `HandLetsGo`: the loops of write and release exclude each other, and a hand is left with its release frame unless that one is refused. `MotorsHeld`: no trade of controllers leaves a taken motor unpowered. `LegsCommandIsSmooth`: no jump at blends, latches, switches. `EmergencyIsUnderWay`: the request is never forgotten. `ControlTypeOK` |
| `Walking` | a line of 6 places, 9 instants, a goal of any kind with a timeout of 6 and a step clear after it, two rooms, shutdown (0.74 M) | `BaseStopsWithGoal`: a base nobody walks was told to stand. `ApproachNotBlind`: an approach on an old transform stops before its timeout. `GoalsEnd` (fair). `NewOdomFrame`: a transform is of a sample this configuration heard, and its frame is latched once. `WalkTypeOK` |
| `Skills` | two arms, two objects, offers of up to four grasps, two tries, one fault of a kind (0.61 M) | `PickLeavesDefinedState`, `PlaceLeavesDefinedState`: hand and scene agree however the skill ends. `IdleIsRestored`: no exemption, object or slow arm is left. `SkillsEnd` (fair). `SkillTypeOK` |
| `Missions` | every tree of two levels over three steps, and four documents beside teaching, forgetting and crashes, over a folder with whole, broken, refused and misnamed files (1.9 M) | `ReadsAreWritten`, `WithinItsTime`: the validator against the reference semantics `Runs`. `MovesWhatItTook`: authority against skills that change. `KeptSkillsReturn`, `ForgottenStaysGone`, `LearnedTypeOK`: the files |

Their bounds. *ControlStack*: a ramp of two ticks has a first, a middle and a last
frame; three lifecycle calls are up, down and up again, or an error, a reconfiguration
and up; two queued calls are what an emergency and a swap need to overtake each
other; positions 0 to 2 with a velocity limit of 1 make the blend and the limit
differ. In the scene of the arms and the hand alone no policy is spawned: the legs' controllers
and the hand share nothing but controller_manager's queue, which the emergency and the arms share in
another scene. The proofs hold for all of these numbers. *Walking*: a place of each kind
(too near, in reach, nudge, far) fits on the line; two goals are what one needs to
follow another. The timeout is longer than `Patience`, 5 here, so that something else than the
deadline has to end a blind walk; with a `Patience` of 4 TLC finds one. The second goal is
of the kind `Followers` names; for any number of goals of any kinds there are the proofs, but
not of `GoalsEnd`. *Skills*: two objects and two arms are what an exemption needs
to be left on the wrong one; four offers make the limit of candidates and of tries
bite. *Missions*: depth two holds every pair of nested control nodes; `MaxSkills` 1
with two names makes the limit bite. `Walking`, `Skills` and `Missions` check for no deadlock: the
instance's time, faults or calls run out, and then nothing is left to do.

### Fairness

`FairSpec` has weak fairness on each thread that has work: the worker
(`WorkerRuns`), the end of a leaf's wait for its server, `letGoOfArms()`, the
stop's and the lend's steps, the deadman and lend timers, the releaser, and
the steps of `shutdown()`. All blocking calls in the code have limits
(`server_timeout_s`, `cancel_settle_s`, `stop_wait_s`, `authority_timeout_s`),
its timers repeat, and threads are the operating system's. A server's answer to
a goal is fair too (`PromptServers`). There is no fairness on anything a client,
the operator, the world or the tree does: no goal has to end, no tree has to get
anywhere, no limit has to pass. That five executor threads are enough for the
callbacks that block is assumed.

`Walking` has weak fairness on each goal's thread and on the clock: the threads
sleep a tick and go on, and nothing else is needed, no sample, sighting or client.
`Skills` has it on the goal's thread: every wait in the code has a limit, and MoveIt is
taken to answer a request to plan or to execute, with a success or a failure.
`ControlStack` and `Missions` have none and state no liveness: what the update
thread owes in time is a matter of scheduling the code does not set.

### Findings

1. *A stop can hit the next mission.* `hpp:377-378` says that a stop is always
   for the mission that was running when it was asked for. `deadman()` decides
   without the mutex and `stopEverything()` looks again: a mission that starts in
   between is stopped for the silence of the one before.
2. *A lend can release the arms under a mission.* A lend taken back while
   `onLend()` is still acquiring leaves the claim free; the next mission starts
   and takes the arms, and then the overtaken lend lets go of them.
3. *Arms taken after shutdown.* `shutdown()` does not wait for a lend claimed
   before it, which acquires after the main thread let go.

`ExecutorStop` and `ExecutorLend` are without the requests that lead to these
races (a deadman; a lend beside two executed missions), so that the same
invariants show what holds otherwise.

Seen while modelling, kept in the models as the code has it, and not stated as a run:

- A borrower's late grip is dropped. The README of `g1_orchestration` (408-409) says of a lend
  that a hand that holds something keeps its arm held. The end of a lend cancels nothing of
  the borrower's, and the fingers are read once before the release (cpp:1201-1212): a hand
  that closes in between is let go of. `BorrowerGrips` has that step, and `ReleaseKeeps`
  leaves out exactly such a hand (`late`); without that exception TLC finds `LendNeverDrops`
  violated by a borrower alone.
- A full disk loses a kept skill. `learned_skills.cpp:878` says "Whole or not at all", but
  the stream is tested before it is flushed (873-877): a short file is renamed over the
  good one and the skill reported kept. `WriteTemp` has that outcome, and `KeptSkillsReturn`
  leaves out exactly such a skill (`cut`).
- `retreat_action.cpp:38` says a lost transform ends the wait, but `basePose()` takes
  the newest transform whatever its age, so a retreat on silent odometry goes on until
  its deadline. The approach's stall watch covers the same case there.
- After SIGINT the context is gone: a goal's last stop reaches nobody, and the base
  keeps its last velocity command (`BaseStopsWithGoal` excepts this).
- A cancel while a pick stages above the object fails the stage, which is only
  warned of, and the descent begins before the cancel is looked at
  (`g1_manipulation_server_node.cpp:581`).
- An approval's hash fixes the mission's text, not the bodies of the taught skills it names.
- `forget()` drops an error of `remove()` (`learned_skills.cpp:898`), and the skill is back after a
  restart; a folder over its limit is loaded in the order of its names.
- A release that controller_manager refuses is swallowed and `arms_held_` cleared all the same
  (cpp:1212-1214). `IdleLetsGo` reads `arms_held_`, so it holds and says nothing of such a release.
- `MotorsHeld` is about the mode of a motor, not about the value of its command.
- A lowcmd release begins from the component's own gains for a joint that is not under
  impedance, whatever the comment on "its last commanded tick" says
  (`g1_lowcmd_system.cpp:650`).
- The emergency's STRICT call names the policy: if that was deactivated before, the call
  is refused every time and the robot holds its last pose. An answer that never comes has
  the same end. A swap the executor gave up on is served late.

## 5. What is proved

### The executor

`MissionExecutor_proofs` proves, for every set of missions, modes, plans, hands,
clients, timer threads, bounds and requests that meet the three assumptions of
`ExecutorState`:

| Theorem | Statement |
|---|---|
| `TypeCorrect` | `Spec => []TypeOK` |
| `Invariant` | `Spec => []IInv` |
| `ClaimsFollowThreads` | `Spec => []ClaimIsTheThreads` |
| `UsesExclude` | `Spec => ExclusiveUse`, the refinement of `RobotClaim` |

The inductive invariant `IInv` is `TypeOK /\ LeafInPlan /\ ClaimIsTheThreads /\
OneUser`. `LeafInPlan` says that a leaf that is not idle is at a step of its plan;
`TypeOK` needs it, since judging or halting a leaf reads `Plan[m][cur[m]]`.
`ClaimIsTheThreads` makes the claim a function of the thread's place, and `OneUser`
says that an executed mission, a lend and teleop exclude each other; it needs the
claim to know that nobody else can clear it. The argument goes thread by thread:
`MissionExecutor_proofs` has one typing lemma for each thread's steps, then one for
each conjunct. For the refinement, each step either
leaves the user as it was, or is a claim from nobody, or a release to nobody.

The assumptions are about constants only: names differ, plans are sequences of
steps no longer than `MaxSteps`. TLC evaluates them in every run.

`ExecutorArms_proofs` goes on to the arms and to stopping, for the same constants:

| Theorem | Statement | Hypotheses |
|---|---|---|
| `NobodyHoldsIdleArms` | `Spec => []IdleLetsGo` | none |
| `BorrowersHaveTheArms` | `Spec => []LentArmsAreTaken` | no `deactivate_arm` |
| `StopsHold` | `Spec => []StopHolds` | `PromptServers` |
| `ShutdownLeavesNoArms` | `Spec /\ []LendsAreOver => []ShutdownLetsGo` | no lend is overtaken |
| `TreesHaveTheArms` | `Spec /\ []LendsAreOver => []ArmsUnderTheTree` | the same, no `deactivate_arm` |
| `ReleasesDropNothing` | `Spec /\ []LendsAreOver => NeverDrops` | the same, `PromptServers` |
| `LendsDropNothing` | `Spec /\ []LendsAreOver => LendNeverDrops` | the same |

The last two are about every hand but those that a borrower's own motion closes after its lend
(`late`): that motion goes on, and such a grip is dropped (§4).

`LendsAreOver` says that when an executed mission takes the arms or uses them no lend is still
being granted, or told that it was taken back, and that none is left when `shutdown()` lets go.
Lends and missions may follow each other in any number otherwise, and stops, clocks and the
clients themselves may end a lend at any other time. With no client every behaviour meets
it (`NobodyLends`). The other hypotheses choose values of `Requests` and
`PromptServers`, and each is needed. An overtaken lend violates `ShutdownLetsGo` in `ExecutorDown`
and `ArmsUnderTheTree` in `ExecutorLateLend` (the findings of §4); and in the instance of the latter TLC
violates `LendNeverDrops` too: the lend lets go of the arms under a pick, the next mission finds
the arms free and takes the hand for empty, and the pick's goal, still in flight, closes it while
the releaser of a later lend has already read the fingers. A person's `deactivate_arm`
takes the arms from whoever uses them, and the program cannot know. A server that
accepts a goal after `cancel_settle_s` moves after the stop has answered, since `settle()`
has given up by then (cpp:949): without `PromptServers` TLC violates `StopHolds` and
`NeverDrops` in the instance of `ExecutorStop`.

The invariants build on each other. `HoldersInv` says which thread is inside
`letGoOfArms()` and why the arms are held: a working mission, a lend, or a release on
its way; `IdleLetsGo` follows. `FlagInv` says what a stop has raised and where a leaf
may then stand, and over it `AnswerInv` that a stop's answer is about a mission whose
leaf is back and whose goals are over. `LentInv`: held arms are taken, and a release in
its last two steps is nobody else's arms. `TicksHeld`: a tree that ticks has the arms.
`ArmsInv` relates a goal that is out, its mission, its hand and what the executor
believes of the hand, which `ReadFingers` reads some steps before `ReleaseArms`: from then on no hand
is closed but by a borrower's late motion, and no goal is out to close one (`ReleaseIsEmpty`). What the executor believes is
no part of that: beside a mission that was turned away, the releaser of a lend and the
mission's own release may both be under way, and either may put both hands in doubt while the other
is about to release. `ReleaseAwaited` keeps every release away from a mission that has the arms.

### The control stack

For every set of scenes, range of positions, blend and ramp length, velocity limit,
queue length and number of calls:

| Module | Theorem | Statement |
|---|---|---|
| `Hardware_proofs` | `BodyInvariant`, `BodyPublishesOnAChannel` | `BodySpec => []BodyInv`, and every frame goes out on an open channel; for any motors and controllers |
| `Hardware_proofs` | `HandInvariant` | `HandSpec => []HandInv` |
| `ControlStack_proofs` | `FramesStayWhole`, `ReleasesAreFinal`, `HandsLetGo` | `Spec => []FramesWhole`, `Spec => ReleaseIsFinal`, `Spec => []HandLetsGo` |
| `ControlStack_proofs` | `ControlTypes`, `EmergencyStaysUnderWay` | `Spec => []ControlTypeOK`, `Spec => []EmergencyIsUnderWay` |
| `ControlMotors_proofs` | `MotorsStayHeld`, `LegsStaySmooth` | `Spec => MotorsHeld`; with a velocity limit, `Spec => LegsCommandIsSmooth` |

These are all seven properties of the run.

*Frames.* `BodyInv`: `in_write_` is up while a write is inside (`FlagIsTheWrite`), a
write past its test of `active_` has an active component or the release waits for it
(`WriteIsCovered`), a release under way has the shape its function gives it
(`TransitionShape`), and what is filled of the frame was filled by the loop that will
publish it (`FilledByItsLoop`). `FramesWhole` alone is not inductive: a frame half
filled by one loop must not be published by the other. `HandInv` is the same for
a hand, with a sample that is whole. Each is proved of the component under
arbitrary controllers; every step of the process is shown to be a step of the
component or to leave it alone (`StackMovesBody`, `StackMovesHand`), so the invariants carry over.

*Emergency.* `EmergencyInv`: each queued call of the safety controller is its
emergency call, its flag is up only when latched, and an answer "ok" means that it
has lost the legs or started anew. The request is followed through the queue:
appended by the timer, kept by whoever calls or gives up, served with a refusal that
lowers the flag or an "ok" that takes the legs.

*Motors.* `MotorsInv`: every queued call that takes a part's owner away brings another
(`Legal`); a motor's mode is that of the claims on it. A switch then brings a part a
new owner or leaves its claims alone (`SwitchBringsAnOwner`), and nothing else
touches claims while the component is active. *Smoothness* rests on `LegsFollow`, that
the command of the safety controller is the pose it integrates, and on
`OneOwner`, that the freeze does not hold the legs with it.

The assumptions are about constants: numbers are naturals, the policy's poses are in
range, NaN is no position, the parts are legs and arms.

### Walking

For any goals, rooms, object, budgets, limits of the planner and length of time:

| Theorem | Statement |
|---|---|
| `WalkInvariant` | `Spec => [](BaseInv /\ OdomInv)` |
| `WalkTypes` | `Spec => []WalkTypeOK` |
| `BaseStopsWithGoals` | `Spec => []BaseStopsWithGoal` |
| `OdomFramesAreNew` | `Spec => NewOdomFrame` |
| `ApproachesAreNotBlind` | `Spec => []ApproachNotBlind` |

*The base.* `BaseInv` adds to the types that `busy_` and `goals_running_` count the one
goal with a thread (`OneGoal`), and that the base was told to stand while the goal's record
is one that does not walk (`StandsStill`): before the loop, in a settle, in a step clear not planned
yet. Every turn of a thread is a `Turn`: its record is replaced by one of
the same kind, and a velocity goes out only with a record that walks. One lemma per
action shows it a `Turn`, and one that a `Turn` keeps the invariant.

*Odometry.* `OdomInv`: a stored sample is one that this configuration heard and says where the base
was at its stamp, against the start latched if there is one, which is where the base was at
the stamp of a sample it heard; and so does the last transform, once the configuration has told
one. Two transforms of a configuration are then apart what the base moved, as `NewOdomFrame` says.

*Blindness.* An approach takes the newest transform whatever its age, so what ends a
blind walk is the stall watch. `Patience` is how long that may take: the budget of the odometry,
the lag of the measurements (a grace without a sighting, or two ticks for each nudge), the watch,
and a tick. It is the least such number in the run, and less than the obvious `Grace + StallTime + 2`
would have it: TLC refuted that one with a longer timeout, by an approach that nudges.
`SightInv` says what a record knows: since its last measurement a transform came, or what is
nearest so far is no nearer than it still is (`LoopMeasures`); the watch was set in time for a walk that still goes
on (`LoopWalks`); settling and nudging measure nothing for two ticks each (`Settles`). It needs `OneGoal`, since the other goals'
threads share the velocity.

### Manipulation

For any arms, objects, offers, tries, samples of the hand, faults and their number:

| Theorem | Statement |
|---|---|
| `SkillInvariant` | `Spec => []SkillInv` |
| `SkillTypes` | `Spec => []SkillTypeOK` |
| `IdleSkillsRestore` | `Spec => []IdleIsRestored` |
| `PicksLeaveDefinedState` | `Spec => PickLeavesDefinedState` |
| `PlacesLeaveDefinedState` | `Spec => PlaceLeavesDefinedState` |

These are all the safety properties of the run. `SkillInv` has one part per promise:
`PhaseKinds` (which skill a phase belongs to), `EditsAreOwn` (what the scene still holds
of a goal's edits in each phase, which are about its own arm and object),
`PickHand` (where a pick has its object, and what its clean-up is going to report),
`PlaceHand` (whether a place has let go). `IdleIsRestored` alone is not inductive: it
says nothing while a goal runs. Each action is followed through the goal it leaves, the scene it leaves
and the hand it leaves, with a lemma for each request to the scene. That no more plans
are tried than `grasp_tries` is proved from `PlansChosen` for offers of any length.

### Learned skills

For any names, definitions, checks, folder found at the first start and `max_learned_skills`:

| Theorem | Statement |
|---|---|
| `StoreInvariant` | `StoreSpec => []StoreInv` |
| `LearnedTypes` | `StoreSpec => []LearnedTypeOK` |
| `KeptSkillsComeBack` | `StoreSpec => KeptSkillsReturn` |
| `ForgottenSkillsStayGone` | `StoreSpec => ForgottenStaysGone` |

`KeptSkillsReturn` and `ForgottenStaysGone` speak of a start only, so what they need lies in the
history before it. `StoreInv` has the types (`StoreTypes`), what a run that is up holds (`HeldInv`: kept and
drafted skills have different names, are no more than the limit, and a define on its way has
room for its own), that a process that is down holds nothing (`DownInv`), and what the
folder holds (`FilesInv`): under each name the planner was told of, the definition it was told, or one
whose keeping a crash cut short or whose file is renamed but not committed, unless its file was
written short (`cut`); and under a forgotten name only one of those. The lemmas about loading carry the rest: `LoadedFits`, that no more than
the limit are taken, since the one with the last name had fewer ahead, and `LoadedWhole`,
that a folder within the limit is taken whole.

The assumptions are about constants: names are distinct from the mark of a broken file, definitions
carry one of them, and the folder holds definitions or broken files.

### Only model-checked

- All liveness: the executor's, `GoalsEnd`, `SkillsEnd`. It rests on ENABLED.
- What the findings violate: `StopHitsItsMission`, and the properties above when a lend is overtaken.
  Of `ExecutorLend`, `LendNeverDrops` beside an overtaken lend: it holds there since
  the one executed mission finds no goal of another.
- `ReadsAreWritten`, `WithinItsTime`, `MovesWhatItTook`: trees are
  defined by recursion, and so are the validator's verdict and the reference semantics; a proof
  would be an induction over trees.

## 6. Not modelled

| Part | Why |
|---|---|
| PauseMission, `followPause()`, the pause gate, retries of a held leaf | not yet; composes with `MissionThread` and adds a clock that stops |
| Teleop's velocities, the status topic's delay, the state messages | the executor's claims do not depend on them; properties on them need the publishers |
| The pool of five executor threads | fairness gives each callback its thread |
| Mission observer, preview, robot health | reports and readings; they change no state of the executor |
| VLA server | not yet: chunks against an engine's timeout |
| Sensor relay | framing of a byte stream in one process |
| Perception | geometry over point clouds; its sightings are inputs |
| Nav2, MoveIt, robot description, the other launch files | data and third-party code |
| Vision and policy servers, scripts of `manage.sh` | stateless wrappers of models, and shell |

## 7. Plan

1. `MissionPause`: `onPause()`, `followPause()`, the pause gate, the deadline given
   back, the pause's own limit (cpp:1329, 2010-2095), composed with the thread.
2. `MissionExecutor` over `ArmAuthority`: the one-step acquire as an abstraction of the
   step-by-step one, by a refinement mapping.
3. `ServerStatus`: the fleet's status messages with delay.
4. `ChunkRunner`: the VLA server's engine timeout against a cancel.
5. `FrameReader`: a byte stream cut anywhere gives the frames of the uncut one.
