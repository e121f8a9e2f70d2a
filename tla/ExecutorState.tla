--------------------------- MODULE ExecutorState ---------------------------
(***************************************************************************)
(* The state the threads of g1_orchestration's MissionExecutor share: who  *)
(* has claimed the robot, the flags that wind a mission down, the lend,    *)
(* the arms and what the hands hold, and the goals out at skill servers.   *)
(*                                                                         *)
(* Every variable is one member of MissionExecutor, one thread's place in  *)
(* its function, or a part of the robot the executor acts on.  A step is   *)
(* what one thread does under one mutex, or between two blocking calls.    *)
(* Clocks are abstracted to whether a limit has passed.                    *)
(***************************************************************************)
EXTENDS Naturals, Sequences, FiniteSets

CONSTANTS
    Missions,       \* the ExecuteMission goals sent, each once
    Mode,           \* Mode[m]: the mode of a goal
    Plan,           \* Plan[m]: the steps of its tree, in order
    MaxSteps,       \* the longest plan
    Hands,          \* the Dex3 hands
    Clients,        \* the clients that borrow the arms
    Deadmen,        \* timer threads that may run deadman() at once
    MaxStops,       \* the most StopAll requests
    Requests,       \* which of the other requests and events may come
    EmptyOnAttach,  \* hands_empty_on_attach
    PromptServers,  \* a server answers a goal within cancel_settle_s
    None

Modes  == {"EXECUTE", "VALIDATE", "DRY_RUN"}
Steps  == [skill : {"walk", "pick", "place"}, hand : Hands]
Events == {"cancel", "teleop", "shutdown", "silence", "unfit", "deadline",
           "deactivate", "spawnfails", "noarms", "throws"}

ASSUME MissionsAssumption ==
    /\ None \notin Missions
    /\ Mode \in [Missions -> Modes]
    /\ MaxSteps \in Nat
    /\ Plan \in [Missions -> Seq(Steps)]
    /\ \A m \in Missions : Len(Plan[m]) \in 0..MaxSteps

ASSUME ClientsAssumption ==
    /\ None \notin Clients \union {"operator"}
    /\ Clients \intersect Missions = {}
    /\ "operator" \notin Clients \union Missions

ASSUME BoundsAssumption ==
    /\ MaxStops \in Nat
    /\ "operator" \notin Deadmen
    /\ Requests \subseteq Events
    /\ EmptyOnAttach \in BOOLEAN
    /\ PromptServers \in BOOLEAN

Stoppers  == {"operator"} \union Deadmen             \* run stopEverything()
Releasers == {"mission", "lend", "releaser", "main"} \* run letGoOfArms()

VARIABLES
    running,        \* running_ and goal_id_
    stopRequested,  \* stop_requested_
    stopCause,      \* stop_cause_
    halting,        \* halting_
    halted,         \* halted_
    deadline,       \* deadline_ticks_ against the clock
    watchdog,       \* the watchdog's timer callback
    trouble,        \* what the deadman would see
    timeoutOn,      \* heartbeat_timeout_ticks_ is not 0
    walks,          \* mission_walks_
    deadmanFired,   \* deadman_fired_
    pc,             \* pc[m]: where the thread of m is
    outcome,        \* outcome[m]: the result's outcome and cause
    canceling,      \* the goals a client has asked to cancel
    seen,           \* what takeAuthority() read: held, doubtful
    cur,            \* cur[m]: the step of m the tree is at
    leaf,           \* leaf[m]: the action leaf of that step
    goal,           \* goal[m][k]: the goal of step k
    lentTo,         \* lent_to_
    releasing,      \* releasing_
    lentUntil,      \* lent_until_ against the clock
    lender,         \* onLend()'s place and client
    armsHeld,       \* arms_held_
    holding,        \* the hands whose Held has an id
    unknown,        \* the hands whose Held is unknown
    letgo,          \* letgo[t]: where thread t is in letGoOfArms()
    armsTaken,      \* the trajectory and hand controllers are active
    closed,         \* the hands whose fingers are closed on something
    moves,          \* a hand motion a borrower sent may be under way
    late,           \* history: the hands one closed after its lend ended
    stopper,        \* stopper[s]: where s is in stopEverything()
    stops,          \* StopAll requests so far
    stopped,        \* stopped_
    teleop,         \* TeleopDriver: active_ and stopping_
    main            \* where the main thread is in shutdown()

claimVars   == <<running, stopRequested, stopCause, halting>>
timerVars   == <<deadline, watchdog, trouble, timeoutOn, walks, deadmanFired>>
missionVars == <<halted, pc, outcome, canceling, seen>>
leafVars    == <<cur, leaf, goal>>
lendVars    == <<lentTo, releasing, lentUntil, lender>>
handVars    == <<holding, unknown>>
robotVars   == <<armsTaken, closed, moves, late>>
armVars     == <<armsHeld, letgo, handVars, robotVars>>
stopVars    == <<stopper, stops, stopped>>
vars == <<claimVars, timerVars, missionVars, leafVars, lendVars, armVars,
          stopVars, teleop, main>>

(* "working" stands for the phases between a claim and its end. *)
Phases == {"new", "refused", "claimed", "joining", "entered", "validating",
           "authorising", "acquiring", "ticking", "halting", "settling",
           "sweeping", "closing", "lettinggo", "clearing", "reporting",
           "done"}
Working == Phases \ {"new", "refused", "reporting", "done"}

Outcomes == {"NONE", "SUCCESS", "FAILURE", "CANCELED", "TIMEOUT", "REJECTED",
             "ERROR"}
Causes   == {"NONE", "DEADMAN", "ROBOT", "SHUTDOWN"}
Limits   == {"none", "ahead", "past"}

GoalStates == {"unsent", "sent", "active", "canceling", "succeeded", "failed"}
InFlight   == {"active", "canceling"}

LendPlaces == {"idle", "claimed", "acquiring", "recheck", "overtaken"}
StopPlaces == {"idle", "asked", "cancel", "wait", "settle", "note"}
Stops == [at : StopPlaces, aim : Missions \union {None},
          hit : Missions \union {None}, cause : Causes, ok : BOOLEAN]

ClaimTypeOK ==
    /\ running \in Missions \union {None}
    /\ stopRequested \in BOOLEAN
    /\ stopCause \in Causes
    /\ halting \in BOOLEAN
TimerTypeOK ==
    /\ deadline \in Limits
    /\ watchdog \in {"idle", "fire"}
    /\ trouble \in {"none", "silent", "unfit"}
    /\ timeoutOn \in BOOLEAN
    /\ walks \in BOOLEAN
    /\ deadmanFired \in BOOLEAN
MissionTypeOK ==
    /\ halted \in BOOLEAN
    /\ pc \in [Missions -> Phases]
    /\ outcome \in [Missions -> Outcomes \X Causes]
    /\ canceling \subseteq Missions
    /\ seen \subseteq {"held", "doubtful"}
LeafTypeOK ==
    /\ cur \in [Missions -> 0..MaxSteps]
    /\ leaf \in [Missions -> {"none", "starting", "out"}]
    /\ goal \in [Missions -> [1..MaxSteps -> GoalStates]]
LendTypeOK ==
    /\ lentTo \in Clients \union {None}
    /\ releasing \in BOOLEAN
    /\ lentUntil \in Limits
    /\ lender \in [at : LendPlaces, client : Clients \union {None}]
ArmTypeOK ==
    /\ armsHeld \in BOOLEAN
    /\ letgo \in [Releasers -> {"idle", "look", "read", "release", "clear"}]
    /\ holding \subseteq Hands
    /\ unknown \subseteq Hands
    /\ armsTaken \in BOOLEAN
    /\ closed \subseteq Hands
    /\ moves \in BOOLEAN
    /\ late \subseteq Hands
StopTypeOK ==
    /\ stopper \in [Stoppers -> Stops]
    /\ stops \in 0..MaxStops
    /\ stopped \in BOOLEAN

(* Each variable has the type its member has in nervros_executor.hpp. *)
TypeOK ==
    /\ ClaimTypeOK /\ TimerTypeOK /\ MissionTypeOK /\ LeafTypeOK
    /\ LendTypeOK /\ ArmTypeOK /\ StopTypeOK
    /\ teleop \in {"off", "on", "ramping"}
    /\ main \in {"up", "joining", "reaping", "lettinggo", "down"}
-----------------------------------------------------------------------------
(* Whether a hand holds something, or may. *)
MayHold(hold, unk) == hold \union unk # {}

(* ServerFleet::cancelAll(): every goal a server has accepted is asked to  *)
(* stop, whoever sent it; one not yet accepted is not reached.             *)
Asked(s) == IF s = "active" THEN "canceling" ELSE s
CancelAll ==
    goal' = [m \in Missions |-> [k \in 1..MaxSteps |-> Asked(goal[m][k])]]

(* ServerFleet::busy(): some server shows a goal in flight. *)
Busy == \E m \in Missions : \E k \in 1..MaxSteps : goal[m][k] \in InFlight

(* The authority the skills of m need: PickObject, PlaceInto and PlaceOn    *)
(* take the arms, and they and the walks take the base.                    *)
NeedsArms(m) == \E k \in 1..Len(Plan[m]) : Plan[m][k].skill # "walk"
NeedsBase(m) == Plan[m] # <<>>

(* acquireArm(): the arms are taken, were taken already, or the switch     *)
(* failed and they stay as they were.                                      *)
Acquired == {IF armsTaken THEN "already" ELSE "taken"}
            \union IF "noarms" \in Requests THEN {"failed"} ELSE {}

(* The controllers of the arms and hands are deactivated: the hands go limp *)
(* and no motion of theirs goes on.                                        *)
Limp == armsTaken' = FALSE /\ closed' = {} /\ moves' = FALSE /\ late' = {}

(* takeBack(): the lend ends and a thread of its own lets go of the arms. *)
TakeBack ==
    IF lentTo = None
    THEN UNCHANGED <<lentTo, releasing, lentUntil, letgo>>
    ELSE /\ lentTo' = None
         /\ releasing' = TRUE
         /\ lentUntil' = "none"
         /\ letgo' = [letgo EXCEPT !["releaser"] = "look"]

Init ==
    /\ running = None /\ stopRequested = FALSE /\ stopCause = "NONE"
    /\ halting = FALSE /\ halted = TRUE
    /\ deadline = "none" /\ watchdog = "idle" /\ trouble = "none"
    /\ timeoutOn = FALSE /\ walks = FALSE /\ deadmanFired = FALSE
    /\ pc = [m \in Missions |-> "new"]
    /\ outcome = [m \in Missions |-> <<"NONE", "NONE">>]
    /\ canceling = {} /\ seen = {}
    /\ cur = [m \in Missions |-> 0]
    /\ leaf = [m \in Missions |-> "none"]
    /\ goal = [m \in Missions |-> [k \in 1..MaxSteps |-> "unsent"]]
    /\ lentTo = None /\ releasing = FALSE /\ lentUntil = "none"
    /\ lender = [at |-> "idle", client |-> None]
    /\ armsHeld = FALSE /\ holding = {} /\ unknown = {}
    /\ letgo = [t \in Releasers |-> "idle"]
    \* The stack may have activated the arms before the executor came up, and
    \* an executor that restarts may find an object in a hand.
    /\ armsTaken \in BOOLEAN
    /\ closed \in IF armsTaken /\ ~EmptyOnAttach THEN SUBSET Hands ELSE {{}}
    /\ moves = FALSE /\ late = {}
    /\ stopper = [s \in Stoppers |-> [at |-> "idle", aim |-> None, hit |-> None,
                                      cause |-> "NONE", ok |-> FALSE]]
    /\ stops = 0 /\ stopped = FALSE
    /\ teleop = "off"
    /\ main = "up"
=============================================================================
