-------------------------- MODULE ManipulationSkills --------------------------
(***************************************************************************)
(* G1ManipulationServer: pick, place, set_arm_posture and move_hand.  One  *)
(* goal runs at a time, in a thread of its own, and changes the planning   *)
(* scene and the hands step by step; a cancel may come between any two of  *)
(* them and is looked at between phases only.  Plans, trajectories and     *)
(* sightings are outcomes the thread does not choose.                      *)
(***************************************************************************)
EXTENDS PlanningScene, GraspChoice

CONSTANTS
  Offers,         \* what the grasp generator may answer
  SettleAttempts, \* settle_attempts
  LiftAttempts,   \* lift_attempts
  CloseSteps,     \* steps of the search for contact, of closeHandOn
  MaxFaults       \* bound: faults in a behaviour, each of its kind

ASSUME OffersAssumption == Offers \subseteq Seq(Grasps)

ASSUME AttemptsAssumption ==
  /\ {SettleAttempts, CloseSteps, MaxFaults} \subseteq Nat
  /\ LiftAttempts \in Nat \ {0}

VARIABLES
  goal,   \* the goal that runs, and its thread; busy_ is that there is one
  scene,  \* MoveIt's planning scene
  hand,   \* what each hand was last made to do
  slow,   \* arms whose velocity scaling is lowered
  broken  \* history: what has failed that the code cannot make good

vars == <<goal, scene, hand, slow, broken>>

Kinds == {"pick", "place", "posture", "moveHand"}
Ended == {"succeeded", "aborted", "canceled"}
HandStates == {"ready", "closed"}  \* pinch_ready or wider; closed on something or nothing
Faults == {"scene", "hand", "throw"}

PickSteps == {"locate", "choose", "open", "clear", "reach", "unstick", "restick",
              "reclear", "reachAgain", "settle", "approach", "bare", "descend",
              "grasp", "close", "check", "attach", "lift", "lifted", "liftFailed",
              "look", "restoreLinks", "restoreObject", "cleanHand", "cleanScene"}
PlaceSteps == {"held", "surface", "preplace", "above", "aim", "lower", "release",
               "letGo", "retreat", "retreatMove", "restore", "landed"}
Steps == PickSteps \cup PlaceSteps
           \cup {"none", "begin", "cleanContact", "plan", "move", "solve", "ending"}

Goals ==
  [kind: Kinds, arm: Arms \cup {"none"}, object: Touchables,
   state: {"none", "executing", "canceling"} \cup Ended, pc: Steps,
   tries: Nat, plans: 0..GraspTries, some: BOOLEAN,
   end: {"none"} \cup Ended, gripped: BOOLEAN]

\* gripped is history: the hand was closed on the object, by a pick or before a place.
Idle == [kind |-> "pick", arm |-> "none", object |-> Map, state |-> "none",
         pc |-> "none", tries |-> 0, plans |-> 0, some |-> FALSE,
         end |-> "none", gripped |-> FALSE]

arm == goal.arm
object == goal.object
canceling == goal.state = "canceling"

To(pc) == goal' = [goal EXCEPT !.pc = pc]
Loop(pc) == goal' = [goal EXCEPT !.pc = pc, !.tries = 0]
Ends(state) == goal' = [goal EXCEPT !.state = state, !.pc = "ending", !.tries = 0]

\* clean_up of a pick and of a place, and what the goal ends with after it.
CleansUp(end) ==
  goal' = [goal EXCEPT !.end = end, !.tries = 0,
                       !.pc = IF goal.kind = "pick" THEN "cleanHand" ELSE "cleanContact"]
Fails == CleansUp("aborted")
Cancels == CleansUp("canceled")

\* cancelled_holding, and a pick that succeeds: the hand goes back to respecting the
\* map, the object it keeps stays exempt from its own voxels.
Keeps(end) == goal' = [goal EXCEPT !.end = end, !.tries = 0, !.pc = "restoreLinks"]

Breaks(fault) ==
  /\ fault \notin broken
  /\ Cardinality(broken) < MaxFaults
  /\ broken' = broken \cup {fault}

\* A request to the scene is waited for; unanswered, it is logged and left, whether
\* move_group served it or not.
SceneBecomes(after) ==
  \/ scene' = after /\ UNCHANGED broken
  \/ Breaks("scene") /\ scene' \in {scene, after}

Edits(touchables, allowed, links) ==
  SceneBecomes(Contact(scene, arm, touchables, allowed, links))

\* commandHand: the joints are unknown or the trajectory would not execute.
HandBecomes(state) == hand' = [hand EXCEPT ![arm] = state] /\ UNCHANGED broken
HandFails == Breaks("hand") /\ UNCHANGED hand

At(kind, pc) == goal.kind = kind /\ goal.pc = pc

-----------------------------------------------------------------------------
(***************************************************************************)
(* The servers: acquire, the cancels and runGuarded.                       *)
(***************************************************************************)
Accept(kind, a, o) ==
  /\ goal.pc = "none"
  /\ goal' = [Idle EXCEPT !.kind = kind, !.arm = a, !.object = o,
                          !.state = "executing", !.pc = "begin"]
  /\ UNCHANGED <<scene, hand, slow, broken>>

Cancel ==
  /\ goal.state = "executing"
  /\ goal' = [goal EXCEPT !.state = "canceling"]
  /\ UNCHANGED <<scene, hand, slow, broken>>

\* The catch: the goal is aborted where it threw, with nothing cleaned up.
Throws ==
  /\ goal.pc \notin {"none", "ending"}
  /\ Breaks("throw")
  /\ Ends("aborted")
  /\ UNCHANGED <<scene, hand, slow>>

\* busy_ is given back after the goal's result.
Returns ==
  /\ goal.pc = "ending"
  /\ goal' = Idle
  /\ UNCHANGED <<scene, hand, slow, broken>>

\* resolveArm, and the way into each body.  An arm that is neither left nor right, or
\* a group that is none, ends the goal.
Begin ==
  /\ goal.pc = "begin"
  /\ IF arm \notin Arms
       THEN Ends("aborted")
       ELSE To(CASE goal.kind = "pick" -> "locate"
                 [] goal.kind = "place" -> "held"
                 [] goal.kind = "posture" -> "plan"
                 [] goal.kind = "moveHand" -> "solve")
  /\ UNCHANGED <<scene, hand, slow, broken>>

-----------------------------------------------------------------------------
(***************************************************************************)
(* executePick.                                                            *)
(***************************************************************************)
\* What /objects says of an object: it is in the newest detections, and those are
\* fresh; it is remembered from earlier ones; or it is not known.
Sightings == {"newest", "remembered", "unknown"}

\* lookUpObject, or lastSighting if the newest detections miss it.  The pose may not
\* transform and the object be too wide.
Locate ==
  /\ At("pick", "locate")
  /\ \E sighting \in Sightings, usable \in BOOLEAN :
       IF sighting # "unknown" /\ usable
         THEN SceneBecomes(Published(scene, object)) /\ To("choose")
         ELSE Fails /\ UNCHANGED <<scene, broken>>
  /\ UNCHANGED <<hand, slow>>

\* Without an answer of the generator there is no plan.
Choose ==
  /\ At("pick", "choose")
  /\ \E offer \in Offers :
       LET plans == PlansChosen(offer) IN
       IF plans = 0
         THEN Fails
         ELSE goal' = [goal EXCEPT !.pc = "open", !.plans = plans]
  /\ UNCHANGED <<scene, hand, slow, broken>>

\* The first cancel check, and the hand out to pinch_ready.
Open ==
  /\ At("pick", "open")
  /\ IF canceling
       THEN Cancels /\ UNCHANGED <<hand, broken>>
       ELSE \/ HandBecomes("ready") /\ To("clear")
            \/ HandFails /\ Fails
  /\ UNCHANGED <<scene, slow>>

Clear ==
  /\ goal.pc \in {"clear", "reclear"}
  /\ SceneBecomes(Cleared(scene))
  /\ Loop(IF goal.pc = "clear" THEN "reach" ELSE "reachAgain")
  /\ UNCHANGED <<hand, slow>>

\* Slip: the hand is lifted clear as long as nothing is reached.
ReachUntil ==
  /\ goal.pc \in {"reach", "reachAgain"}
  /\ IF canceling
       THEN Cancels
       ELSE \/ goal.tries < goal.plans /\ Loop("settle")
            \/ goal.tries < goal.plans /\ goal' = [goal EXCEPT !.tries = @ + 1]
            \/ goal.tries = goal.plans /\ To("unstick")
  /\ UNCHANGED <<scene, hand, slow, broken>>

\* first_reached: the plans in their order, a cancel looked at before each.
Reach ==
  /\ goal.pc \in {"reach", "reachAgain"}
  /\ IF canceling
       THEN Cancels
       ELSE \/ goal.tries < goal.plans /\ Loop("settle")
            \/ goal.tries < goal.plans /\ goal' = [goal EXCEPT !.tries = @ + 1]
            \/ goal.tries = goal.plans /\ goal.pc = "reach" /\ To("unstick")
            \/ goal.tries = goal.plans /\ goal.pc = "reachAgain" /\ Fails
  /\ UNCHANGED <<scene, hand, slow, broken>>

\* A finger may stand in voxels it cast itself: exempt for the one move that lifts it.
Unstick ==
  /\ goal.pc = "unstick"
  /\ Edits({Map}, TRUE, TRUE)
  /\ To("restick")
  /\ UNCHANGED <<hand, slow>>

Restick ==
  /\ goal.pc = "restick"
  /\ Edits({Map}, FALSE, TRUE)
  /\ To("reclear")
  /\ UNCHANGED <<hand, slow>>

\* settleOnPose fails only if the hand's place cannot be read.
Settle ==
  /\ At("pick", "settle")
  /\ IF canceling THEN Cancels ELSE To("approach") \/ Fails
  /\ UNCHANGED <<scene, hand, slow, broken>>

\* Re-aimed and staged above the object: a staging that fails, as it does when a stop
\* cancels it, is descended from all the same.
Approach ==
  /\ At("pick", "approach")
  /\ IF canceling THEN Cancels ELSE To("bare")
  /\ UNCHANGED <<scene, hand, slow, broken>>

Bare ==
  /\ At("pick", "bare")
  /\ SceneBecomes(ClearedKeeping(Removed(scene, object), arm, {Map}))
  /\ Loop("descend")
  /\ UNCHANGED <<hand, slow>>

\* descendOnto, of a pick and of a place: attempts until the hand is near enough; its
\* place unknown, or too far off after the last one, it fails.  No cancel is looked at.
Descends(next) ==
  \/ Loop(next)
  \/ goal.tries < SettleAttempts /\ goal' = [goal EXCEPT !.tries = @ + 1]
  \/ Fails

Descend ==
  /\ \/ At("pick", "descend") /\ Descends("grasp")
     \/ At("place", "lower") /\ Descends("release")
  /\ UNCHANGED <<scene, hand, slow, broken>>

Grasp ==
  /\ At("pick", "grasp")
  /\ IF canceling THEN Cancels ELSE Loop("close")
  /\ UNCHANGED <<scene, hand, slow, broken>>

\* One step of closeHandOn: closed further, then felt for contact once the fingers
\* have stopped.  Without contact by the last step it closed, and holds nothing.
Close ==
  /\ At("pick", "close")
  /\ \/ /\ HandBecomes("closed")
        /\ \E sample \in Samples, settled \in BOOLEAN :
             IF \/ ~GripChecked
                \/ goal.tries = CloseSteps
                \/ (settled /\ HoldsOpposed(sample))
               THEN Loop("check")
               ELSE goal' = [goal EXCEPT !.tries = @ + 1]
     \/ HandFails /\ Fails
  /\ UNCHANGED <<scene, slow>>

Check ==
  /\ At("pick", "check")
  /\ \E sample \in Samples : IF HoldsOpposed(sample) THEN To("attach") ELSE Fails
  /\ UNCHANGED <<scene, hand, slow, broken>>

Attach ==
  /\ At("pick", "attach")
  /\ SceneBecomes(Contact(AttachedTo(scene, arm, object), arm, {Map, object}, TRUE, TRUE))
  /\ goal' = [goal EXCEPT !.pc = "lift", !.tries = 0, !.some = FALSE, !.gripped = TRUE]
  /\ UNCHANGED <<hand, slow>>

\* A straight line up, again from wherever the last one stopped: none of it, some of
\* it, all of it.  A stop cuts the line short, so the cancel is looked at first.
Lift ==
  /\ At("pick", "lift")
  /\ IF canceling
       THEN Keeps("canceled")
       ELSE \E walked \in {"none", "some", "all"} :
              goal' = [goal EXCEPT
                        !.some = @ \/ walked # "none",
                        !.tries = @ + 1,
                        !.pc = IF walked = "some" /\ goal.tries + 1 < LiftAttempts
                                 THEN "lift" ELSE "lifted"]
  /\ UNCHANGED <<scene, hand, slow, broken>>

\* Slip: cancelled after the lift, the pick cleans up as before it.
LiftedDrops ==
  /\ At("pick", "lifted")
  /\ IF canceling
       THEN Cancels
       ELSE Loop("look") \/ (~goal.some /\ Loop("liftFailed"))
  /\ UNCHANGED <<scene, hand, slow, broken>>

\* A lift that never left is planned once.
Lifted ==
  /\ At("pick", "lifted")
  /\ IF canceling
       THEN Keeps("canceled")
       ELSE Loop("look") \/ (~goal.some /\ Loop("liftFailed"))
  /\ UNCHANGED <<scene, hand, slow, broken>>

LiftFailed ==
  /\ At("pick", "liftFailed")
  /\ IF canceling THEN Keeps("canceled") ELSE Fails
  /\ UNCHANGED <<scene, hand, slow, broken>>

\* Seen in the first frame after the lift and not risen, the hand came up without it.
Look ==
  /\ At("pick", "look")
  /\ IF canceling THEN Keeps("canceled") ELSE Keeps("succeeded") \/ Fails
  /\ UNCHANGED <<scene, hand, slow, broken>>

RestoreLinks ==
  /\ At("pick", "restoreLinks")
  /\ Edits({Map, object}, FALSE, TRUE)
  /\ To("restoreObject")
  /\ UNCHANGED <<hand, slow>>

RestoreObject ==
  /\ At("pick", "restoreObject")
  /\ Edits({Map, object}, TRUE, FALSE)
  /\ Ends(goal.end)
  /\ UNCHANGED <<hand, slow>>

\* clean_up: the hand is opened whether it will or not, the arm backed off if it had
\* gone down, the object removed and the exemptions restored.
CleanHand ==
  /\ At("pick", "cleanHand")
  /\ HandBecomes("ready") \/ HandFails
  /\ To("cleanScene")
  /\ UNCHANGED <<scene, slow>>

CleanScene ==
  /\ At("pick", "cleanScene")
  /\ SceneBecomes(Removed(scene, object))
  /\ To("cleanContact")
  /\ UNCHANGED <<hand, slow>>

CleanContact ==
  /\ goal.pc = "cleanContact"
  /\ Edits({Map, object}, FALSE, TRUE)
  /\ Ends(goal.end)
  /\ UNCHANGED <<hand, slow>>

-----------------------------------------------------------------------------
(***************************************************************************)
(* executePlace.                                                           *)
(***************************************************************************)
\* What the arm holds, from the planning scene.
Held ==
  /\ At("place", "held")
  /\ IF HeldBy(scene, arm) = {}
       THEN Ends("aborted")
       ELSE \E o \in HeldBy(scene, arm) :
              goal' = [goal EXCEPT !.object = o, !.pc = "surface",
                                   !.gripped = hand[arm] = "closed"]
  /\ UNCHANGED <<scene, hand, slow, broken>>

\* The surface is seen or was, and the target transforms; or not.
Surface ==
  /\ At("place", "surface")
  /\ To("preplace") \/ Fails
  /\ UNCHANGED <<scene, hand, slow, broken>>

\* The map is cleared and the hand and the object kept exempt from it.
KeepsClear(next) ==
  /\ SceneBecomes(ClearedKeeping(scene, arm, {Map, object}))
  /\ Loop(next)

\* The checks between the phases of a place, each followed by a map of its own.
Phase ==
  /\ goal.kind = "place" /\ goal.pc \in {"preplace", "aim", "retreat"}
  /\ IF canceling
       THEN Cancels /\ UNCHANGED <<scene, broken>>
       ELSE KeepsClear(CASE goal.pc = "preplace" -> "above"
                         [] goal.pc = "aim" -> "lower"
                         [] goal.pc = "retreat" -> "retreatMove")
  /\ UNCHANGED <<hand, slow>>

Above ==
  /\ At("place", "above")
  /\ To("aim") \/ Fails
  /\ UNCHANGED <<scene, hand, slow, broken>>

Release ==
  /\ At("place", "release")
  /\ IF canceling
       THEN Cancels /\ UNCHANGED <<hand, broken>>
       ELSE \/ HandBecomes("ready") /\ To("letGo")
            \/ HandFails /\ Fails
  /\ UNCHANGED <<scene, slow>>

LetGo ==
  /\ At("place", "letGo")
  /\ SceneBecomes(Removed(scene, object))
  /\ To("retreat")
  /\ UNCHANGED <<hand, slow>>

\* A straight line up or a planned one.
RetreatMove ==
  /\ At("place", "retreatMove")
  /\ To("restore") \/ Fails
  /\ UNCHANGED <<scene, hand, slow, broken>>

Restore ==
  /\ At("place", "restore")
  /\ Edits({Map, object}, FALSE, TRUE)
  /\ To("landed")
  /\ UNCHANGED <<hand, slow>>

\* waitForObject: not seen again, it is taken for placed; seen, it is on the target or
\* not.
Landed ==
  /\ At("place", "landed")
  /\ \E sighting \in Sightings, onTarget \in BOOLEAN :
       IF sighting = "newest" /\ ~onTarget THEN Fails ELSE Ends("succeeded")
  /\ UNCHANGED <<scene, hand, slow, broken>>

-----------------------------------------------------------------------------
(***************************************************************************)
(* executeSetArmPosture and executeMoveHand.                               *)
(***************************************************************************)
\* A name that is none of the group's, or no plan, aborts; a cancel that came while
\* planning holds the arm.
PlanPosture ==
  /\ At("posture", "plan")
  /\ IF canceling THEN Ends("canceled") ELSE To("move") \/ Ends("aborted")
  /\ UNCHANGED <<scene, hand, slow, broken>>

\* The group may be the arm's or its hand's, and the hand's named targets any.
MovePosture ==
  /\ At("posture", "move")
  /\ \/ /\ Ends("succeeded")
        /\ \E state \in HandStates : hand' = [hand EXCEPT ![arm] = state]
     \/ /\ Ends(IF canceling THEN "canceled" ELSE "aborted")
        /\ UNCHANGED hand
  /\ UNCHANGED <<scene, slow, broken>>

\* Slip: a gesture that no plan takes leaves at once.
SolveHasty ==
  /\ At("moveHand", "solve")
  /\ \/ Ends("aborted") /\ UNCHANGED slow
     \/ slow' = slow \cup {arm} /\ Ends("aborted")
     \/ slow' = slow \cup {arm} /\ To("move")
  /\ UNCHANGED <<scene, hand, broken>>

\* Refused, or solved: then the arm is slowed before the gesture is planned.
Solve ==
  /\ At("moveHand", "solve")
  /\ \/ Ends("aborted") /\ UNCHANGED slow
     \/ slow' = slow \cup {arm} /\ To("move")
  /\ UNCHANGED <<scene, hand, broken>>

\* Planned, moved unless cancelled, and the arm given its own speed again.
Gesture ==
  /\ At("moveHand", "move")
  /\ slow' = slow \ {arm}
  /\ IF canceling THEN Ends("canceled") ELSE Ends("succeeded") \/ Ends("aborted")
  /\ UNCHANGED <<scene, hand, broken>>

-----------------------------------------------------------------------------
Init ==
  /\ goal = Idle
  /\ scene = EmptyScene
  /\ hand = [a \in Arms |-> "ready"]
  /\ slow = {}
  /\ broken = {}

Pick ==
  \/ Locate \/ Choose \/ Open \/ Clear \/ Reach \/ Unstick \/ Restick \/ Settle
  \/ Approach \/ Bare \/ Grasp \/ Close \/ Check \/ Attach \/ Lift \/ Lifted
  \/ LiftFailed \/ Look \/ RestoreLinks \/ RestoreObject \/ CleanHand \/ CleanScene

Place ==
  \/ Held \/ Surface \/ Phase \/ Above \/ Release \/ LetGo \/ RetreatMove \/ Restore
  \/ Landed

GoalThread ==
  \/ Begin \/ Pick \/ Place \/ Descend \/ CleanContact
  \/ PlanPosture \/ MovePosture \/ Solve \/ Gesture \/ Returns

Clients ==
  \/ \E kind \in Kinds, a \in Arms \cup {"none"}, o \in Objects : Accept(kind, a, o)
  \/ Cancel

Next == GoalThread \/ Throws \/ Clients

\* Every wait of a goal's thread has a timeout and MoveIt answers every request to
\* plan or to execute; nobody has to cancel.
Spec == Init /\ [][Next]_vars /\ WF_vars(GoalThread)

-----------------------------------------------------------------------------
SkillTypeOK ==
  /\ goal \in Goals
  /\ scene \in Scenes
  /\ hand \in [Arms -> HandStates]
  /\ slow \subseteq Arms
  /\ broken \subseteq Faults

\* Once no goal runs, no hand is exempt from the map or from an object, no object
\* stands in the world that a skill put there, an object exempt from the map is one
\* that is held, and every arm has its own speed: on every way out of every skill,
\* unless the scene did not answer or a goal threw.
IdleIsRestored ==
  (goal.pc = "none" /\ broken \cap {"scene", "throw"} = {}) =>
    /\ scene.touch = {} /\ scene.world = {} /\ slow = {}
    /\ \A o \in scene.overlap : \E a \in Arms : <<a, o>> \in scene.attached

Kept ==
  /\ hand[arm] = "closed" /\ <<arm, object>> \in scene.attached
  /\ object \in scene.overlap

LetGone ==
  /\ hand[arm] = "ready" /\ object \notin scene.overlap
  /\ \A a \in Arms : <<a, object>> \notin scene.attached

\* A pick that succeeds holds its object, in the hand and in the scene.  One that
\* fails leaves the hand open and nothing attached, so that a retry starts from a
\* defined state.  A cancelled one does as it must: from the moment the hand closed
\* on the object it keeps it, before that it leaves nothing behind.
PickLeavesDefinedState ==
  [][(goal.kind = "pick" /\ goal.pc \notin {"begin", "ending"} /\ goal'.pc = "ending"
        /\ broken' = {}) =>
       CASE goal'.state = "succeeded" -> Kept'
         [] goal'.state = "aborted" -> LetGone'
         [] goal'.state = "canceled" -> IF goal.gripped THEN Kept' ELSE LetGone']_vars

\* A place that succeeds has let go, in the hand and in the scene; however it ends,
\* an object that the scene still has attached is one the hand was never opened on.
PlaceLeavesDefinedState ==
  [][(goal.kind = "place" /\ goal.pc \notin {"begin", "held", "ending"}
        /\ goal'.pc = "ending" /\ broken' = {}) =>
       /\ goal'.state = "succeeded" => LetGone'
       /\ \/ LetGone'
          \/ /\ <<arm, object>> \in scene'.attached
             /\ goal.gripped => hand'[arm] = "closed"]_vars

\* Every goal gives its result and leaves the arms to the next one.
SkillsEnd == goal.pc # "none" ~> goal.pc = "none"
=============================================================================
