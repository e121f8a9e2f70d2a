---------------------- MODULE ManipulationSkills_proofs ----------------------
(***************************************************************************)
(* What holds of the skills of g1_manipulation_server for any arms,        *)
(* objects, grasps offered, attempts, samples of the grip and faults.      *)
(*                                                                         *)
(* The invariant has one part for each thing the skills must make good:    *)
(*   PhaseKinds   which skill a phase is of;                               *)
(*   EditsAreOwn  what the scene still holds of a goal's edits;            *)
(*   PickHand     where a pick has its object, and how it will end;        *)
(*   PlaceHand    whether a place has let go.                              *)
(* Every action is followed through three lemmas: the goal it leaves       *)
(* (GoalTurns), the scene it leaves (Contacts, Removes, Clears, Attaches,  *)
(* Publishes and SceneAnswers), the hand it leaves (HandMoves, HandSticks).*)
(***************************************************************************)
EXTENDS ManipulationSkills, FiniteSetTheorems, TLAPS

(***************************************************************************)
(* The invariant                                                           *)
(***************************************************************************)
(* A phase belongs to one skill, and past "begin" its goal names an arm.   *)
PhaseKinds ==
  /\ goal.pc \in PickSteps => goal.kind = "pick"
  /\ goal.pc \in PlaceSteps => goal.kind = "place"
  /\ goal.pc = "cleanContact" => goal.kind \in {"pick", "place"}
  /\ goal.pc = "plan" => goal.kind = "posture"
  /\ goal.pc = "solve" => goal.kind = "moveHand"
  /\ goal.pc = "move" => goal.kind \in {"posture", "moveHand"}
  /\ goal.pc # "none" => object \in Objects
  /\ goal.pc \notin {"none", "begin", "ending"} => arm \in Arms

(* Where a goal has edited nothing, or has restored what it edited. *)
Restored ==
  {"none", "begin", "ending", "locate", "held", "plan", "move", "solve", "landed"}

(* Between the grasp and the end of a pick that keeps its object. *)
Carrying == {"lift", "lifted", "liftFailed", "look", "restoreLinks", "restoreObject"}

Cleaning == {"cleanHand", "cleanScene", "cleanContact"}

Attached(o) == \E a \in Arms : <<a, o>> \in scene.attached

(* While the scene answers and nothing throws, a goal's edits are about its *)
(* own arm and object, and each phase knows which of them are left.        *)
EditsAreOwn ==
  broken \cap {"scene", "throw"} = {} =>
    /\ scene.touch \subseteq {arm} \X {Map, object}
    /\ scene.world \subseteq {object}
    /\ \A o \in scene.overlap : o # object => Attached(o)
    /\ goal.pc \in Restored \cup {"restoreObject"} => scene.touch = {}
    /\ goal.pc \in Restored \cup PlaceSteps \cup Carrying \cup {"cleanContact"}
       => scene.world = {}
    /\ goal.pc \in Restored => \A o \in scene.overlap : Attached(o)
    /\ goal.pc \in Carrying => <<arm, object>> \in scene.attached
    /\ IF At("moveHand", "move") THEN slow \subseteq {arm} ELSE slow = {}

(* While nothing has failed that the code cannot make good, a pick that has *)
(* its object keeps it, and one that ends without it has let go.           *)
PickHand ==
  broken = {} /\ goal.kind = "pick" =>
    /\ goal.pc \in Carrying \cup {"check", "attach"} => hand[arm] = "closed"
    /\ goal.pc \in Carrying => goal.gripped /\ <<arm, object>> \in scene.attached
    /\ goal.pc \notin Carrying \cup Cleaning \cup {"ending"} => ~goal.gripped
    /\ goal.pc \in Cleaning /\ goal.gripped => goal.end = "aborted"
    /\ goal.pc \in {"restoreLinks", "restoreObject"}
       => goal.end \in {"succeeded", "canceled"}
    /\ goal.pc \in Cleaning => goal.end \in {"aborted", "canceled"}
    /\ goal.pc \in {"cleanScene", "cleanContact"} => hand[arm] = "ready"
    /\ goal.pc = "cleanContact" => ~Attached(object)

(* A place has not let go, or it has. *)
NotLetGo ==
  /\ <<arm, object>> \in scene.attached
  /\ goal.gripped => hand[arm] = "closed"

PlaceHand ==
  broken = {} /\ goal.kind = "place" =>
    /\ goal.pc \in {"surface", "preplace", "above", "aim", "lower", "release"}
       => NotLetGo
    /\ goal.pc \in {"letGo", "retreat", "retreatMove", "restore", "landed"}
       => hand[arm] = "ready"
    /\ goal.pc \in {"retreat", "retreatMove", "restore", "landed"}
       => ~Attached(object)
    /\ goal.pc = "landed" => object \notin scene.overlap
    /\ goal.pc = "cleanContact"
       => /\ goal.end \in {"aborted", "canceled"}
          /\ NotLetGo \/ (hand[arm] = "ready" /\ ~Attached(object))

SkillInv == SkillTypeOK /\ PhaseKinds /\ EditsAreOwn /\ PickHand /\ PlaceHand

-----------------------------------------------------------------------------
(***************************************************************************)
(* The operators of the goal, the scene and the hand.                      *)
(***************************************************************************)
\* grasp_candidates keeps at most the plans it is asked for.
LEMMA PlansAreFew ==
  ASSUME NEW offer \in Offers
  PROVE  PlansChosen(offer) \in 0..GraspTries
<1>1. IsFiniteSet(DOMAIN offer)
  BY OffersAssumption, FS_Interval
<1>2. IsFiniteSet(Solved(offer))
  BY <1>1, FS_Subset DEF Solved, Considered
<1>3. Cardinality(Solved(offer)) \in Nat
  BY <1>2, FS_CardinalityType
<1> QED BY <1>3, GraspNumbersAssumption DEF PlansChosen

(* The goal that runs goes on to a phase. *)
Turns(p, state, end) ==
  /\ goal' \in Goals
  /\ goal'.kind = goal.kind /\ goal'.arm = goal.arm
  /\ goal'.object = goal.object /\ goal'.gripped = goal.gripped
  /\ goal'.pc = p /\ goal'.state = state /\ goal'.end = end

CleanUp == IF goal.kind = "pick" THEN "cleanHand" ELSE "cleanContact"

\* A goal with one field set stays a goal.
LEMMA GoalFields ==
  ASSUME NEW g \in Goals
  PROVE  /\ \A p \in Steps : [g EXCEPT !.pc = p] \in Goals
         /\ \A n \in Nat : [g EXCEPT !.tries = n] \in Goals
         /\ \A s \in {"none"} \cup Ended : [g EXCEPT !.state = s] \in Goals
         /\ \A e \in Ended : [g EXCEPT !.end = e] \in Goals
         /\ \A o \in Objects : [g EXCEPT !.object = o] \in Goals
         /\ \A b \in BOOLEAN : [g EXCEPT !.some = b] \in Goals
         /\ \A b \in BOOLEAN : [g EXCEPT !.gripped = b] \in Goals
         /\ \A n \in 0..GraspTries : [g EXCEPT !.plans = n] \in Goals
<1> USE DEF Goals
<1>1. \A p \in Steps : [g EXCEPT !.pc = p] \in Goals
  OBVIOUS
<1>2. \A n \in Nat : [g EXCEPT !.tries = n] \in Goals
  OBVIOUS
<1>3. \A s \in {"none"} \cup Ended : [g EXCEPT !.state = s] \in Goals
  OBVIOUS
<1>4. \A e \in Ended : [g EXCEPT !.end = e] \in Goals
  OBVIOUS
<1>5. \A o \in Objects : [g EXCEPT !.object = o] \in Goals
  BY DEF Touchables
<1>6. \A b \in BOOLEAN : [g EXCEPT !.some = b] \in Goals
  OBVIOUS
<1>7. \A b \in BOOLEAN : [g EXCEPT !.gripped = b] \in Goals
  OBVIOUS
<1>8. \A n \in 0..GraspTries : [g EXCEPT !.plans = n] \in Goals
  OBVIOUS
<1> QED BY <1>1, <1>2, <1>3, <1>4, <1>5, <1>6, <1>7, <1>8

\* Each of the ways on of a goal sets its phase, and no more than it must.
LEMMA GoalTurns ==
  ASSUME goal \in Goals
  PROVE  /\ \A p \in Steps : To(p) => Turns(p, goal.state, goal.end)
         /\ \A p \in Steps : Loop(p) => Turns(p, goal.state, goal.end)
         /\ \A s \in {"none"} \cup Ended : Ends(s) => Turns("ending", s, goal.end)
         /\ goal' = [goal EXCEPT !.tries = @ + 1]
            => Turns(goal.pc, goal.state, goal.end)
         /\ \A e \in Ended : CleansUp(e) => Turns(CleanUp, goal.state, e)
         /\ \A e \in Ended : Keeps(e) => Turns("restoreLinks", goal.state, e)
<1>1. ASSUME NEW p \in Steps, To(p)
      PROVE  Turns(p, goal.state, goal.end)
  <2>1. goal' \in Goals
    BY <1>1, GoalFields DEF To
  <2> QED BY <1>1, <2>1 DEF To, Turns, Goals
<1>2. ASSUME NEW p \in Steps, Loop(p)
      PROVE  Turns(p, goal.state, goal.end)
  <2>1. PICK g \in Goals : g = [goal EXCEPT !.pc = p]
    BY GoalFields
  <2>2. goal' = [g EXCEPT !.tries = 0]
    BY <1>2, <2>1 DEF Loop
  <2>3. goal' \in Goals
    BY <2>2, GoalFields
  <2> QED BY <2>1, <2>2, <2>3 DEF Turns, Goals
<1>3. ASSUME NEW s \in {"none"} \cup Ended, Ends(s)
      PROVE  Turns("ending", s, goal.end)
  <2>1. PICK g \in Goals : g = [goal EXCEPT !.state = s]
    BY GoalFields
  <2>2. PICK h \in Goals : h = [g EXCEPT !.pc = "ending"]
    BY GoalFields DEF Steps
  <2>3. goal' = [h EXCEPT !.tries = 0]
    BY <1>3, <2>1, <2>2 DEF Ends
  <2>4. goal' \in Goals
    BY <2>3, GoalFields
  <2> QED BY <2>1, <2>2, <2>3, <2>4 DEF Turns, Goals
<1>4. ASSUME goal' = [goal EXCEPT !.tries = @ + 1]
      PROVE  Turns(goal.pc, goal.state, goal.end)
  BY <1>4 DEF Turns, Goals
<1>5. ASSUME NEW e \in Ended, NEW p \in Steps,
             goal' = [goal EXCEPT !.end = e, !.tries = 0, !.pc = p]
      PROVE  Turns(p, goal.state, e)
  <2>1. PICK g \in Goals : g = [goal EXCEPT !.end = e]
    BY GoalFields
  <2>2. PICK h \in Goals : h = [g EXCEPT !.tries = 0]
    BY GoalFields
  <2>3. goal' = [h EXCEPT !.pc = p]
    BY <1>5, <2>1, <2>2
  <2>4. goal' \in Goals
    BY <2>3, GoalFields
  <2> QED BY <2>1, <2>2, <2>3, <2>4 DEF Turns, Goals
<1>6. CleanUp \in Steps /\ "restoreLinks" \in Steps
  BY DEF CleanUp, Steps, PickSteps
<1>7. \A e \in Ended : CleansUp(e) => Turns(CleanUp, goal.state, e)
  BY <1>5, <1>6, Zenon DEF CleansUp, CleanUp
<1>8. \A e \in Ended : Keeps(e) => Turns("restoreLinks", goal.state, e)
  BY <1>5, <1>6, Zenon DEF Keeps
<1> QED BY <1>1, <1>2, <1>3, <1>4, <1>7, <1>8

(* A scene, field by field. *)
Shows(s, touch, overlap, world, attached) ==
  /\ s \in Scenes
  /\ s.touch = touch /\ s.overlap = overlap
  /\ s.world = world /\ s.attached = attached

\* A scene with two fields set stays a scene.
LEMMA TouchChanges ==
  ASSUME NEW s \in Scenes, NEW t \in SUBSET (Arms \X Touchables),
         NEW o \in SUBSET Objects, NEW q,
         q = [s EXCEPT !.touch = t, !.overlap = o]
  PROVE  Shows(q, t, o, s.world, s.attached)
<1>1. PICK r : r = [s EXCEPT !.touch = t]
  OBVIOUS
<1>2. r \in Scenes
  BY <1>1 DEF Scenes
<1>3. q = [r EXCEPT !.overlap = o]
  BY <1>1
<1>4. q \in Scenes
  BY <1>2, <1>3 DEF Scenes
<1> QED BY <1>1, <1>2, <1>3, <1>4 DEF Shows, Scenes

LEMMA ScenesChange ==
  ASSUME NEW s \in Scenes
  PROVE  /\ \A t \in SUBSET (Arms \X Touchables), o \in SUBSET Objects :
              Shows([s EXCEPT !.touch = t, !.overlap = o],
                    t, o, s.world, s.attached)
         /\ \A w \in SUBSET Objects, p \in SUBSET (Arms \X Objects) :
              Shows([s EXCEPT !.world = w, !.attached = p],
                    s.touch, s.overlap, w, p)
<1>1. ASSUME NEW t \in SUBSET (Arms \X Touchables), NEW o \in SUBSET Objects
      PROVE  Shows([s EXCEPT !.touch = t, !.overlap = o],
                   t, o, s.world, s.attached)
  BY TouchChanges
<1>2. ASSUME NEW w \in SUBSET Objects, NEW p \in SUBSET (Arms \X Objects)
      PROVE  Shows([s EXCEPT !.world = w, !.attached = p],
                   s.touch, s.overlap, w, p)
  <2>1. PICK r : r = [s EXCEPT !.world = w]
    OBVIOUS
  <2>2. r \in Scenes
    BY <2>1 DEF Scenes
  <2>3. PICK q : q = [r EXCEPT !.attached = p]
    OBVIOUS
  <2>4. q \in Scenes
    BY <2>2, <2>3 DEF Scenes
  <2>5. Shows(q, s.touch, s.overlap, w, p)
    BY <2>1, <2>2, <2>3, <2>4 DEF Shows, Scenes
  <2> QED BY <2>1, <2>3, <2>5
<1> QED BY <1>1, <1>2

(* What each request makes of the scene. *)
LEMMA Contacts ==
  ASSUME NEW s \in Scenes, NEW a \in Arms, NEW o \in Objects
  PROVE  /\ Shows(Contact(s, a, {Map, o}, FALSE, TRUE),
                  s.touch \ ({a} \X {Map, o}), s.overlap \ {o},
                  s.world, s.attached)
         /\ Shows(Contact(s, a, {Map, o}, TRUE, TRUE),
                  s.touch \cup ({a} \X {Map, o}), s.overlap \cup {o},
                  s.world, s.attached)
         /\ Shows(Contact(s, a, {Map, o}, TRUE, FALSE),
                  s.touch, s.overlap \cup {o}, s.world, s.attached)
         /\ Shows(Contact(s, a, {Map}, TRUE, TRUE),
                  s.touch \cup ({a} \X {Map}), s.overlap,
                  s.world, s.attached)
         /\ Shows(Contact(s, a, {Map}, FALSE, TRUE),
                  s.touch \ ({a} \X {Map}), s.overlap, s.world, s.attached)
<1>1. {Map, o} \ {Map} = {o} /\ {Map} \ {Map} = {}
  BY MapAssumption
<1>2. /\ Contact(s, a, {Map, o}, FALSE, TRUE)
            = [s EXCEPT !.touch = @ \ ({a} \X {Map, o}), !.overlap = @ \ {o}]
      /\ Contact(s, a, {Map, o}, TRUE, TRUE)
            = [s EXCEPT !.touch = @ \cup ({a} \X {Map, o}), !.overlap = @ \cup {o}]
      /\ Contact(s, a, {Map, o}, TRUE, FALSE)
            = [s EXCEPT !.touch = @ \cup {}, !.overlap = @ \cup {o}]
      /\ Contact(s, a, {Map}, TRUE, TRUE)
            = [s EXCEPT !.touch = @ \cup ({a} \X {Map}), !.overlap = @ \cup {}]
      /\ Contact(s, a, {Map}, FALSE, TRUE)
            = [s EXCEPT !.touch = @ \ ({a} \X {Map}), !.overlap = @ \ {}]
  BY <1>1, Zenon DEF Contact
<1>3. /\ {a} \X {Map, o} \subseteq Arms \X Touchables
      /\ {a} \X {Map} \subseteq Arms \X Touchables
      /\ s.touch \subseteq Arms \X Touchables /\ s.overlap \subseteq Objects
  BY DEF Touchables, Scenes
<1>4. /\ s.touch \cup {} = s.touch
      /\ s.overlap \cup {} = s.overlap /\ s.overlap \ {} = s.overlap
  OBVIOUS
<1>5. /\ s.touch \ ({a} \X {Map, o}) \in SUBSET (Arms \X Touchables)
      /\ s.touch \cup ({a} \X {Map, o}) \in SUBSET (Arms \X Touchables)
      /\ s.touch \cup ({a} \X {Map}) \in SUBSET (Arms \X Touchables)
      /\ s.touch \ ({a} \X {Map}) \in SUBSET (Arms \X Touchables)
      /\ s.touch \in SUBSET (Arms \X Touchables)
      /\ s.overlap \ {o} \in SUBSET Objects
      /\ s.overlap \cup {o} \in SUBSET Objects
      /\ s.overlap \in SUBSET Objects
  BY <1>3
<1> QED BY <1>2, <1>4, <1>5, TouchChanges, Zenon

\* removeObject takes the object out of the world and off every arm.
LEMMA Removes ==
  ASSUME NEW s \in Scenes, NEW o \in Objects
  PROVE  /\ Shows(Removed(s, o), s.touch, s.overlap, s.world \ {o},
                  Removed(s, o).attached)
         /\ \A a \in Arms, x \in Objects :
              <<a, x>> \in Removed(s, o).attached
              <=> <<a, x>> \in s.attached /\ x # o
<1>1. Shows(Removed(s, o), s.touch, s.overlap, s.world \ {o},
            {p \in s.attached : p[2] # o})
  BY ScenesChange DEF Removed, Scenes
<1>2. \A a \in Arms, x \in Objects :
        <<a, x>> \in {p \in s.attached : p[2] # o}
        <=> <<a, x>> \in s.attached /\ x # o
  OBVIOUS
<1> QED BY <1>1, <1>2 DEF Shows

\* clearOctomap ends every exemption from the map, of hands and objects.
LEMMA Clears ==
  ASSUME NEW s \in Scenes
  PROVE  Shows(Cleared(s), {t \in s.touch : t[2] # Map}, {}, s.world, s.attached)
BY ScenesChange DEF Cleared, Scenes

\* attachObject takes the object out of the world and onto the arm.
LEMMA Attaches ==
  ASSUME NEW s \in Scenes, NEW a \in Arms, NEW o \in Objects
  PROVE  Shows(AttachedTo(s, a, o), s.touch, s.overlap, s.world \ {o},
               s.attached \cup {<<a, o>>})
<1>1. s.world \ {o} \in SUBSET Objects
  BY DEF Scenes
<1>2. s.attached \cup {<<a, o>>} \in SUBSET (Arms \X Objects)
  BY DEF Scenes
<1> QED BY <1>1, <1>2, ScenesChange DEF AttachedTo

\* publishObject puts the object into the world.
LEMMA Publishes ==
  ASSUME NEW s \in Scenes, NEW o \in Objects
  PROVE  Shows(Published(s, o), s.touch, s.overlap, s.world \cup {o}, s.attached)
BY DEF Published, Scenes, Shows

\* A request to the scene is served, or recorded as one that was not.
LEMMA SceneAnswers ==
  ASSUME SkillTypeOK, NEW after \in Scenes, SceneBecomes(after)
  PROVE  /\ scene' \in Scenes /\ broken' \subseteq Faults
         /\ \/ scene' = after /\ broken' = broken
            \/ "scene" \in broken'
BY DEF SceneBecomes, Breaks, SkillTypeOK, Faults

\* A hand that is commanded is where it was sent, and nothing else fails.
LEMMA HandMoves ==
  ASSUME SkillTypeOK, arm \in Arms, NEW state \in HandStates, HandBecomes(state)
  PROVE  hand' \in [Arms -> HandStates] /\ hand'[arm] = state /\ broken' = broken
BY DEF SkillTypeOK, HandBecomes

\* A hand that does not move is recorded as one that failed.
LEMMA HandSticks ==
  ASSUME SkillTypeOK, HandFails
  PROVE  /\ hand' = hand /\ broken' \subseteq Faults /\ "hand" \in broken'
         /\ ("scene" \in broken => "scene" \in broken')
         /\ ("throw" \in broken => "throw" \in broken')
BY DEF SkillTypeOK, HandFails, Breaks, Faults

\* The goal is one, and in a phase of a skill.
LEMMA TypedGoal == SkillInv => goal \in Goals /\ goal.pc \in Steps
BY DEF SkillInv, SkillTypeOK, Goals

\* The goal of a server without one.
LEMMA IdleGoal ==
  /\ Idle \in Goals /\ Idle.pc = "none" /\ Idle.kind = "pick"
  /\ Idle.object = Map /\ Idle.arm = "none" /\ Idle.gripped = FALSE
BY GraspNumbersAssumption
   DEF Idle, Goals, Kinds, Touchables, Steps, PickSteps, PlaceSteps

-----------------------------------------------------------------------------
(***************************************************************************)
(* executePick.                                                            *)
(***************************************************************************)
\* The object enters the world, or the pick cleans up.
LEMMA LocateKeeps ==
  ASSUME SkillInv, Locate
  PROVE  SkillInv'
<1> USE DEF arm, object, At
<1>1. goal.kind = "pick" /\ goal.pc = "locate" /\ UNCHANGED <<hand, slow>>
  BY DEF Locate
<1>2. CASE SceneBecomes(Published(scene, object)) /\ To("choose")
  <2>1. Turns("choose", goal.state, goal.end)
    BY <1>2, TypedGoal, GoalTurns DEF Steps, PickSteps
  <2>2. PICK s \in Scenes :
           /\ SceneBecomes(s)
           /\ s.touch = scene.touch /\ s.world = scene.world \cup {object}
           /\ s.overlap = scene.overlap /\ s.attached = scene.attached
    <3>1. scene \in Scenes /\ object \in Objects
      BY <1>1 DEF SkillInv, SkillTypeOK, PhaseKinds
    <3> QED BY <1>2, <3>1, Publishes DEF Shows
  <2>3. scene' \in Scenes /\ broken' \subseteq Faults
        /\ ((scene' = s /\ broken' = broken) \/ "scene" \in broken')
    BY <2>2, SceneAnswers DEF SkillInv
  <2> QED BY <1>1, <2>1, <2>2, <2>3
             DEF SkillInv, SkillTypeOK, PhaseKinds, EditsAreOwn, PickHand,
                 PlaceHand, Turns, Goals, CleanUp, PickSteps, PlaceSteps,
                 Restored, Carrying, Cleaning, Attached, NotLetGo
<1>3. CASE Fails /\ UNCHANGED <<scene, broken>>
  <2>1. Turns(CleanUp, goal.state, "aborted")
    BY <1>3, TypedGoal, GoalTurns DEF Fails, Ended
  <2> QED BY <1>1, <1>3, <2>1
             DEF SkillInv, SkillTypeOK, PhaseKinds, EditsAreOwn, PickHand,
                 PlaceHand, Turns, Goals, CleanUp, PickSteps, PlaceSteps,
                 Restored, Carrying, Cleaning, Attached, NotLetGo
<1> QED BY <1>2, <1>3 DEF Locate

\* There are plans, or the pick cleans up.
LEMMA ChooseKeeps ==
  ASSUME SkillInv, Choose
  PROVE  SkillInv'
<1> USE DEF arm, object, At
<1>1. /\ goal.kind = "pick" /\ goal.pc = "choose"
      /\ UNCHANGED <<scene, hand, slow, broken>>
      /\ \/ Fails
         \/ \E n \in 0..GraspTries :
              goal' = [goal EXCEPT !.pc = "open", !.plans = n]
  BY PlansAreFew DEF Choose
<1>2. ASSUME NEW n \in 0..GraspTries,
             goal' = [goal EXCEPT !.pc = "open", !.plans = n]
      PROVE  Turns("open", goal.state, goal.end)
  <2>1. PICK g \in Goals : g = [goal EXCEPT !.pc = "open"]
    BY TypedGoal, GoalFields DEF Steps, PickSteps
  <2>2. goal' = [g EXCEPT !.plans = n]
    BY <1>2, <2>1
  <2>3. goal' \in Goals
    BY <2>2, GoalFields
  <2> QED BY <2>1, <2>2, <2>3, TypedGoal DEF Turns, Goals
<1>3. \/ Turns("open", goal.state, goal.end)
      \/ Turns(CleanUp, goal.state, "aborted")
  BY <1>1, <1>2, TypedGoal, GoalTurns DEF Fails, Ended
<1> QED BY <1>1, <1>3, ZenonT(40)
           DEF SkillInv, SkillTypeOK, PhaseKinds, EditsAreOwn, PickHand,
               PlaceHand, Turns, Goals, CleanUp, PickSteps, PlaceSteps,
               Restored, Carrying, Cleaning, Attached, NotLetGo

\* The hand is open, or the pick cleans up.
LEMMA OpenKeeps ==
  ASSUME SkillInv, Open
  PROVE  SkillInv'
<1> USE DEF arm, object, At
<1>1. goal.kind = "pick" /\ goal.pc = "open" /\ UNCHANGED <<scene, slow>>
  BY DEF Open
<1>2. SkillTypeOK /\ arm \in Arms
  BY <1>1 DEF SkillInv, PhaseKinds
<1>3. \/ /\ Turns(CleanUp, goal.state, "canceled")
         /\ hand' = hand /\ broken' = broken
      \/ /\ Turns("clear", goal.state, goal.end)
         /\ hand' \in [Arms -> HandStates] /\ hand'[arm] = "ready"
         /\ broken' = broken
      \/ /\ Turns(CleanUp, goal.state, "aborted")
         /\ hand' = hand /\ "hand" \in broken'
  BY <1>2, TypedGoal, GoalTurns, HandMoves, HandSticks
     DEF Open, Fails, Cancels, Steps, PickSteps, PlaceSteps, Ended,
         HandStates
<1>4. broken' \subseteq Faults /\ broken \subseteq broken'
  BY <1>2 DEF Open, HandBecomes, HandFails, Breaks, SkillTypeOK, Faults
<1> QED BY <1>1, <1>2, <1>3, <1>4
           DEF SkillInv, SkillTypeOK, PhaseKinds, EditsAreOwn, PickHand,
               PlaceHand, Turns, Goals, CleanUp, PickSteps, PlaceSteps,
               Restored, Carrying, Cleaning, Attached, NotLetGo

\* The map is cleared, and with it what was exempt from it.
LEMMA ClearKeeps ==
  ASSUME SkillInv, Clear
  PROVE  SkillInv'
<1> USE DEF arm, object, At
<1>1. /\ \/ goal.pc = "clear" /\ Turns("reach", goal.state, goal.end)
         \/ goal.pc = "reclear" /\ Turns("reachAgain", goal.state, goal.end)
      /\ UNCHANGED <<hand, slow>>
  BY TypedGoal, GoalTurns DEF Clear, Steps, PickSteps
<1>2. PICK s \in Scenes :
         /\ SceneBecomes(s)
         /\ s.touch \subseteq scene.touch /\ s.world = scene.world
         /\ s.overlap = {} /\ s.attached = scene.attached
  BY Clears DEF Clear, SkillInv, SkillTypeOK, Shows
<1>3. scene' \in Scenes /\ broken' \subseteq Faults
      /\ ((scene' = s /\ broken' = broken) \/ "scene" \in broken')
  BY <1>2, SceneAnswers DEF SkillInv
<1> QED BY <1>1, <1>2, <1>3
           DEF SkillInv, SkillTypeOK, PhaseKinds, EditsAreOwn, PickHand,
               PlaceHand, Turns, Goals, CleanUp, PickSteps, PlaceSteps,
               Restored, Carrying, Cleaning, Attached, NotLetGo

\* A plan is reached, the next is tried, or the hand is lifted clear.
LEMMA ReachKeeps ==
  ASSUME SkillInv, Reach
  PROVE  SkillInv'
<1> USE DEF arm, object, At
<1>1. \/ Turns("settle", goal.state, goal.end)
      \/ Turns(goal.pc, goal.state, goal.end)
      \/ Turns("unstick", goal.state, goal.end)
      \/ Turns(CleanUp, goal.state, "aborted")
      \/ Turns(CleanUp, goal.state, "canceled")
  BY TypedGoal, GoalTurns
     DEF Reach, Fails, Cancels, Steps, PickSteps, PlaceSteps, Ended
<1>2. /\ goal.pc \in {"reach", "reachAgain"}
      /\ UNCHANGED <<scene, hand, slow, broken>>
  BY DEF Reach
<1> QED BY <1>1, <1>2, ZenonT(40)
           DEF SkillInv, SkillTypeOK, PhaseKinds, EditsAreOwn, PickHand,
               PlaceHand, Turns, Goals, CleanUp, PickSteps, PlaceSteps,
               Restored, Carrying, Cleaning, Attached, NotLetGo

\* The hand is exempt from the map for the move that lifts it.
LEMMA UnstickKeeps ==
  ASSUME SkillInv, Unstick
  PROVE  SkillInv'
<1> USE DEF arm, object, At
<1>1. goal.pc = "unstick" /\ Turns("restick", goal.state, goal.end)
  BY TypedGoal, GoalTurns DEF Unstick, Steps, PickSteps, PlaceSteps, Goals
<1>2. PICK s \in Scenes :
         /\ SceneBecomes(s)
         /\ s.touch = scene.touch \cup ({arm} \X {Map})
         /\ s.world = scene.world
         /\ s.overlap = scene.overlap
         /\ s.attached = scene.attached
  <2>1. scene \in Scenes /\ arm \in Arms /\ object \in Objects
    BY <1>1 DEF SkillInv, SkillTypeOK, PhaseKinds, PickSteps, PlaceSteps
  <2>2. SceneBecomes(Contact(scene, arm, {Map}, TRUE, TRUE))
    BY DEF Unstick, Edits
  <2>3. Shows(Contact(scene, arm, {Map}, TRUE, TRUE),
              scene.touch \cup ({arm} \X {Map}), scene.overlap, scene.world,
              scene.attached)
    BY <2>1, Contacts
  <2> QED BY <2>2, <2>3 DEF Shows
<1>3. scene' \in Scenes /\ broken' \subseteq Faults
      /\ ((scene' = s /\ broken' = broken) \/ "scene" \in broken')
  BY <1>2, SceneAnswers DEF SkillInv
<1>4. UNCHANGED <<hand, slow>>
  BY DEF Unstick
<1> QED BY <1>1, <1>2, <1>3, <1>4, SMTT(40)
           DEF SkillInv, SkillTypeOK, PhaseKinds, EditsAreOwn, PickHand,
               PlaceHand, Turns, Goals, CleanUp, PickSteps, PlaceSteps,
               Restored, Carrying, Cleaning, Attached, NotLetGo

\* That exemption ends.
LEMMA RestickKeeps ==
  ASSUME SkillInv, Restick
  PROVE  SkillInv'
<1> USE DEF arm, object, At
<1>1. goal.pc = "restick" /\ Turns("reclear", goal.state, goal.end)
  BY TypedGoal, GoalTurns DEF Restick, Steps, PickSteps, PlaceSteps, Goals
<1>2. PICK s \in Scenes :
         /\ SceneBecomes(s)
         /\ s.touch = scene.touch \ ({arm} \X {Map})
         /\ s.world = scene.world
         /\ s.overlap = scene.overlap
         /\ s.attached = scene.attached
  <2>1. scene \in Scenes /\ arm \in Arms /\ object \in Objects
    BY <1>1 DEF SkillInv, SkillTypeOK, PhaseKinds, PickSteps, PlaceSteps
  <2>2. SceneBecomes(Contact(scene, arm, {Map}, FALSE, TRUE))
    BY DEF Restick, Edits
  <2>3. Shows(Contact(scene, arm, {Map}, FALSE, TRUE),
              scene.touch \ ({arm} \X {Map}), scene.overlap, scene.world,
              scene.attached)
    BY <2>1, Contacts
  <2> QED BY <2>2, <2>3 DEF Shows
<1>3. scene' \in Scenes /\ broken' \subseteq Faults
      /\ ((scene' = s /\ broken' = broken) \/ "scene" \in broken')
  BY <1>2, SceneAnswers DEF SkillInv
<1>4. UNCHANGED <<hand, slow>>
  BY DEF Restick
<1> QED BY <1>1, <1>2, <1>3, <1>4
           DEF SkillInv, SkillTypeOK, PhaseKinds, EditsAreOwn, PickHand,
               PlaceHand, Turns, Goals, CleanUp, PickSteps, PlaceSteps,
               Restored, Carrying, Cleaning, Attached, NotLetGo

\* On the pose, or the pick cleans up.
LEMMA SettleKeeps ==
  ASSUME SkillInv, Settle
  PROVE  SkillInv'
<1> USE DEF arm, object, At
<1>1. \/ Turns("approach", goal.state, goal.end)
      \/ Turns(CleanUp, goal.state, "aborted")
      \/ Turns(CleanUp, goal.state, "canceled")
  BY TypedGoal, GoalTurns
     DEF Settle, Fails, Cancels, Steps, PickSteps, PlaceSteps, Ended
<1>2. /\ goal.kind = "pick" /\ goal.pc = "settle"
      /\ UNCHANGED <<scene, hand, slow, broken>>
  BY DEF Settle
<1> QED BY <1>1, <1>2
           DEF SkillInv, SkillTypeOK, PhaseKinds, EditsAreOwn, PickHand,
               PlaceHand, Turns, Goals, CleanUp, PickSteps, PlaceSteps,
               Restored, Carrying, Cleaning, Attached, NotLetGo

\* Above the object, or the pick was cancelled.
LEMMA ApproachKeeps ==
  ASSUME SkillInv, Approach
  PROVE  SkillInv'
<1> USE DEF arm, object, At
<1>1. \/ Turns("bare", goal.state, goal.end)
      \/ Turns(CleanUp, goal.state, "canceled")
  BY TypedGoal, GoalTurns
     DEF Approach, Fails, Cancels, Steps, PickSteps, PlaceSteps, Ended
<1>2. /\ goal.kind = "pick" /\ goal.pc = "approach"
      /\ UNCHANGED <<scene, hand, slow, broken>>
  BY DEF Approach
<1> QED BY <1>1, <1>2
           DEF SkillInv, SkillTypeOK, PhaseKinds, EditsAreOwn, PickHand,
               PlaceHand, Turns, Goals, CleanUp, PickSteps, PlaceSteps,
               Restored, Carrying, Cleaning, Attached, NotLetGo

\* The object leaves the world and the hand is exempt from the map.
LEMMA BareKeeps ==
  ASSUME SkillInv, Bare
  PROVE  SkillInv'
<1> USE DEF arm, object, At
<1>1. /\ goal.kind = "pick" /\ goal.pc = "bare"
      /\ Turns("descend", goal.state, goal.end)
  BY TypedGoal, GoalTurns DEF Bare, Steps, PickSteps, PlaceSteps, Goals
<1>2. PICK s \in Scenes :
         /\ SceneBecomes(s)
         /\ s.touch \subseteq scene.touch \cup ({arm} \X {Map, object})
         /\ s.world = scene.world \ {object}
         /\ s.overlap = {}
         /\ \A a \in Arms, x \in Objects :
              <<a, x>> \in s.attached
              <=> <<a, x>> \in scene.attached /\ x # object
  <2>1. scene \in Scenes /\ arm \in Arms /\ object \in Objects
    BY <1>1 DEF SkillInv, SkillTypeOK, PhaseKinds, PickSteps, PlaceSteps
  <2>2. SceneBecomes(ClearedKeeping(Removed(scene, object), arm, {Map}))
    BY DEF Bare
  <2>3. PICK r \in Scenes :
           /\ r = Removed(scene, object) /\ r.touch = scene.touch
           /\ r.world = scene.world \ {object}
           /\ \A a \in Arms, x \in Objects :
                <<a, x>> \in r.attached
                <=> <<a, x>> \in scene.attached /\ x # object
    BY <2>1, Removes DEF Shows
  <2>4. PICK q \in Scenes :
           /\ q = Cleared(r) /\ q.touch \subseteq scene.touch /\ q.overlap = {}
           /\ q.world = r.world /\ q.attached = r.attached
    BY <2>3, Clears DEF Shows
  <2>5. SceneBecomes(Contact(q, arm, {Map}, TRUE, TRUE))
    BY <2>2, <2>3, <2>4 DEF ClearedKeeping
  <2>6. Shows(Contact(q, arm, {Map}, TRUE, TRUE),
              q.touch \cup ({arm} \X {Map}), q.overlap, q.world, q.attached)
    BY <2>1, Contacts
  <2>7. PICK c \in Scenes :
           /\ c = Contact(q, arm, {Map}, TRUE, TRUE)
           /\ c.touch = q.touch \cup ({arm} \X {Map}) /\ c.overlap = q.overlap
           /\ c.world = q.world /\ c.attached = q.attached
    BY <2>6 DEF Shows
  <2>8. /\ SceneBecomes(c) /\ c.world = scene.world \ {object}
        /\ c.overlap = {} /\ c.attached = r.attached
    BY <2>3, <2>4, <2>5, <2>7
  <2>9. c.touch \subseteq scene.touch \cup ({arm} \X {Map, object})
    BY <2>4, <2>7
  <2> QED BY <2>3, <2>8, <2>9
<1>3. scene' \in Scenes /\ broken' \subseteq Faults
      /\ ((scene' = s /\ broken' = broken) \/ "scene" \in broken')
  BY <1>2, SceneAnswers DEF SkillInv
<1>4. UNCHANGED <<hand, slow>>
  BY DEF Bare
<1> QED BY <1>1, <1>2, <1>3, <1>4
           DEF SkillInv, SkillTypeOK, PhaseKinds, EditsAreOwn, PickHand,
               PlaceHand, Turns, Goals, CleanUp, PickSteps, PlaceSteps,
               Restored, Carrying, Cleaning, Attached, NotLetGo

\* The hand is about to close, or the pick was cancelled.
LEMMA GraspKeeps ==
  ASSUME SkillInv, Grasp
  PROVE  SkillInv'
<1> USE DEF arm, object, At
<1>1. \/ Turns("close", goal.state, goal.end)
      \/ Turns(CleanUp, goal.state, "canceled")
  BY TypedGoal, GoalTurns
     DEF Grasp, Fails, Cancels, Steps, PickSteps, PlaceSteps, Ended
<1>2. /\ goal.kind = "pick" /\ goal.pc = "grasp"
      /\ UNCHANGED <<scene, hand, slow, broken>>
  BY DEF Grasp
<1> QED BY <1>1, <1>2
           DEF SkillInv, SkillTypeOK, PhaseKinds, EditsAreOwn, PickHand,
               PlaceHand, Turns, Goals, CleanUp, PickSteps, PlaceSteps,
               Restored, Carrying, Cleaning, Attached, NotLetGo

\* The hand closes, step by step, or the pick cleans up.
LEMMA CloseKeeps ==
  ASSUME SkillInv, Close
  PROVE  SkillInv'
<1> USE DEF arm, object, At
<1>1. goal.kind = "pick" /\ goal.pc = "close" /\ UNCHANGED <<scene, slow>>
  BY DEF Close
<1>2. SkillTypeOK /\ arm \in Arms
  BY <1>1 DEF SkillInv, PhaseKinds
<1>3. \/ /\ \E p \in {"check", "close"} : Turns(p, goal.state, goal.end)
         /\ hand' \in [Arms -> HandStates] /\ hand'[arm] = "closed"
         /\ broken' = broken
      \/ /\ Turns(CleanUp, goal.state, "aborted")
         /\ hand' = hand /\ "hand" \in broken'
  BY <1>2, TypedGoal, GoalTurns, HandMoves, HandSticks
     DEF Close, Fails, Cancels, Steps, PickSteps, PlaceSteps, Ended,
         HandStates
<1>4. broken' \subseteq Faults /\ broken \subseteq broken'
  BY <1>2 DEF Close, HandBecomes, HandFails, Breaks, SkillTypeOK, Faults
<1> QED BY <1>1, <1>2, <1>3, <1>4
           DEF SkillInv, SkillTypeOK, PhaseKinds, EditsAreOwn, PickHand,
               PlaceHand, Turns, Goals, CleanUp, PickSteps, PlaceSteps,
               Restored, Carrying, Cleaning, Attached, NotLetGo

\* The grip holds, or the pick cleans up.
LEMMA CheckKeeps ==
  ASSUME SkillInv, Check
  PROVE  SkillInv'
<1> USE DEF arm, object, At
<1>1. \/ Turns("attach", goal.state, goal.end)
      \/ Turns(CleanUp, goal.state, "aborted")
  BY TypedGoal, GoalTurns
     DEF Check, Fails, Cancels, Steps, PickSteps, PlaceSteps, Ended
<1>2. /\ goal.kind = "pick" /\ goal.pc = "check"
      /\ UNCHANGED <<scene, hand, slow, broken>>
  BY DEF Check
<1> QED BY <1>1, <1>2
           DEF SkillInv, SkillTypeOK, PhaseKinds, EditsAreOwn, PickHand,
               PlaceHand, Turns, Goals, CleanUp, PickSteps, PlaceSteps,
               Restored, Carrying, Cleaning, Attached, NotLetGo

\* From here the hand and the scene both have the object.
LEMMA AttachKeeps ==
  ASSUME SkillInv, Attach
  PROVE  SkillInv'
<1> USE DEF arm, object, At
<1>1. /\ goal.kind = "pick" /\ goal.pc = "attach" /\ UNCHANGED <<hand, slow>>
      /\ goal' = [goal EXCEPT !.pc = "lift", !.tries = 0, !.some = FALSE,
                              !.gripped = TRUE]
  BY DEF Attach
<1>2. /\ goal' \in Goals /\ goal'.kind = goal.kind /\ goal'.arm = goal.arm
      /\ goal'.object = goal.object /\ goal'.gripped = TRUE
      /\ goal'.pc = "lift" /\ goal'.state = goal.state /\ goal'.end = goal.end
  <2>1. PICK g \in Goals : g = [goal EXCEPT !.pc = "lift"]
    BY TypedGoal, GoalFields DEF Steps, PickSteps
  <2>2. PICK h \in Goals : h = [g EXCEPT !.tries = 0]
    BY GoalFields
  <2>3. PICK i \in Goals : i = [h EXCEPT !.some = FALSE]
    BY GoalFields
  <2>4. goal' = [i EXCEPT !.gripped = TRUE]
    BY <1>1, <2>1, <2>2, <2>3
  <2>5. goal' \in Goals
    BY <2>4, GoalFields
  <2> QED BY <2>1, <2>2, <2>3, <2>4, <2>5, TypedGoal DEF Goals
<1>3. PICK s \in Scenes :
         /\ SceneBecomes(s)
         /\ s.touch = scene.touch \cup ({arm} \X {Map, object})
         /\ s.overlap = scene.overlap \cup {object}
         /\ s.world = scene.world \ {object}
         /\ s.attached = scene.attached \cup {<<arm, object>>}
  <2>1. scene \in Scenes /\ arm \in Arms /\ object \in Objects
    BY <1>1 DEF SkillInv, SkillTypeOK, PhaseKinds
  <2>2. PICK q \in Scenes :
           /\ q = AttachedTo(scene, arm, object)
           /\ q.touch = scene.touch /\ q.overlap = scene.overlap
           /\ q.world = scene.world \ {object}
           /\ q.attached = scene.attached \cup {<<arm, object>>}
    BY <2>1, Attaches DEF Shows
  <2>3. Shows(Contact(q, arm, {Map, object}, TRUE, TRUE),
              q.touch \cup ({arm} \X {Map, object}), q.overlap \cup {object},
              q.world, q.attached)
    BY <2>1, Contacts
  <2> QED BY <2>2, <2>3 DEF Attach, Shows
<1>4. scene' \in Scenes /\ broken' \subseteq Faults
      /\ ((scene' = s /\ broken' = broken) \/ "scene" \in broken')
  BY <1>3, SceneAnswers DEF SkillInv
<1>5. SkillTypeOK'
  BY <1>1, <1>2, <1>3, <1>4 DEF SkillInv, SkillTypeOK, Turns
<1>6. PhaseKinds'
  BY <1>1, <1>2, <1>3, <1>4
     DEF SkillInv, PhaseKinds, Turns, PickSteps, PlaceSteps
<1>7. EditsAreOwn'
  BY <1>1, <1>2, <1>3, <1>4, ZenonT(40)
     DEF SkillInv, EditsAreOwn, SkillTypeOK, Scenes, Attached, Turns,
         PhaseKinds, PickSteps, PlaceSteps, Restored, Carrying
<1>8. PickHand'
  BY <1>1, <1>2, <1>3, <1>4
     DEF SkillInv, PickHand, Turns, Attached, PhaseKinds, PickSteps,
         PlaceSteps, Carrying, Cleaning
<1>9. PlaceHand'
  BY <1>1, <1>2, <1>3, <1>4
     DEF SkillInv, PlaceHand, Turns, Attached, NotLetGo, PhaseKinds,
         PickSteps, PlaceSteps
<1> QED BY <1>5, <1>6, <1>7, <1>8, <1>9 DEF SkillInv

\* The object goes up with the hand.
LEMMA LiftKeeps ==
  ASSUME SkillInv, Lift
  PROVE  SkillInv'
<1> USE DEF arm, object, At
<1>1. /\ goal.kind = "pick" /\ goal.pc = "lift"
      /\ UNCHANGED <<scene, hand, slow, broken>>
  BY DEF Lift
<1>2. ASSUME NEW b \in BOOLEAN, NEW p \in {"lift", "lifted"},
             goal' = [goal EXCEPT !.some = b, !.tries = @ + 1, !.pc = p]
      PROVE  Turns(p, goal.state, goal.end)
  <2>1. PICK g \in Goals : g = [goal EXCEPT !.some = b]
    BY TypedGoal, GoalFields
  <2>2. g.tries + 1 \in Nat /\ g.tries = goal.tries
    BY <2>1, TypedGoal DEF Goals
  <2>3. PICK h \in Goals : h = [g EXCEPT !.tries = g.tries + 1]
    BY <2>2, GoalFields
  <2>4. goal' = [h EXCEPT !.pc = p]
    BY <1>2, <2>1, <2>2, <2>3
  <2>5. goal' \in Goals
    BY <2>4, GoalFields DEF Steps, PickSteps
  <2> QED BY <2>1, <2>3, <2>4, <2>5, TypedGoal DEF Turns, Goals
<1>3. \/ Turns("restoreLinks", goal.state, "canceled")
      \/ Turns("lift", goal.state, goal.end)
      \/ Turns("lifted", goal.state, goal.end)
  <2>1. CASE Keeps("canceled")
    BY <2>1, TypedGoal, GoalTurns DEF Ended
  <2>2. CASE \E walked \in {"none", "some", "all"} :
            goal' = [goal EXCEPT
                      !.some = @ \/ walked # "none",
                      !.tries = @ + 1,
                      !.pc = IF walked = "some" /\ goal.tries + 1 < LiftAttempts
                               THEN "lift" ELSE "lifted"]
    <3>1. PICK walked \in {"none", "some", "all"} :
            goal' = [goal EXCEPT
                      !.some = goal.some \/ walked # "none",
                      !.tries = @ + 1,
                      !.pc = IF walked = "some" /\ goal.tries + 1 < LiftAttempts
                               THEN "lift" ELSE "lifted"]
      BY <2>2
    <3> DEFINE b == goal.some \/ walked # "none"
               p == IF walked = "some" /\ goal.tries + 1 < LiftAttempts
                    THEN "lift" ELSE "lifted"
    <3>2. b \in BOOLEAN /\ p \in {"lift", "lifted"}
      OBVIOUS
    <3>3. goal' = [goal EXCEPT !.some = b, !.tries = @ + 1, !.pc = p]
      BY <3>1
    <3> HIDE DEF b, p
    <3> QED BY <1>2, <3>2, <3>3
  <2> QED BY <2>1, <2>2 DEF Lift
<1> QED BY <1>1, <1>3
           DEF SkillInv, SkillTypeOK, PhaseKinds, EditsAreOwn, PickHand,
               PlaceHand, Turns, Goals, CleanUp, PickSteps, PlaceSteps,
               Restored, Carrying, Cleaning, Attached, NotLetGo

\* Cancelled here, the pick keeps what it holds.
LEMMA LiftedKeeps ==
  ASSUME SkillInv, Lifted
  PROVE  SkillInv'
<1> USE DEF arm, object, At
<1>1. \/ Turns("restoreLinks", goal.state, "canceled")
      \/ Turns("look", goal.state, goal.end)
      \/ Turns("liftFailed", goal.state, goal.end)
  BY TypedGoal, GoalTurns
     DEF Lifted, Fails, Cancels, Steps, PickSteps, PlaceSteps, Ended
<1>2. /\ goal.kind = "pick" /\ goal.pc = "lifted"
      /\ UNCHANGED <<scene, hand, slow, broken>>
  BY DEF Lifted
<1> QED BY <1>1, <1>2
           DEF SkillInv, SkillTypeOK, PhaseKinds, EditsAreOwn, PickHand,
               PlaceHand, Turns, Goals, CleanUp, PickSteps, PlaceSteps,
               Restored, Carrying, Cleaning, Attached, NotLetGo

\* A lift that never left is failed, or cancelled and kept.
LEMMA LiftFailedKeeps ==
  ASSUME SkillInv, LiftFailed
  PROVE  SkillInv'
<1> USE DEF arm, object, At
<1>1. \/ Turns("restoreLinks", goal.state, "canceled")
      \/ Turns(CleanUp, goal.state, "aborted")
  BY TypedGoal, GoalTurns
     DEF LiftFailed, Fails, Cancels, Steps, PickSteps, PlaceSteps, Ended
<1>2. /\ goal.kind = "pick" /\ goal.pc = "liftFailed"
      /\ UNCHANGED <<scene, hand, slow, broken>>
  BY DEF LiftFailed
<1> QED BY <1>1, <1>2
           DEF SkillInv, SkillTypeOK, PhaseKinds, EditsAreOwn, PickHand,
               PlaceHand, Turns, Goals, CleanUp, PickSteps, PlaceSteps,
               Restored, Carrying, Cleaning, Attached, NotLetGo

\* The object was seen to rise or was not.
LEMMA LookKeeps ==
  ASSUME SkillInv, Look
  PROVE  SkillInv'
<1> USE DEF arm, object, At
<1>1. \/ Turns("restoreLinks", goal.state, "canceled")
      \/ Turns("restoreLinks", goal.state, "succeeded")
      \/ Turns(CleanUp, goal.state, "aborted")
  BY TypedGoal, GoalTurns
     DEF Look, Fails, Cancels, Steps, PickSteps, PlaceSteps, Ended
<1>2. /\ goal.kind = "pick" /\ goal.pc = "look"
      /\ UNCHANGED <<scene, hand, slow, broken>>
  BY DEF Look
<1> QED BY <1>1, <1>2
           DEF SkillInv, SkillTypeOK, PhaseKinds, EditsAreOwn, PickHand,
               PlaceHand, Turns, Goals, CleanUp, PickSteps, PlaceSteps,
               Restored, Carrying, Cleaning, Attached, NotLetGo

\* The hand that keeps its object respects the map and the object again.
LEMMA RestoreLinksKeeps ==
  ASSUME SkillInv, RestoreLinks
  PROVE  SkillInv'
<1> USE DEF arm, object, At
<1>1. /\ goal.kind = "pick" /\ goal.pc = "restoreLinks"
      /\ Turns("restoreObject", goal.state, goal.end)
  BY TypedGoal, GoalTurns
     DEF RestoreLinks, Steps, PickSteps, PlaceSteps, Goals
<1>2. PICK s \in Scenes :
         /\ SceneBecomes(s)
         /\ s.touch = scene.touch \ ({arm} \X {Map, object})
         /\ s.world = scene.world
         /\ s.overlap = scene.overlap \ {object}
         /\ s.attached = scene.attached
  <2>1. scene \in Scenes /\ arm \in Arms /\ object \in Objects
    BY <1>1 DEF SkillInv, SkillTypeOK, PhaseKinds, PickSteps, PlaceSteps
  <2>2. SceneBecomes(Contact(scene, arm, {Map, object}, FALSE, TRUE))
    BY DEF RestoreLinks, Edits
  <2>3. Shows(Contact(scene, arm, {Map, object}, FALSE, TRUE),
              scene.touch \ ({arm} \X {Map, object}), scene.overlap \ {object}, scene.world,
              scene.attached)
    BY <2>1, Contacts
  <2> QED BY <2>2, <2>3 DEF Shows
<1>3. scene' \in Scenes /\ broken' \subseteq Faults
      /\ ((scene' = s /\ broken' = broken) \/ "scene" \in broken')
  BY <1>2, SceneAnswers DEF SkillInv
<1>4. UNCHANGED <<hand, slow>>
  BY DEF RestoreLinks
<1> QED BY <1>1, <1>2, <1>3, <1>4
           DEF SkillInv, SkillTypeOK, PhaseKinds, EditsAreOwn, PickHand,
               PlaceHand, Turns, Goals, CleanUp, PickSteps, PlaceSteps,
               Restored, Carrying, Cleaning, Attached, NotLetGo

\* The object that is kept is exempt from its own voxels.
LEMMA RestoreObjectKeeps ==
  ASSUME SkillInv, RestoreObject
  PROVE  SkillInv'
<1> USE DEF arm, object, At
<1>1. /\ goal.kind = "pick" /\ goal.pc = "restoreObject"
      /\ Turns("ending", goal.end, goal.end)
  BY TypedGoal, GoalTurns DEF RestoreObject, Goals
<1>2. PICK s \in Scenes :
         /\ SceneBecomes(s)
         /\ s.touch = scene.touch
         /\ s.world = scene.world
         /\ s.overlap = scene.overlap \cup {object}
         /\ s.attached = scene.attached
  <2>1. scene \in Scenes /\ arm \in Arms /\ object \in Objects
    BY <1>1 DEF SkillInv, SkillTypeOK, PhaseKinds, PickSteps, PlaceSteps
  <2>2. SceneBecomes(Contact(scene, arm, {Map, object}, TRUE, FALSE))
    BY DEF RestoreObject, Edits
  <2>3. Shows(Contact(scene, arm, {Map, object}, TRUE, FALSE),
              scene.touch, scene.overlap \cup {object},
              scene.world, scene.attached)
    BY <2>1, Contacts
  <2> QED BY <2>2, <2>3 DEF Shows
<1>3. scene' \in Scenes /\ broken' \subseteq Faults
      /\ ((scene' = s /\ broken' = broken) \/ "scene" \in broken')
  BY <1>2, SceneAnswers DEF SkillInv
<1>4. UNCHANGED <<hand, slow>>
  BY DEF RestoreObject
<1>5. SkillTypeOK'
  BY <1>1, <1>2, <1>3, <1>4 DEF SkillInv, SkillTypeOK, Turns
<1>6. PhaseKinds'
  BY <1>1, <1>2, <1>3, <1>4
     DEF SkillInv, PhaseKinds, Turns, PickSteps, PlaceSteps
<1>7. EditsAreOwn'
  BY <1>1, <1>2, <1>3, <1>4
     DEF SkillInv, EditsAreOwn, SkillTypeOK, Scenes, Attached, Turns,
         PhaseKinds, PickSteps, PlaceSteps, Restored, Carrying
<1>8. PickHand'
  BY <1>1, <1>2, <1>3, <1>4
     DEF SkillInv, PickHand, Turns, Attached, PhaseKinds, PickSteps,
         PlaceSteps, Carrying, Cleaning
<1>9. PlaceHand'
  BY <1>1, <1>2, <1>3, <1>4
     DEF SkillInv, PlaceHand, Turns, Attached, NotLetGo, PhaseKinds,
         PickSteps, PlaceSteps
<1> QED BY <1>5, <1>6, <1>7, <1>8, <1>9 DEF SkillInv

\* The hand opens, or it is recorded that it would not.
LEMMA CleanHandKeeps ==
  ASSUME SkillInv, CleanHand
  PROVE  SkillInv'
<1> USE DEF arm, object, At
<1>1. goal.kind = "pick" /\ goal.pc = "cleanHand" /\ UNCHANGED <<scene, slow>>
  BY DEF CleanHand
<1>2. SkillTypeOK /\ arm \in Arms
  BY <1>1 DEF SkillInv, PhaseKinds
<1>3. \/ /\ Turns("cleanScene", goal.state, goal.end)
         /\ hand' \in [Arms -> HandStates] /\ hand'[arm] = "ready"
         /\ broken' = broken
      \/ /\ Turns("cleanScene", goal.state, goal.end)
         /\ hand' = hand /\ "hand" \in broken'
  BY <1>2, TypedGoal, GoalTurns, HandMoves, HandSticks
     DEF CleanHand, Fails, Cancels, Steps, PickSteps, PlaceSteps, Ended,
         HandStates
<1>4. broken' \subseteq Faults /\ broken \subseteq broken'
  BY <1>2 DEF CleanHand, HandBecomes, HandFails, Breaks, SkillTypeOK, Faults
<1> QED BY <1>1, <1>2, <1>3, <1>4
           DEF SkillInv, SkillTypeOK, PhaseKinds, EditsAreOwn, PickHand,
               PlaceHand, Turns, Goals, CleanUp, PickSteps, PlaceSteps,
               Restored, Carrying, Cleaning, Attached, NotLetGo

\* The object is off the arm and out of the world.
LEMMA CleanSceneKeeps ==
  ASSUME SkillInv, CleanScene
  PROVE  SkillInv'
<1> USE DEF arm, object, At
<1>1. /\ goal.kind = "pick" /\ goal.pc = "cleanScene"
      /\ Turns("cleanContact", goal.state, goal.end)
  BY TypedGoal, GoalTurns DEF CleanScene, Steps, PickSteps, PlaceSteps, Goals
<1>2. PICK s \in Scenes :
         /\ SceneBecomes(s)
         /\ s.touch = scene.touch
         /\ s.world = scene.world \ {object}
         /\ s.overlap = scene.overlap
         /\ \A a \in Arms, x \in Objects :
              <<a, x>> \in s.attached
              <=> <<a, x>> \in scene.attached /\ x # object
  <2>1. scene \in Scenes /\ arm \in Arms /\ object \in Objects
    BY <1>1 DEF SkillInv, SkillTypeOK, PhaseKinds, PickSteps, PlaceSteps
  <2>2. SceneBecomes(Removed(scene, object))
    BY DEF CleanScene
  <2> QED BY <2>1, <2>2, Removes, SMTT(40) DEF Shows
<1>3. scene' \in Scenes /\ broken' \subseteq Faults
      /\ ((scene' = s /\ broken' = broken) \/ "scene" \in broken')
  BY <1>2, SceneAnswers DEF SkillInv
<1>4. UNCHANGED <<hand, slow>>
  BY DEF CleanScene
<1>5. SkillTypeOK'
  BY <1>1, <1>2, <1>3, <1>4 DEF SkillInv, SkillTypeOK, Turns
<1>6. PhaseKinds'
  BY <1>1, <1>2, <1>3, <1>4
     DEF SkillInv, PhaseKinds, Turns, PickSteps, PlaceSteps
<1>7. EditsAreOwn'
  BY <1>1, <1>2, <1>3, <1>4
     DEF SkillInv, EditsAreOwn, SkillTypeOK, Scenes, Attached, Turns,
         PhaseKinds, PickSteps, PlaceSteps, Restored, Carrying
<1>8. PickHand'
  BY <1>1, <1>2, <1>3, <1>4
     DEF SkillInv, PickHand, Turns, Attached, PhaseKinds, PickSteps,
         PlaceSteps, Carrying, Cleaning
<1>9. PlaceHand'
  BY <1>1, <1>2, <1>3, <1>4
     DEF SkillInv, PlaceHand, Turns, Attached, NotLetGo, PhaseKinds,
         PickSteps, PlaceSteps
<1> QED BY <1>5, <1>6, <1>7, <1>8, <1>9 DEF SkillInv

-----------------------------------------------------------------------------
(***************************************************************************)
(* executePlace.                                                           *)
(***************************************************************************)
\* A place is about an object that the scene has on its arm.
LEMMA HeldKeeps ==
  ASSUME SkillInv, Held
  PROVE  SkillInv'
<1> USE DEF arm, object, At
<1>1. /\ goal.kind = "place" /\ goal.pc = "held"
      /\ UNCHANGED <<scene, hand, slow, broken>>
  BY DEF Held
<1>2. CASE Ends("aborted")
  <2>1. Turns("ending", "aborted", goal.end)
    BY <1>2, TypedGoal, GoalTurns DEF Ended
  <2> QED BY <1>1, <2>1
             DEF SkillInv, SkillTypeOK, PhaseKinds, EditsAreOwn, PickHand,
                 PlaceHand, Turns, Goals, CleanUp, PickSteps, PlaceSteps,
                 Restored, Carrying, Cleaning, Attached, NotLetGo
<1>3. ASSUME NEW o \in HeldBy(scene, arm),
             goal' = [goal EXCEPT !.object = o, !.pc = "surface",
                                  !.gripped = hand[arm] = "closed"]
      PROVE  SkillInv'
  <2>1. o \in Objects /\ <<arm, o>> \in scene.attached
    BY DEF HeldBy
  <2>2. PICK g \in Goals : g = [goal EXCEPT !.object = o]
    BY <2>1, TypedGoal, GoalFields
  <2>3. PICK h \in Goals : h = [g EXCEPT !.pc = "surface"]
    BY GoalFields DEF Steps, PlaceSteps
  <2>4. PICK b \in BOOLEAN : b = (hand[arm] = "closed")
    OBVIOUS
  <2>5. goal' = [h EXCEPT !.gripped = b]
    BY <1>3, <2>2, <2>3, <2>4
  <2>6. goal' \in Goals
    BY <2>5, GoalFields
  <2>7. /\ goal'.kind = "place" /\ goal'.arm = goal.arm /\ goal'.object = o
        /\ goal'.pc = "surface" /\ (goal'.gripped => hand[arm] = "closed")
    BY <1>1, <2>2, <2>3, <2>4, <2>5, TypedGoal DEF Goals
  <2> QED BY <1>1, <2>1, <2>6, <2>7
             DEF SkillInv, SkillTypeOK, PhaseKinds, EditsAreOwn, PickHand,
                 PlaceHand, Turns, Goals, CleanUp, PickSteps, PlaceSteps,
                 Restored, Carrying, Cleaning, Attached, NotLetGo
<1> QED BY <1>2, <1>3 DEF Held

\* The target is known, or the place cleans up.
LEMMA SurfaceKeeps ==
  ASSUME SkillInv, Surface
  PROVE  SkillInv'
<1> USE DEF arm, object, At
<1>1. \/ Turns("preplace", goal.state, goal.end)
      \/ Turns(CleanUp, goal.state, "aborted")
  BY TypedGoal, GoalTurns
     DEF Surface, Fails, Cancels, Steps, PickSteps, PlaceSteps, Ended
<1>2. /\ goal.kind = "place" /\ goal.pc = "surface"
      /\ UNCHANGED <<scene, hand, slow, broken>>
  BY DEF Surface
<1> QED BY <1>1, <1>2
           DEF SkillInv, SkillTypeOK, PhaseKinds, EditsAreOwn, PickHand,
               PlaceHand, Turns, Goals, CleanUp, PickSteps, PlaceSteps,
               Restored, Carrying, Cleaning, Attached, NotLetGo

\* The map is cleared and the hand and its object exempt from it.
LEMMA PhaseKeeps ==
  ASSUME SkillInv, Phase
  PROVE  SkillInv'
<1> USE DEF arm, object, At
<1>1. goal.kind = "place" /\ goal.pc \in {"preplace", "aim", "retreat"}
      /\ UNCHANGED <<hand, slow>>
  BY DEF Phase
<1>2. CASE Cancels /\ UNCHANGED <<scene, broken>>
  <2>1. Turns(CleanUp, goal.state, "canceled")
    BY <1>2, TypedGoal, GoalTurns DEF Cancels, Ended
  <2> QED BY <1>1, <1>2, <2>1
             DEF SkillInv, SkillTypeOK, PhaseKinds, EditsAreOwn, PickHand,
                 PlaceHand, Turns, Goals, CleanUp, PickSteps, PlaceSteps,
                 Restored, Carrying, Cleaning, Attached, NotLetGo
<1>3. ASSUME NEW next \in {"above", "lower", "retreatMove"},
             next = CASE goal.pc = "preplace" -> "above"
                      [] goal.pc = "aim" -> "lower"
                      [] goal.pc = "retreat" -> "retreatMove",
             KeepsClear(next)
      PROVE  SkillInv'
  <2>1. Turns(next, goal.state, goal.end)
    BY <1>3, TypedGoal, GoalTurns DEF KeepsClear, Steps, PlaceSteps
  <2>2. PICK s \in Scenes :
           /\ SceneBecomes(s)
           /\ s.touch \subseteq scene.touch \cup ({arm} \X {Map, object})
           /\ s.overlap = {object}
           /\ s.world = scene.world /\ s.attached = scene.attached
    <3>1. scene \in Scenes /\ arm \in Arms /\ object \in Objects
      BY <1>1 DEF SkillInv, SkillTypeOK, PhaseKinds
    <3>2. PICK q \in Scenes :
             /\ q = Cleared(scene) /\ q.touch \subseteq scene.touch
             /\ q.overlap = {} /\ q.world = scene.world
             /\ q.attached = scene.attached
      BY <3>1, Clears DEF Shows
    <3>3. SceneBecomes(Contact(q, arm, {Map, object}, TRUE, TRUE))
      BY <1>3, <3>2 DEF KeepsClear, ClearedKeeping
    <3>4. Shows(Contact(q, arm, {Map, object}, TRUE, TRUE),
                q.touch \cup ({arm} \X {Map, object}),
                q.overlap \cup {object}, q.world, q.attached)
      BY <3>1, Contacts
    <3> QED BY <3>2, <3>3, <3>4 DEF Shows
  <2>3. scene' \in Scenes /\ broken' \subseteq Faults
        /\ ((scene' = s /\ broken' = broken) \/ "scene" \in broken')
    BY <2>2, SceneAnswers DEF SkillInv
  <2> QED BY <1>1, <1>3, <2>1, <2>2, <2>3
             DEF SkillInv, SkillTypeOK, PhaseKinds, EditsAreOwn, PickHand,
                 PlaceHand, Turns, Goals, CleanUp, PickSteps, PlaceSteps,
                 Restored, Carrying, Cleaning, Attached, NotLetGo
<1> QED BY <1>1, <1>2, <1>3 DEF Phase

\* Above the target, or the place cleans up.
LEMMA AboveKeeps ==
  ASSUME SkillInv, Above
  PROVE  SkillInv'
<1> USE DEF arm, object, At
<1>1. \/ Turns("aim", goal.state, goal.end)
      \/ Turns(CleanUp, goal.state, "aborted")
  BY TypedGoal, GoalTurns
     DEF Above, Fails, Cancels, Steps, PickSteps, PlaceSteps, Ended
<1>2. /\ goal.kind = "place" /\ goal.pc = "above"
      /\ UNCHANGED <<scene, hand, slow, broken>>
  BY DEF Above
<1> QED BY <1>1, <1>2
           DEF SkillInv, SkillTypeOK, PhaseKinds, EditsAreOwn, PickHand,
               PlaceHand, Turns, Goals, CleanUp, PickSteps, PlaceSteps,
               Restored, Carrying, Cleaning, Attached, NotLetGo

\* The hand opens, or the place cleans up with it as it was.
LEMMA ReleaseKeeps ==
  ASSUME SkillInv, Release
  PROVE  SkillInv'
<1> USE DEF arm, object, At
<1>1. goal.kind = "place" /\ goal.pc = "release" /\ UNCHANGED <<scene, slow>>
  BY DEF Release
<1>2. SkillTypeOK /\ arm \in Arms
  BY <1>1 DEF SkillInv, PhaseKinds
<1>3. \/ /\ Turns(CleanUp, goal.state, "canceled")
         /\ hand' = hand /\ broken' = broken
      \/ /\ Turns("letGo", goal.state, goal.end)
         /\ hand' \in [Arms -> HandStates] /\ hand'[arm] = "ready"
         /\ broken' = broken
      \/ /\ Turns(CleanUp, goal.state, "aborted")
         /\ hand' = hand /\ "hand" \in broken'
  BY <1>2, TypedGoal, GoalTurns, HandMoves, HandSticks
     DEF Release, Fails, Cancels, Steps, PickSteps, PlaceSteps, Ended,
         HandStates
<1>4. broken' \subseteq Faults /\ broken \subseteq broken'
  BY <1>2 DEF Release, HandBecomes, HandFails, Breaks, SkillTypeOK, Faults
<1> QED BY <1>1, <1>2, <1>3, <1>4, ZenonT(40)
           DEF SkillInv, SkillTypeOK, PhaseKinds, EditsAreOwn, PickHand,
               PlaceHand, Turns, Goals, CleanUp, PickSteps, PlaceSteps,
               Restored, Carrying, Cleaning, Attached, NotLetGo

\* The scene lets go after the hand.
LEMMA LetGoKeeps ==
  ASSUME SkillInv, LetGo
  PROVE  SkillInv'
<1> USE DEF arm, object, At
<1>1. /\ goal.kind = "place" /\ goal.pc = "letGo"
      /\ Turns("retreat", goal.state, goal.end)
  BY TypedGoal, GoalTurns DEF LetGo, Steps, PickSteps, PlaceSteps, Goals
<1>2. PICK s \in Scenes :
         /\ SceneBecomes(s)
         /\ s.touch = scene.touch
         /\ s.world = scene.world \ {object}
         /\ s.overlap = scene.overlap
         /\ \A a \in Arms, x \in Objects :
              <<a, x>> \in s.attached
              <=> <<a, x>> \in scene.attached /\ x # object
  <2>1. scene \in Scenes /\ arm \in Arms /\ object \in Objects
    BY <1>1 DEF SkillInv, SkillTypeOK, PhaseKinds, PickSteps, PlaceSteps
  <2>2. SceneBecomes(Removed(scene, object))
    BY DEF LetGo
  <2> QED BY <2>1, <2>2, Removes, SMTT(40) DEF Shows
<1>3. scene' \in Scenes /\ broken' \subseteq Faults
      /\ ((scene' = s /\ broken' = broken) \/ "scene" \in broken')
  BY <1>2, SceneAnswers DEF SkillInv
<1>4. UNCHANGED <<hand, slow>>
  BY DEF LetGo
<1>5. SkillTypeOK'
  BY <1>1, <1>2, <1>3, <1>4 DEF SkillInv, SkillTypeOK, Turns
<1>6. PhaseKinds'
  BY <1>1, <1>2, <1>3, <1>4
     DEF SkillInv, PhaseKinds, Turns, PickSteps, PlaceSteps
<1>7. EditsAreOwn'
  BY <1>1, <1>2, <1>3, <1>4
     DEF SkillInv, EditsAreOwn, SkillTypeOK, Scenes, Attached, Turns,
         PhaseKinds, PickSteps, PlaceSteps, Restored, Carrying
<1>8. PickHand'
  BY <1>1, <1>2, <1>3, <1>4
     DEF SkillInv, PickHand, Turns, Attached, PhaseKinds, PickSteps,
         PlaceSteps, Carrying, Cleaning
<1>9. PlaceHand'
  BY <1>1, <1>2, <1>3, <1>4
     DEF SkillInv, PlaceHand, Turns, Attached, NotLetGo, PhaseKinds,
         PickSteps, PlaceSteps
<1> QED BY <1>5, <1>6, <1>7, <1>8, <1>9 DEF SkillInv

\* Away from the object, or the place cleans up.
LEMMA RetreatMoveKeeps ==
  ASSUME SkillInv, RetreatMove
  PROVE  SkillInv'
<1> USE DEF arm, object, At
<1>1. \/ Turns("restore", goal.state, goal.end)
      \/ Turns(CleanUp, goal.state, "aborted")
  BY TypedGoal, GoalTurns
     DEF RetreatMove, Fails, Cancels, Steps, PickSteps, PlaceSteps, Ended
<1>2. /\ goal.kind = "place" /\ goal.pc = "retreatMove"
      /\ UNCHANGED <<scene, hand, slow, broken>>
  BY DEF RetreatMove
<1> QED BY <1>1, <1>2
           DEF SkillInv, SkillTypeOK, PhaseKinds, EditsAreOwn, PickHand,
               PlaceHand, Turns, Goals, CleanUp, PickSteps, PlaceSteps,
               Restored, Carrying, Cleaning, Attached, NotLetGo

\* The hand respects the map and the object again.
LEMMA RestoreKeeps ==
  ASSUME SkillInv, Restore
  PROVE  SkillInv'
<1> USE DEF arm, object, At
<1>1. /\ goal.kind = "place" /\ goal.pc = "restore"
      /\ Turns("landed", goal.state, goal.end)
  BY TypedGoal, GoalTurns DEF Restore, Steps, PickSteps, PlaceSteps, Goals
<1>2. PICK s \in Scenes :
         /\ SceneBecomes(s)
         /\ s.touch = scene.touch \ ({arm} \X {Map, object})
         /\ s.world = scene.world
         /\ s.overlap = scene.overlap \ {object}
         /\ s.attached = scene.attached
  <2>1. scene \in Scenes /\ arm \in Arms /\ object \in Objects
    BY <1>1 DEF SkillInv, SkillTypeOK, PhaseKinds, PickSteps, PlaceSteps
  <2>2. SceneBecomes(Contact(scene, arm, {Map, object}, FALSE, TRUE))
    BY DEF Restore, Edits
  <2>3. Shows(Contact(scene, arm, {Map, object}, FALSE, TRUE),
              scene.touch \ ({arm} \X {Map, object}), scene.overlap \ {object}, scene.world,
              scene.attached)
    BY <2>1, Contacts
  <2> QED BY <2>2, <2>3 DEF Shows
<1>3. scene' \in Scenes /\ broken' \subseteq Faults
      /\ ((scene' = s /\ broken' = broken) \/ "scene" \in broken')
  BY <1>2, SceneAnswers DEF SkillInv
<1>4. UNCHANGED <<hand, slow>>
  BY DEF Restore
<1> QED BY <1>1, <1>2, <1>3, <1>4, ZenonT(40)
           DEF SkillInv, SkillTypeOK, PhaseKinds, EditsAreOwn, PickHand,
               PlaceHand, Turns, Goals, CleanUp, PickSteps, PlaceSteps,
               Restored, Carrying, Cleaning, Attached, NotLetGo

\* The object is where it was put, or the place cleans up.
LEMMA LandedKeeps ==
  ASSUME SkillInv, Landed
  PROVE  SkillInv'
<1> USE DEF arm, object, At
<1>1. \/ Turns(CleanUp, goal.state, "aborted")
      \/ Turns("ending", "succeeded", goal.end)
  BY TypedGoal, GoalTurns
     DEF Landed, Fails, Cancels, Steps, PickSteps, PlaceSteps, Ended
<1>2. /\ goal.kind = "place" /\ goal.pc = "landed"
      /\ UNCHANGED <<scene, hand, slow, broken>>
  BY DEF Landed
<1> QED BY <1>1, <1>2
           DEF SkillInv, SkillTypeOK, PhaseKinds, EditsAreOwn, PickHand,
               PlaceHand, Turns, Goals, CleanUp, PickSteps, PlaceSteps,
               Restored, Carrying, Cleaning, Attached, NotLetGo

-----------------------------------------------------------------------------
(***************************************************************************)
(* What the skills share, and executeSetArmPosture and executeMoveHand.    *)
(***************************************************************************)
\* A goal without an arm ends, any other enters its skill.
LEMMA BeginKeeps ==
  ASSUME SkillInv, Begin
  PROVE  SkillInv'
<1> USE DEF arm, object, At
<1>1. goal.pc = "begin" /\ UNCHANGED <<scene, hand, slow, broken>>
  BY DEF Begin
<1>2. \/ Turns("ending", "aborted", goal.end)
      \/ arm \in Arms /\ goal.kind = "pick" /\ Turns("locate", goal.state, goal.end)
      \/ arm \in Arms /\ goal.kind = "place" /\ Turns("held", goal.state, goal.end)
      \/ arm \in Arms /\ goal.kind = "posture" /\ Turns("plan", goal.state, goal.end)
      \/ arm \in Arms /\ goal.kind = "moveHand" /\ Turns("solve", goal.state, goal.end)
  <2>1. goal.kind \in {"pick", "place", "posture", "moveHand"}
    BY TypedGoal DEF Goals, Kinds
  <2>2. {"locate", "held", "plan", "solve"} \subseteq Steps /\ "aborted" \in Ended
    BY DEF Steps, PickSteps, PlaceSteps, Ended
  <2> QED BY <2>1, <2>2, TypedGoal, GoalTurns DEF Begin
<1> QED BY <1>1, <1>2
           DEF SkillInv, SkillTypeOK, PhaseKinds, EditsAreOwn, PickHand,
               PlaceHand, Turns, Goals, CleanUp, PickSteps, PlaceSteps,
               Restored, Carrying, Cleaning, Attached, NotLetGo

\* A descent of a pick or a place tries again, goes on or fails.
LEMMA DescendKeeps ==
  ASSUME SkillInv, Descend
  PROVE  SkillInv'
<1> USE DEF arm, object, At
<1>1. \/ goal.kind = "pick" /\ goal.pc = "descend" /\ Descends("grasp")
      \/ goal.kind = "place" /\ goal.pc = "lower" /\ Descends("release")
  BY DEF Descend
<1>2. \A p \in Steps : Descends(p) =>
         \/ Turns(p, goal.state, goal.end)
         \/ Turns(goal.pc, goal.state, goal.end)
         \/ Turns(CleanUp, goal.state, "aborted")
  BY TypedGoal, GoalTurns DEF Descends, Fails, Ended
<1>3. \/ goal.kind = "pick" /\ goal.pc = "descend" /\ Turns("grasp", goal.state, goal.end)
      \/ goal.kind = "place" /\ goal.pc = "lower" /\ Turns("release", goal.state, goal.end)
      \/ goal.pc \in {"descend", "lower"} /\ Turns(goal.pc, goal.state, goal.end)
      \/ goal.pc \in {"descend", "lower"} /\ Turns(CleanUp, goal.state, "aborted")
  BY <1>1, <1>2 DEF Steps, PickSteps, PlaceSteps
<1>4. UNCHANGED <<scene, hand, slow, broken>>
  BY DEF Descend
<1> QED BY <1>3, <1>4, ZenonT(40)
           DEF SkillInv, SkillTypeOK, PhaseKinds, EditsAreOwn, PickHand,
               PlaceHand, Turns, Goals, CleanUp, PickSteps, PlaceSteps,
               Restored, Carrying, Cleaning, Attached, NotLetGo

\* The last of every clean-up: the exemptions end.
LEMMA CleanContactKeeps ==
  ASSUME SkillInv, CleanContact
  PROVE  SkillInv'
<1> USE DEF arm, object, At
<1>1. goal.pc = "cleanContact" /\ Turns("ending", goal.end, goal.end)
  BY TypedGoal, GoalTurns
     DEF CleanContact, Steps, PickSteps, PlaceSteps, Goals
<1>2. PICK s \in Scenes :
         /\ SceneBecomes(s)
         /\ s.touch = scene.touch \ ({arm} \X {Map, object})
         /\ s.world = scene.world
         /\ s.overlap = scene.overlap \ {object}
         /\ s.attached = scene.attached
  <2>1. scene \in Scenes /\ arm \in Arms /\ object \in Objects
    BY <1>1 DEF SkillInv, SkillTypeOK, PhaseKinds, PickSteps, PlaceSteps
  <2>2. SceneBecomes(Contact(scene, arm, {Map, object}, FALSE, TRUE))
    BY DEF CleanContact, Edits
  <2>3. Shows(Contact(scene, arm, {Map, object}, FALSE, TRUE),
              scene.touch \ ({arm} \X {Map, object}), scene.overlap \ {object}, scene.world,
              scene.attached)
    BY <2>1, Contacts
  <2> QED BY <2>2, <2>3 DEF Shows
<1>3. scene' \in Scenes /\ broken' \subseteq Faults
      /\ ((scene' = s /\ broken' = broken) \/ "scene" \in broken')
  BY <1>2, SceneAnswers DEF SkillInv
<1>4. UNCHANGED <<hand, slow>>
  BY DEF CleanContact
<1>5. SkillTypeOK'
  BY <1>1, <1>2, <1>3, <1>4 DEF SkillInv, SkillTypeOK, Turns
<1>6. PhaseKinds'
  BY <1>1, <1>2, <1>3, <1>4
     DEF SkillInv, PhaseKinds, Turns, PickSteps, PlaceSteps
<1>7. EditsAreOwn'
  BY <1>1, <1>2, <1>3, <1>4
     DEF SkillInv, EditsAreOwn, SkillTypeOK, Scenes, Attached, Turns,
         PhaseKinds, PickSteps, PlaceSteps, Restored, Carrying
<1>8. PickHand'
  BY <1>1, <1>2, <1>3, <1>4
     DEF SkillInv, PickHand, Turns, Attached, PhaseKinds, PickSteps,
         PlaceSteps, Carrying, Cleaning
<1>9. PlaceHand'
  BY <1>1, <1>2, <1>3, <1>4
     DEF SkillInv, PlaceHand, Turns, Attached, NotLetGo, PhaseKinds,
         PickSteps, PlaceSteps
<1> QED BY <1>5, <1>6, <1>7, <1>8, <1>9 DEF SkillInv

\* A posture edits nothing.
LEMMA PlanPostureKeeps ==
  ASSUME SkillInv, PlanPosture
  PROVE  SkillInv'
<1> USE DEF arm, object, At
<1>1. \/ Turns("ending", "canceled", goal.end)
      \/ Turns("move", goal.state, goal.end)
      \/ Turns("ending", "aborted", goal.end)
  BY TypedGoal, GoalTurns
     DEF PlanPosture, Fails, Cancels, Steps, PickSteps, PlaceSteps, Ended
<1>2. /\ goal.kind = "posture" /\ goal.pc = "plan"
      /\ UNCHANGED <<scene, hand, slow, broken>>
  BY DEF PlanPosture
<1> QED BY <1>1, <1>2
           DEF SkillInv, SkillTypeOK, PhaseKinds, EditsAreOwn, PickHand,
               PlaceHand, Turns, Goals, CleanUp, PickSteps, PlaceSteps,
               Restored, Carrying, Cleaning, Attached, NotLetGo

\* A posture leaves the hand as it likes: no pick or place is out.
LEMMA MovePostureKeeps ==
  ASSUME SkillInv, MovePosture
  PROVE  SkillInv'
<1> USE DEF arm, object, At
<1>1. /\ goal.kind = "posture" /\ goal.pc = "move"
      /\ UNCHANGED <<scene, slow, broken>>
  BY DEF MovePosture
<1>2. hand' \in [Arms -> HandStates]
  BY DEF MovePosture, SkillInv, SkillTypeOK
<1>3. \E s \in Ended : Turns("ending", s, goal.end)
  BY TypedGoal, GoalTurns DEF MovePosture, Ended
<1> QED BY <1>1, <1>2, <1>3
           DEF SkillInv, SkillTypeOK, PhaseKinds, EditsAreOwn, PickHand,
               PlaceHand, Turns, Goals, CleanUp, PickSteps, PlaceSteps,
               Restored, Carrying, Cleaning, Attached, NotLetGo

\* A gesture slows its arm, and only past its refusals.
LEMMA SolveKeeps ==
  ASSUME SkillInv, Solve
  PROVE  SkillInv'
<1> USE DEF arm, object, At
<1>1. /\ goal.kind = "moveHand" /\ goal.pc = "solve"
      /\ UNCHANGED <<scene, hand, broken>>
  BY DEF Solve
<1>2. \/ Turns("ending", "aborted", goal.end) /\ slow' = slow
      \/ Turns("move", goal.state, goal.end) /\ slow' = slow \cup {arm}
  BY TypedGoal, GoalTurns DEF Solve, Ended, Steps
<1> QED BY <1>1, <1>2
           DEF SkillInv, SkillTypeOK, PhaseKinds, EditsAreOwn, PickHand,
               PlaceHand, Turns, Goals, CleanUp, PickSteps, PlaceSteps,
               Restored, Carrying, Cleaning, Attached, NotLetGo

\* The arm has its speed again, however the gesture ended.
LEMMA GestureKeeps ==
  ASSUME SkillInv, Gesture
  PROVE  SkillInv'
<1> USE DEF arm, object, At
<1>1. /\ goal.kind = "moveHand" /\ goal.pc = "move"
      /\ slow' = slow \ {arm} /\ UNCHANGED <<scene, hand, broken>>
  BY DEF Gesture
<1>2. \E s \in Ended : Turns("ending", s, goal.end)
  BY TypedGoal, GoalTurns DEF Gesture, Ended
<1> QED BY <1>1, <1>2
           DEF SkillInv, SkillTypeOK, PhaseKinds, EditsAreOwn, PickHand,
               PlaceHand, Turns, Goals, CleanUp, PickSteps, PlaceSteps,
               Restored, Carrying, Cleaning, Attached, NotLetGo

-----------------------------------------------------------------------------
(***************************************************************************)
(* The servers: runGuarded, acquire and the cancels.                       *)
(***************************************************************************)
\* The goal that ended gives way, in a phase that has restored all.
LEMMA ReturnsKeeps ==
  ASSUME SkillInv, Returns
  PROVE  SkillInv'
<1> USE DEF arm, object, At
<1>1. /\ goal.pc = "ending" /\ goal' = Idle
      /\ UNCHANGED <<scene, hand, slow, broken>>
  BY DEF Returns
<1>2. /\ goal' \in Goals /\ goal'.pc = "none" /\ goal'.kind = "pick"
      /\ goal'.object = Map /\ goal'.arm = "none" /\ goal'.gripped = FALSE
  BY <1>1, IdleGoal
<1> QED BY <1>1, <1>2
           DEF SkillInv, SkillTypeOK, PhaseKinds, EditsAreOwn, PickHand,
               PlaceHand, Turns, Goals, CleanUp, PickSteps, PlaceSteps,
               Restored, Carrying, Cleaning, Attached, NotLetGo

\* A goal that threw is recorded as one that may have left edits.
LEMMA ThrowsKeeps ==
  ASSUME SkillInv, Throws
  PROVE  SkillInv'
<1> USE DEF arm, object, At
<1>1. /\ Turns("ending", "aborted", goal.end) /\ goal.pc # "none"
      /\ "throw" \in broken' /\ broken' \subseteq Faults
      /\ UNCHANGED <<scene, hand, slow>>
  BY TypedGoal, GoalTurns
     DEF Throws, Breaks, Ended, Faults, SkillInv, SkillTypeOK
<1> QED BY <1>1
           DEF SkillInv, SkillTypeOK, PhaseKinds, EditsAreOwn, PickHand,
               PlaceHand, Turns, Goals, CleanUp, PickSteps, PlaceSteps,
               Restored, Carrying, Cleaning, Attached, NotLetGo

\* A cancel changes the state of the goal and nothing it is about.
LEMMA CancelKeeps ==
  ASSUME SkillInv, Cancel
  PROVE  SkillInv'
<1> USE DEF arm, object, At
<1>1. /\ goal.state = "executing" /\ UNCHANGED <<scene, hand, slow, broken>>
      /\ goal' = [goal EXCEPT !.state = "canceling"]
  BY DEF Cancel
<1>2. Turns(goal.pc, "canceling", goal.end)
  BY <1>1, TypedGoal DEF Turns, Goals
<1>5. SkillTypeOK'
  BY <1>1, <1>2 DEF SkillInv, SkillTypeOK, Turns
<1>6. PhaseKinds'
  BY <1>1, <1>2 DEF SkillInv, PhaseKinds, Turns, PickSteps, PlaceSteps
<1>7. EditsAreOwn'
  BY <1>1, <1>2
     DEF SkillInv, EditsAreOwn, SkillTypeOK, Scenes, Attached, Turns,
         PhaseKinds, PickSteps, PlaceSteps, Restored, Carrying
<1>8. PickHand'
  BY <1>1, <1>2
     DEF SkillInv, PickHand, Turns, Attached, PhaseKinds, PickSteps,
         PlaceSteps, Carrying, Cleaning
<1>9. PlaceHand'
  BY <1>1, <1>2
     DEF SkillInv, PlaceHand, Turns, Attached, NotLetGo, PhaseKinds,
         PickSteps, PlaceSteps
<1> QED BY <1>5, <1>6, <1>7, <1>8, <1>9 DEF SkillInv

\* A goal starts from a server that has none out.
LEMMA AcceptKeeps ==
  ASSUME SkillInv, NEW kind \in Kinds, NEW a \in Arms \cup {"none"}, NEW o \in Objects,
         Accept(kind, a, o)
  PROVE  SkillInv'
<1> USE DEF arm, object, At
<1>1. /\ goal.pc = "none" /\ UNCHANGED <<scene, hand, slow, broken>>
      /\ goal' = [Idle EXCEPT !.kind = kind, !.arm = a, !.object = o,
                              !.state = "executing", !.pc = "begin"]
  BY DEF Accept
<1>2. /\ goal' \in Goals /\ goal'.pc = "begin" /\ goal'.object = o
      /\ goal'.gripped = FALSE
  <2>1. goal' = [kind |-> kind, arm |-> a, object |-> o, state |-> "executing",
                 pc |-> "begin", tries |-> 0, plans |-> 0, some |-> FALSE,
                 end |-> "none", gripped |-> FALSE]
    BY <1>1 DEF Idle
  <2> QED BY <2>1, GraspNumbersAssumption DEF Goals, Touchables, Steps
<1>3. SkillTypeOK' /\ PhaseKinds'
  BY <1>1, <1>2 DEF SkillInv, SkillTypeOK, PhaseKinds, PickSteps, PlaceSteps
<1>4. EditsAreOwn'
  BY <1>1, <1>2
     DEF SkillInv, EditsAreOwn, Restored, Carrying, Attached, PlaceSteps
<1>5. PickHand' /\ PlaceHand'
  BY <1>1, <1>2 DEF PickHand, PlaceHand, Carrying, Cleaning
<1> QED BY <1>3, <1>4, <1>5 DEF SkillInv

-----------------------------------------------------------------------------
(***************************************************************************)
(* The invariant.                                                          *)
(***************************************************************************)
\* The server starts with nothing edited.
LEMMA InitSkillInv == Init => SkillInv
<1> SUFFICES ASSUME Init PROVE SkillInv
  OBVIOUS
<1> USE DEF arm, object, At
<1>1. EmptyScene \in Scenes
  BY DEF EmptyScene, Scenes
<1>2. SkillTypeOK
  BY <1>1, IdleGoal DEF Init, SkillTypeOK, HandStates
<1>3. PhaseKinds
  BY IdleGoal DEF Init, PhaseKinds, PickSteps, PlaceSteps
<1>4. EditsAreOwn
  BY IdleGoal
     DEF Init, EditsAreOwn, EmptyScene, Restored, Carrying, PlaceSteps
<1>5. PickHand /\ PlaceHand
  BY IdleGoal DEF Init, PickHand, PlaceHand, Carrying, Cleaning
<1> QED BY <1>2, <1>3, <1>4, <1>5 DEF SkillInv

\* A step of nobody changes nothing.
LEMMA NothingKeeps ==
  ASSUME SkillInv, UNCHANGED vars
  PROVE  SkillInv'
<1> USE DEF vars, arm, object, At
<1>1. SkillTypeOK' /\ PhaseKinds'
  BY DEF SkillInv, SkillTypeOK, PhaseKinds
<1>2. EditsAreOwn'
  BY DEF SkillInv, EditsAreOwn, Attached
<1>3. PickHand'
  BY DEF SkillInv, PickHand, Attached
<1>4. PlaceHand'
  BY DEF SkillInv, PlaceHand, NotLetGo, Attached
<1> QED BY <1>1, <1>2, <1>3, <1>4 DEF SkillInv

\* No step of the servers or of a client breaks the invariant.
LEMMA SkillStep == SkillInv /\ [Next]_vars => SkillInv'
<1> SUFFICES ASSUME SkillInv, [Next]_vars PROVE SkillInv'
  OBVIOUS
<1>1. CASE Pick
  BY <1>1, LocateKeeps, ChooseKeeps, OpenKeeps, ClearKeeps, ReachKeeps,
     UnstickKeeps, RestickKeeps, SettleKeeps, ApproachKeeps, BareKeeps,
     GraspKeeps, CloseKeeps, CheckKeeps, AttachKeeps, LiftKeeps, LiftedKeeps,
     LiftFailedKeeps, LookKeeps, RestoreLinksKeeps, RestoreObjectKeeps,
     CleanHandKeeps, CleanSceneKeeps
     DEF Pick
<1>2. CASE Place
  BY <1>2, HeldKeeps, SurfaceKeeps, PhaseKeeps, AboveKeeps, ReleaseKeeps,
     LetGoKeeps, RetreatMoveKeeps, RestoreKeeps, LandedKeeps
     DEF Place
<1>3. CASE GoalThread /\ ~Pick /\ ~Place
  BY <1>3, BeginKeeps, DescendKeeps, CleanContactKeeps, PlanPostureKeeps,
     MovePostureKeeps, SolveKeeps, GestureKeeps, ReturnsKeeps
     DEF GoalThread
<1>4. CASE Clients
  BY <1>4, AcceptKeeps, CancelKeeps DEF Clients
<1> QED BY <1>1, <1>2, <1>3, <1>4, ThrowsKeeps, NothingKeeps DEF Next

\* Every reachable state satisfies the invariant.
THEOREM SkillInvariant == Spec => []SkillInv
BY InitSkillInv, SkillStep, PTL DEF Spec

\* Every variable keeps its type.
THEOREM SkillTypes == Spec => []SkillTypeOK
<1>1. SkillInv => SkillTypeOK
  BY DEF SkillInv
<1> QED BY <1>1, SkillInvariant, PTL

\* Once no goal runs, nothing is left of the edits of any: runGuarded gives busy_ back
\* only after executePick, executePlace and executeMoveHand have restored the scene and
\* the arm's speed, on every way out of them.
THEOREM IdleSkillsRestore == Spec => []IdleIsRestored
<1>1. SkillInv => IdleIsRestored
  BY DEF SkillInv, IdleIsRestored, EditsAreOwn, Restored, Attached, At
<1> QED BY <1>1, SkillInvariant, PTL

-----------------------------------------------------------------------------
(***************************************************************************)
(* How a pick and a place end.                                             *)
(***************************************************************************)
\* Past its start, a pick without a fault ends keeping its object or cleaning up.
LEMMA PickEnds ==
  ASSUME SkillInv, Next, broken' = {}, goal.kind = "pick",
         goal.pc \notin {"begin", "ending"}, goal'.pc = "ending"
  PROVE  RestoreObject \/ CleanContact
<1> USE TypedGoal DEF Goals, At, To, Loop, Fails, Cancels, CleansUp, Keeps
<1>1. ASSUME Locate PROVE goal'.pc # "ending"
  BY <1>1 DEF Locate
<1>2. ASSUME Choose PROVE goal'.pc # "ending"
  BY <1>2 DEF Choose
<1>3. ASSUME Open PROVE goal'.pc # "ending"
  BY <1>3 DEF Open
<1>4. ASSUME Clear PROVE goal'.pc # "ending"
  BY <1>4 DEF Clear
<1>5. ASSUME Reach PROVE goal'.pc # "ending"
  BY <1>5 DEF Reach
<1>6. ASSUME Unstick PROVE goal'.pc # "ending"
  BY <1>6 DEF Unstick
<1>7. ASSUME Restick PROVE goal'.pc # "ending"
  BY <1>7 DEF Restick
<1>8. ASSUME Settle PROVE goal'.pc # "ending"
  BY <1>8 DEF Settle
<1>9. ASSUME Approach PROVE goal'.pc # "ending"
  BY <1>9 DEF Approach
<1>10. ASSUME Bare PROVE goal'.pc # "ending"
  BY <1>10 DEF Bare
<1>11. ASSUME Grasp PROVE goal'.pc # "ending"
  BY <1>11 DEF Grasp
<1>12. ASSUME Close PROVE goal'.pc # "ending"
  BY <1>12 DEF Close
<1>13. ASSUME Check PROVE goal'.pc # "ending"
  BY <1>13 DEF Check
<1>14. ASSUME Attach PROVE goal'.pc # "ending"
  BY <1>14 DEF Attach
<1>15. ASSUME Lift PROVE goal'.pc # "ending"
  BY <1>15 DEF Lift
<1>16. ASSUME Lifted PROVE goal'.pc # "ending"
  BY <1>16 DEF Lifted
<1>17. ASSUME LiftFailed PROVE goal'.pc # "ending"
  BY <1>17 DEF LiftFailed
<1>18. ASSUME Look PROVE goal'.pc # "ending"
  BY <1>18 DEF Look
<1>19. ASSUME RestoreLinks PROVE goal'.pc # "ending"
  BY <1>19 DEF RestoreLinks
<1>20. ASSUME CleanHand PROVE goal'.pc # "ending"
  BY <1>20 DEF CleanHand
<1>21. ASSUME CleanScene PROVE goal'.pc # "ending"
  BY <1>21 DEF CleanScene
<1>22. ASSUME Descend PROVE goal'.pc # "ending"
  BY <1>22 DEF Descend, Descends
<1>23. ~Throws /\ ~Begin /\ ~Cancel /\ ~Returns
  BY DEF Throws, Breaks, Begin, Cancel, Returns, Idle
<1>24. ~(\E k \in Kinds, a \in Arms \cup {"none"}, o \in Objects : Accept(k, a, o))
  BY DEF Accept, Idle
<1>25. ~PlanPosture /\ ~MovePosture /\ ~Solve /\ ~Gesture
  BY DEF PlanPosture, MovePosture, Solve, Gesture
<1>26. ~Place
  BY DEF Place, Held, Surface, Phase, Above, Release, LetGo, RetreatMove,
         Restore, Landed
<1> QED BY <1>1, <1>2, <1>3, <1>4, <1>5, <1>6, <1>7, <1>8, <1>9, <1>10,
           <1>11, <1>12, <1>13, <1>14, <1>15, <1>16, <1>17, <1>18, <1>19,
           <1>20, <1>21, <1>22, <1>23, <1>24, <1>25, <1>26
           DEF Next, GoalThread, Pick, Place, Clients

\* Past its start, a place without a fault ends landed or cleaning up.
LEMMA PlaceEnds ==
  ASSUME SkillInv, Next, broken' = {}, goal.kind = "place",
         goal.pc \notin {"begin", "held", "ending"}, goal'.pc = "ending"
  PROVE  Landed \/ CleanContact
<1> USE TypedGoal DEF Goals, At, To, Loop, Fails, Cancels, CleansUp, Keeps
<1>1. ASSUME Surface PROVE goal'.pc # "ending"
  BY <1>1 DEF Surface
<1>2. ASSUME Phase PROVE goal'.pc # "ending"
  BY <1>2 DEF Phase, KeepsClear
<1>3. ASSUME Above PROVE goal'.pc # "ending"
  BY <1>3 DEF Above
<1>4. ASSUME Release PROVE goal'.pc # "ending"
  BY <1>4 DEF Release
<1>5. ASSUME LetGo PROVE goal'.pc # "ending"
  BY <1>5 DEF LetGo
<1>6. ASSUME RetreatMove PROVE goal'.pc # "ending"
  BY <1>6 DEF RetreatMove
<1>7. ASSUME Restore PROVE goal'.pc # "ending"
  BY <1>7 DEF Restore
<1>8. ASSUME Descend PROVE goal'.pc # "ending"
  BY <1>8 DEF Descend, Descends
<1>9. ~Throws /\ ~Begin /\ ~Cancel /\ ~Returns
  BY DEF Throws, Breaks, Begin, Cancel, Returns, Idle
<1>10. ~(\E k \in Kinds, a \in Arms \cup {"none"}, o \in Objects : Accept(k, a, o))
  BY DEF Accept, Idle
<1>11. ~PlanPosture /\ ~MovePosture /\ ~Solve /\ ~Gesture
  BY DEF PlanPosture, MovePosture, Solve, Gesture
<1>12. (Pick => Clear \/ Reach \/ Unstick \/ Restick) /\ ~Held
  BY DEF Pick, Held, Locate, Choose, Open, Settle, Approach, Bare, Grasp,
         Close, Check, Attach, Lift, Lifted, LiftFailed, Look, RestoreLinks,
         RestoreObject, CleanHand, CleanScene
<1>13. ~Clear /\ ~Reach /\ ~Unstick /\ ~Restick
  BY DEF Clear, Reach, Unstick, Restick, SkillInv, PhaseKinds, PickSteps
<1> QED BY <1>1, <1>2, <1>3, <1>4, <1>5, <1>6, <1>7, <1>8, <1>9, <1>10,
           <1>11, <1>12, <1>13
           DEF Next, GoalThread, Pick, Place, Clients

\* executePick leaves a state the next attempt can start from: an object held in the
\* hand and the scene, or an open hand and a scene with nothing on any arm; a cancel
\* chooses between them by whether the hand had closed on the object.
THEOREM PicksLeaveDefinedState == Spec => PickLeavesDefinedState
<1>1. ASSUME SkillInv, Next, goal.kind = "pick", broken' = {},
             goal.pc \notin {"begin", "ending"}, goal'.pc = "ending"
      PROVE  CASE goal'.state = "succeeded" -> Kept'
               [] goal'.state = "aborted" -> LetGone'
               [] goal'.state = "canceled" -> IF goal.gripped THEN Kept' ELSE LetGone'
  <2> USE DEF arm, object, At
  <2>1. CASE RestoreObject
    <3>1. /\ goal.pc = "restoreObject" /\ hand' = hand
          /\ Turns("ending", goal.end, goal.end)
      BY <1>1, <2>1, TypedGoal, GoalTurns DEF RestoreObject, Goals
    <3>2. scene \in Scenes /\ arm \in Arms /\ object \in Objects
      BY <1>1, <3>1 DEF SkillInv, SkillTypeOK, PhaseKinds
    <3>3. /\ scene' = Contact(scene, arm, {Map, object}, TRUE, FALSE)
          /\ broken = {}
      BY <1>1, <2>1 DEF RestoreObject, Edits, SceneBecomes, Breaks
    <3>4. Shows(scene', scene.touch, scene.overlap \cup {object},
                scene.world, scene.attached)
      BY <3>2, <3>3, Contacts
    <3>5. /\ hand[arm] = "closed" /\ <<arm, object>> \in scene.attached
          /\ goal.gripped /\ goal.end \in {"succeeded", "canceled"}
      BY <1>1, <3>1, <3>3 DEF SkillInv, PickHand, Carrying
    <3>6. Kept'
      BY <3>1, <3>4, <3>5 DEF Kept, Shows, Turns
    <3> QED BY <3>1, <3>5, <3>6 DEF Turns
  <2>2. CASE CleanContact
    <3>1. /\ goal.pc = "cleanContact" /\ hand' = hand
          /\ Turns("ending", goal.end, goal.end)
      BY <1>1, <2>2, TypedGoal, GoalTurns DEF CleanContact, Goals
    <3>2. scene \in Scenes /\ arm \in Arms /\ object \in Objects
      BY <1>1, <3>1 DEF SkillInv, SkillTypeOK, PhaseKinds
    <3>3. /\ scene' = Contact(scene, arm, {Map, object}, FALSE, TRUE)
          /\ broken = {}
      BY <1>1, <2>2 DEF CleanContact, Edits, SceneBecomes, Breaks
    <3>4. Shows(scene', scene.touch \ ({arm} \X {Map, object}),
                scene.overlap \ {object}, scene.world, scene.attached)
      BY <3>2, <3>3, Contacts
    <3>5. /\ hand[arm] = "ready" /\ ~Attached(object)
          /\ goal.end \in {"aborted", "canceled"}
          /\ goal.gripped => goal.end = "aborted"
      BY <1>1, <3>1, <3>3 DEF SkillInv, PickHand, Cleaning
    <3>6. LetGone'
      BY <3>1, <3>4, <3>5 DEF LetGone, Shows, Turns, Attached
    <3> QED BY <3>1, <3>5, <3>6 DEF Turns
  <2> QED BY <1>1, <2>1, <2>2, PickEnds
<1> QED BY <1>1, SkillInvariant, PTL DEF Spec, PickLeavesDefinedState

\* executePlace that succeeds has let go, in the hand and in the scene, and however it
\* ends what the scene still has on the arm is in a hand that was not opened.
THEOREM PlacesLeaveDefinedState == Spec => PlaceLeavesDefinedState
<1>1. ASSUME SkillInv, Next, goal.kind = "place", broken' = {},
             goal.pc \notin {"begin", "held", "ending"}, goal'.pc = "ending"
      PROVE  /\ goal'.state = "succeeded" => LetGone'
             /\ \/ LetGone'
                \/ /\ <<arm, object>> \in scene'.attached
                   /\ goal.gripped => hand'[arm] = "closed"
  <2> USE DEF arm, object, At
  <2>1. CASE Landed
    <3>1. /\ goal.pc = "landed" /\ Ends("succeeded")
          /\ UNCHANGED <<scene, hand, broken>>
      BY <1>1, <2>1, TypedGoal DEF Landed, Fails, CleansUp, Goals
    <3>2. Turns("ending", "succeeded", goal.end)
      BY <1>1, <3>1, TypedGoal, GoalTurns DEF Ended
    <3>3. hand[arm] = "ready" /\ ~Attached(object) /\ object \notin scene.overlap
      BY <1>1, <3>1 DEF SkillInv, PlaceHand
    <3> QED BY <3>1, <3>2, <3>3 DEF LetGone, Turns, Attached
  <2>2. CASE CleanContact
    <3>1. /\ goal.pc = "cleanContact" /\ hand' = hand
          /\ Turns("ending", goal.end, goal.end)
      BY <1>1, <2>2, TypedGoal, GoalTurns DEF CleanContact, Goals
    <3>2. scene \in Scenes /\ arm \in Arms /\ object \in Objects
      BY <1>1, <3>1 DEF SkillInv, SkillTypeOK, PhaseKinds
    <3>3. /\ scene' = Contact(scene, arm, {Map, object}, FALSE, TRUE)
          /\ broken = {}
      BY <1>1, <2>2 DEF CleanContact, Edits, SceneBecomes, Breaks
    <3>4. Shows(scene', scene.touch \ ({arm} \X {Map, object}),
                scene.overlap \ {object}, scene.world, scene.attached)
      BY <3>2, <3>3, Contacts
    <3>5. NotLetGo \/ (hand[arm] = "ready" /\ ~Attached(object))
      BY <1>1, <3>1, <3>3 DEF SkillInv, PlaceHand
    <3>6. goal.end # "succeeded"
      BY <1>1, <3>1, <3>3 DEF SkillInv, PlaceHand
    <3> QED BY <3>1, <3>4, <3>5, <3>6
               DEF LetGone, Shows, Turns, Attached, NotLetGo
  <2> QED BY <1>1, <2>1, <2>2, PlaceEnds
<1> QED BY <1>1, SkillInvariant, PTL DEF Spec, PlaceLeavesDefinedState
==============================================================================
