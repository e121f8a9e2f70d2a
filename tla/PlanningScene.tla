---------------------------- MODULE PlanningScene ----------------------------
(***************************************************************************)
(* What the manipulation server keeps in MoveIt's planning scene: which    *)
(* contacts the allowed-collision matrix exempts, the objects standing in  *)
(* the world and the ones attached to an arm.  A scene is a record, and    *)
(* each request of the server an operator from scene to scene.             *)
(***************************************************************************)
CONSTANTS Arms, Objects, Map  \* Map is <octomap>

ASSUME MapAssumption == Map \notin Objects

Touchables == Objects \cup {Map}

Scenes == [touch: SUBSET (Arms \X Touchables), overlap: SUBSET Objects,
           world: SUBSET Objects, attached: SUBSET (Arms \X Objects)]

EmptyScene == [touch |-> {}, overlap |-> {}, world |-> {}, attached |-> {}]

\* editHandContact: the touchables against each other (an object and the octomap:
\* overlap), and against the links of the arm's hand and wrist (touch) if asked.
Contact(s, arm, touchables, allowed, links) ==
  LET pairs == IF links THEN {arm} \X touchables ELSE {}
      others == IF Map \in touchables THEN touchables \ {Map} ELSE {}
  IN IF allowed
       THEN [s EXCEPT !.touch = @ \cup pairs, !.overlap = @ \cup others]
       ELSE [s EXCEPT !.touch = @ \ pairs, !.overlap = @ \ others]

\* clearOctomap: the map's exemptions go with its voxels.
Cleared(s) ==
  [s EXCEPT !.touch = {t \in @ : t[2] # Map}, !.overlap = {}]

\* clearOctomapKeeping
ClearedKeeping(s, arm, touchables) == Contact(Cleared(s), arm, touchables, TRUE, TRUE)

\* publishCollisionObject
Published(s, object) == [s EXCEPT !.world = @ \cup {object}]

\* Slip: an attached object is not detached before it is removed.
RemovedFromWorld(s, object) == [s EXCEPT !.world = @ \ {object}]

\* removeFromScene: detached from whichever arm has it, then out of the world.
Removed(s, object) ==
  [s EXCEPT !.world = @ \ {object}, !.attached = {p \in @ : p[2] # object}]

\* The attach at the end of a grasp.
AttachedTo(s, arm, object) ==
  [s EXCEPT !.world = @ \ {object}, !.attached = @ \cup {<<arm, object>>}]

HeldBy(s, arm) == {o \in Objects : <<arm, o>> \in s.attached}
=============================================================================
