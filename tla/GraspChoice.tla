----------------------------- MODULE GraspChoice -----------------------------
(***************************************************************************)
(* The decisions of the manipulation server that touch nothing: how many   *)
(* grasps a pick tries, and whether a hand is gripping.                     *)
(***************************************************************************)
EXTENDS Naturals, FiniteSets, Sequences

CONSTANTS
  MaxCandidates, \* max_grasp_candidates
  GraspTries,    \* grasp_tries
  GripChecked    \* grip_check_enabled

ASSUME GraspNumbersAssumption ==
  /\ MaxCandidates \in Nat
  /\ GraspTries \in Nat \ {0}
  /\ GripChecked \in BOOLEAN

\* What the generator offers, best first: a grasp under the score bar; one that does
\* not transform, comes in too steep, or that no arm configuration reaches; one that
\* is solved at the grasp only, or at the pregrasp as well.
Grasps == {"poor", "untransformed", "tilted", "unreachable", "graspOnly", "both"}

\* The grasps of an offer that chooseGrasps looks at: up to the first poor one, to its
\* limit, and to the plan that is solved at both ends and makes them grasp_tries.
Considered(offer) ==
  {i \in DOMAIN offer :
     /\ i <= MaxCandidates
     /\ \A j \in 1..i : offer[j] # "poor"
     /\ Cardinality({j \in 1..(i - 1) : offer[j] = "both"}) < GraspTries}

Solved(offer) == {i \in Considered(offer) : offer[i] \in {"both", "graspOnly"}}

\* Slip: the grasps solved at one end are added whatever their number.
AllPlansChosen(offer) == Cardinality(Solved(offer))

\* How many plans chooseGrasps of a generated source answers: those solved at both
\* ends, then the others, no more than grasp_tries.
PlansChosen(offer) ==
  LET solved == Cardinality(Solved(offer))
  IN IF solved < GraspTries THEN solved ELSE GraspTries

-----------------------------------------------------------------------------
\* A sample of the hand: whether /joint_states carries every joint with its effort,
\* and the joints that push and stand short of their target.
HandJoints == {"thumb_0", "thumb_1", "index", "middle"}
Samples == [whole: BOOLEAN, blocked: SUBSET HandJoints]

\* fingerOf: the joint that rolls the thumb says nothing about a grip.
FingerOf(joint) == CASE joint = "thumb_0" -> ""
                     [] joint = "thumb_1" -> "thumb"
                     [] OTHER -> joint

\* verifyGrip
Pressing(sample) == {FingerOf(j) : j \in sample.blocked} \ {""}
Holding(sample) == Cardinality(Pressing(sample)) >= 2

\* isHolding with opposed: the thumb has to be among the fingers that press.
HoldsOpposed(sample) ==
  \/ ~GripChecked
  \/ sample.whole /\ Holding(sample) /\ "thumb" \in Pressing(sample)
=============================================================================
