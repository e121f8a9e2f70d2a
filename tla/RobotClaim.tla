----------------------------- MODULE RobotClaim -----------------------------
(***************************************************************************)
(* What the executor promises about who uses the robot: one user at a      *)
(* time, an executed mission, a client the arms are lent to or the         *)
(* operator who drives by hand, and never a hand-over from one user to     *)
(* another without the robot being free in between.                        *)
(***************************************************************************)
CONSTANTS Users, Nobody

VARIABLE user

Init == user = Nobody

Claim(u) ==
    /\ user = Nobody
    /\ user' = u

Release ==
    /\ user # Nobody
    /\ user' = Nobody

Next == Release \/ \E u \in Users : Claim(u)

Spec == Init /\ [][Next]_user
=============================================================================
