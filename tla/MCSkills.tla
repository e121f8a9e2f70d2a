------------------------------ MODULE MCSkills ------------------------------
(***************************************************************************)
(* The offers of the grasp generator that TLC tries: none that is usable,  *)
(* more than a pick may try, and one that scores too low before the best.  *)
(***************************************************************************)
EXTENDS ManipulationSkills

MCOffers ==
  {<<>>, <<"tilted", "unreachable">>, <<"both", "poor", "both">>,
   <<"graspOnly", "graspOnly", "both", "graspOnly">>}
=============================================================================
