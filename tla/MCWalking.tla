----------------------------- MODULE MCWalking -----------------------------
(***************************************************************************)
(* The rooms that TLC walks in: a thing to the side with an obstacle in    *)
(* front, and a table ahead with something behind.                         *)
(***************************************************************************)
EXTENDS Walking

MCRooms ==
  {[side |-> 1, surface |-> FALSE, obstacles |-> {3}],
   [side |-> 0, surface |-> TRUE, obstacles |-> {0}]}
=============================================================================
