----------------------------- MODULE MCExecutor -----------------------------
(* The executor on small instances. *)
EXTENDS MissionExecutor, TLC

CONSTANTS m1, m2, right, c1, deadman

step(skill) == <<[skill |-> skill, hand |-> right]>>

(* A pick, and a place of what the hand holds. *)
PickPlan    == m1 :> step("pick") @@ m2 :> step("place")
AllExecuted == m1 :> "EXECUTE" @@ m2 :> "EXECUTE"

(* A dry run, which may go on beside a lend, and a pick, which may not. *)
WalkPlan  == m1 :> step("walk") @@ m2 :> step("pick")
OneDryRun == m1 :> "DRY_RUN" @@ m2 :> "EXECUTE"

(* One mission, of one pick. *)
OnePlan     == m1 :> step("pick")
OneExecuted == m1 :> "EXECUTE"
=============================================================================
