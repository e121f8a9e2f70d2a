------------------------------- MODULE Missions -------------------------------
(***************************************************************************)
(* The executor between a mission's text and its running, while skills are *)
(* taught and forgotten: execute takes the repertoire as it is, checks the *)
(* mission against it, takes the authority the skills name and runs the    *)
(* tree with the skills it was checked against.                            *)
(***************************************************************************)
EXTENDS LearnedSkills

CONSTANTS
  Plans,   \* the documents a planner may send: [tree, own, modelled, approved]
  Taught   \* of them, those it teaches skills for meanwhile

ASSUME PlansAssumption == Taught \subseteq Plans

VARIABLES
  plan,    \* the document the planner has, and sends
  held,    \* whether a hand holds something
  mission  \* the mission the executor runs

vars == <<learnVars, plan, held, mission>>

NoMission == [pc |-> "none"]

Teaching == plan \in Taught
MissionWaits == UNCHANGED <<plan, held, mission>>

Teach ==
  /\ Teaching
  /\ Edit
  /\ MissionWaits

StartUp == Boot /\ MissionWaits

Die ==
  /\ Teaching
  /\ Crash
  /\ mission' = NoMission
  /\ UNCHANGED <<plan, held>>

\* takeAuthority: what the skills the mission names say they need.
Needs(macros, skills) == UNION {skills[m].resources : m \in macros}

\* BehaviorTree.CPP would take a tree of the document for a skill's.
InTree(doc, skills) ==
  [m \in DOMAIN skills |-> IF m \in DOMAIN doc.own THEN doc.own[m] ELSE skills[m]]

\* execute, up to where the tree is loaded and the authority taken.
Execute ==
  LET skills == Current
      validation == Validate(plan, skills)
  IN /\ Free
     /\ mission.pc = "none"
     /\ mission' = IF validation.ok
                     THEN [pc |-> "taken", skills |-> InTree(plan, skills),
                           takes |-> Needs(validation.macros, skills),
                           limit |-> validation.worst]
                     ELSE [pc |-> "rejected"]
     /\ UNCHANGED <<learnVars, plan, held>>

\* Slip: the tree is run with the skills the robot knows by then.
RunNow ==
  /\ up
  /\ mission.pc = "taken"
  /\ \E r \in Runs(plan.tree, [skills |-> InTree(plan, Current), held |-> held], {}) :
       mission' = [pc |-> "ran", takes |-> mission.takes, limit |-> mission.limit, run |-> r]
  /\ UNCHANGED <<learnVars, plan, held>>

\* The tree runs, to an end of its own.
Run ==
  /\ up
  /\ mission.pc = "taken"
  /\ \E r \in Runs(plan.tree, [skills |-> mission.skills, held |-> held], {}) :
       mission' = [pc |-> "ran", takes |-> mission.takes, limit |-> mission.limit, run |-> r]
  /\ UNCHANGED <<learnVars, plan, held>>

Finish ==
  /\ up
  /\ mission.pc \in {"ran", "rejected"}
  /\ mission' = NoMission
  /\ UNCHANGED <<learnVars, plan, held>>

Init ==
  /\ LearnInit
  /\ plan \in Plans
  /\ plan \notin Taught => files = Empty
  /\ held \in BOOLEAN
  /\ mission = NoMission

Next == StartUp \/ Die \/ Teach \/ Execute \/ Run \/ Finish

Spec == Init /\ [][Next]_vars

-----------------------------------------------------------------------------
\* A mission that was let run never takes an output nobody handed on, nor names a
\* skill that is not there, however its steps end: what surelyWritten of the
\* validator promises of retries, fallbacks and forced successes.
ReadsAreWritten == mission.pc = "ran" => ~mission.run.bad

\* No run of a mission the robot took outlasts the worst case the watchdog is set
\* from, so none is cut off while it still works: walk's sum against the tree's ways.
WithinItsTime == mission.pc = "ran" => mission.run.secs <= mission.limit

\* What moves was taken: a mission moves the base and the arms only if the executor
\* took them for it, whatever the skills in it are taught to be meanwhile, and no
\* taught skill swings an arm while a hand holds something.
MovesWhatItTook ==
  mission.pc = "ran" => mission.run.moved \subseteq mission.takes /\ ~mission.run.swung
=============================================================================
