---------------------------- MODULE LearnedSkills ----------------------------
(***************************************************************************)
(* LearnedSkills: which definitions a planner may teach, what a taught     *)
(* skill then is, and the set of skills the robot serves.                  *)
(***************************************************************************)
EXTENDS SkillStore, MissionValidator

CONSTANTS
  Library,      \* the catalog's own skills: [macro -> [secs, output, resources, tree]]
  MaxBody       \* max_learned_duration_s

ASSUME TeachingAssumption ==
  /\ \A d \in Definitions : d.secs \in Nat
  /\ MaxBody \in Nat

-----------------------------------------------------------------------------
\* BodyCheck: the problems of a body, and what its leaves need.
BodyTags == ControlTags \cup DOMAIN LeafHolds
LeavesOf(body) == {p \in Paths(body) : At(body, p).tag \in DOMAIN LeafHolds}

\* Slip: only the body's own node is looked at, not what it holds.
HoldsAtTop(body) ==
  IF body.tag \in DOMAIN LeafHolds THEN LeafHolds[body.tag] ELSE {}

\* holds_
Holds(body) == UNION {LeafHolds[At(body, p).tag] : p \in LeavesOf(body)}

\* used_
Used(body) == {At(body, p).binds : p \in LeavesOf(body)} \ {"none"}

BodyProblems(d) ==
  ChildProblems(d.body) \cup NumberProblems(d.body)
    \cup {"FORBIDDEN_NODE" : t \in TagsIn(d.body) \ BodyTags}
    \cup {"BAD_ARG" : a \in (Used(d.body) \ d.args) \cup (d.args \ Used(d.body))}
    \cup {code \in {"BAD_TIMEOUT", "TOO_DEEP", "TOO_MANY_NODES"} :
            \/ code = "BAD_TIMEOUT" /\ \E p \in Paths(d.body) :
                 At(d.body, p).tag = "Timeout" /\ At(d.body, p).num > MaxBody
            \/ code = "TOO_DEEP" /\ \E p \in Paths(d.body) : Len(p) + 1 > MaxDepth
            \/ code = "TOO_MANY_NODES" /\ Cardinality(Paths(d.body)) > MaxNodes}

\* buildLearned: its problems, given the names that are taken.
Problems(d) ==
  BodyProblems(d)
    \cup (IF d.name \in DOMAIN Library \cup BodyTags \cup {"Mission"}
            THEN {"DUPLICATE_NAME"} ELSE {})
    \cup (IF d.secs \notin 1..MaxBody THEN {"BAD_TIMEOUT"} ELSE {})

\* What the store takes is what these checks pass.
ASSUME SoundAssumption == Sound = {d \in Definitions : Problems(d) = {}}

\* macroText: the body under a Timeout of its time, and behind a check that both hands
\* are empty when it moves an arm.
MacroText(d) ==
  LET timed == Node("Timeout", d.secs, <<d.body>>)
  IN IF "arms" \in Holds(d.body)
       THEN Node("Sequence", 0, <<[tag |-> "HandsEmpty", num |-> 0, kids |-> <<>>], timed>>)
       ELSE timed

\* The catalog entry and the macro of a definition that passed.
Built(d) ==
  [secs |-> d.secs, output |-> FALSE, resources |-> Holds(d.body), tree |-> MacroText(d)]

\* all, and rebuildLocked: the set of skills served until the next change.
Current ==
  LET learned == [n \in DOMAIN kept \cup DOMAIN drafts |->
                    IF n \in DOMAIN kept THEN kept[n] ELSE drafts[n]]
  IN [m \in DOMAIN Library \cup DOMAIN learned |->
        IF m \in DOMAIN Library THEN Library[m] ELSE Built(learned[m])]
=============================================================================
