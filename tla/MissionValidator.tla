--------------------------- MODULE MissionValidator ---------------------------
(***************************************************************************)
(* MissionValidator: whether the robot takes a mission, and how long that  *)
(* may take at the most.  A document is the Mission tree, the trees of its *)
(* own it defines beside it (a function from macro to skill), whether its  *)
(* model entries are the library's, and whether the hash it came with is   *)
(* its own.  Text, names' spelling and the kinds of arguments are left     *)
(* out: an argument is well formed or it is not.                           *)
(***************************************************************************)
EXTENDS MissionTree, FiniteSetsExt

CONSTANTS
  MaxDepth, MaxNodes, MaxSteps,  \* Limits
  MaxDuration                    \* max_duration_cap_s

ASSUME LimitsAssumption == {MaxDepth, MaxNodes, MaxSteps, MaxDuration} \subseteq Nat

MaxAttempts == 3

StepsOf(t) == {p \in Paths(t) : At(t, p).tag = "SubTree"}

\* walk: nodes that are neither control nodes nor steps, and malformed control nodes.
TagProblems(t) ==
  {"UNKNOWN_NODE" : p \in {q \in Paths(t) : At(t, q).tag \notin ControlTags \cup {"SubTree"}}}

ChildProblems(t) ==
  {"BAD_CHILDREN" : p \in {q \in Paths(t) :
     LET n == At(t, q) IN \/ n.tag \in Decorators /\ Len(n.kids) # 1
                          \/ n.tag \in ControlTags /\ n.kids = <<>>}}

NumberProblems(t) ==
  {"BAD_NUMBER" : p \in {q \in Paths(t) :
     LET n == At(t, q) IN \/ n.tag = "RetryUntilSuccessful" /\ n.num \notin 1..MaxAttempts
                          \/ n.tag = "Timeout" /\ n.num = 0}}

SizeProblems(t) ==
  {code \in {"TOO_MANY_NODES", "TOO_DEEP", "TOO_MANY_STEPS"} :
     \/ code = "TOO_MANY_NODES" /\ Cardinality(Paths(t)) > MaxNodes
     \/ code = "TOO_DEEP" /\ \E p \in Paths(t) : Len(p) + 1 > MaxDepth
     \/ code = "TOO_MANY_STEPS" /\ Cardinality(StepsOf(t)) > MaxSteps}

-----------------------------------------------------------------------------
\* Slip: only what a ForceSuccess holds is thought optional.
BranchesForced(t, path) ==
  {q \in Paths(t) : IsStrictPrefix(q, path) /\ At(t, q).tag = "ForceSuccess"}

\* branches_ while the node at path is walked: what may not run to its end while the
\* mission goes on, that is the ForceSuccess around it and the Fallbacks' children it
\* is in.
Branches(t, path) ==
  {q \in Paths(t) :
     \/ IsStrictPrefix(q, path) /\ At(t, q).tag = "ForceSuccess"
     \/ q # <<>> /\ IsPrefix(q, path) /\ At(t, Front(q)).tag = "Fallback"}

\* written_: the steps before path that hand on the output of the step called id.
Writers(t, id, path) ==
  {w \in StepsOf(t) : At(t, w).gives /\ At(t, w).id = id /\ Before(w, path)}

\* surelyWritten: every branch the writer may not finish in holds the reader too.
SurelyWritten(t, writer, path) == Branches(t, writer) \subseteq Branches(t, path)

\* checkReference, and the arguments that take nothing.
ArgProblems(t, path) ==
  LET arg == At(t, path).arg
      writers == Writers(t, arg, path)
  IN CASE arg = "plain" -> {}
       [] arg \in {"bad", "missing"} -> {"BAD_ARG"}
       [] OTHER -> IF \E w \in writers : SurelyWritten(t, w, path) THEN {} ELSE {"BAD_ARG"}

\* checkOutput
OutputProblems(t, skills, path) ==
  IF ~At(t, path).gives THEN {}
  ELSE IF ~skills[At(t, path).macro].output THEN {"UNKNOWN_ARG"}
  ELSE IF At(t, path).id = "" THEN {"BAD_NAME"}
  ELSE {"DUPLICATE_NAME" : w \in Writers(t, At(t, path).id, path)}

\* checkSubTree
StepProblems(t, skills, path) ==
  IF At(t, path).macro \notin DOMAIN skills
    THEN {"UNKNOWN_MACRO"}
    ELSE ArgProblems(t, path) \cup OutputProblems(t, skills, path)

-----------------------------------------------------------------------------
\* The seconds walk returns.
RECURSIVE WorstCase(_, _)

\* Slip: a Fallback takes as long as the slowest of its children.
BelowSlowest(t, skills) ==
  IF t.tag = "Fallback"
    THEN Max({WorstCase(t.kids[i], skills) : i \in DOMAIN t.kids})
    ELSE FoldLeft(LAMBDA secs, kid : secs + WorstCase(kid, skills), 0, t.kids)

Below(t, skills) ==
  FoldLeft(LAMBDA secs, kid : secs + WorstCase(kid, skills), 0, t.kids)

WorstCase(t, skills) ==
  CASE t.tag = "SubTree" -> IF t.macro \in DOMAIN skills THEN skills[t.macro].secs ELSE 0
    [] t.tag = "RetryUntilSuccessful" -> t.num * Below(t, skills)
    [] t.tag = "Timeout" -> Min({t.num, Below(t, skills)})
    [] OTHER -> Below(t, skills)

\* validate
DocumentProblems(doc) ==
  {code \in {"HASH_MISMATCH", "EXTRA_TREE", "MODEL_MISMATCH"} :
     \/ code = "HASH_MISMATCH" /\ ~doc.approved
     \/ code = "EXTRA_TREE" /\ DOMAIN doc.own # {}
     \/ code = "MODEL_MISMATCH" /\ ~doc.modelled}

TreeProblems(t, skills) ==
  TagProblems(t) \cup ChildProblems(t) \cup NumberProblems(t) \cup SizeProblems(t)
    \cup UNION {StepProblems(t, skills, p) : p \in StepsOf(t)}

Validate(doc, skills) ==
  LET worst == WorstCase(doc.tree, skills)
      problems == DocumentProblems(doc) \cup TreeProblems(doc.tree, skills)
                    \cup IF worst > MaxDuration THEN {"TOO_LONG"} ELSE {}
  IN [ok |-> problems = {},
      worst |-> worst,
      macros |-> {At(doc.tree, p).macro : p \in StepsOf(doc.tree)}]
=============================================================================
