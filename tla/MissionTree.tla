----------------------------- MODULE MissionTree -----------------------------
(***************************************************************************)
(* Behaviour trees as values, and what running one may come to.  A node is *)
(* a record with its tag and its children; a place in a tree is the path   *)
(* of child numbers that leads to it.  BehaviorTree.CPP runs the trees:    *)
(* Runs says how its control nodes compose, as the validator of missions   *)
(* counts on it.                                                           *)
(***************************************************************************)
EXTENDS Naturals, FiniteSets, Sequences, SequencesExt

CONSTANT LeafTime  \* the most seconds a learnable leaf takes

ASSUME LeafTimeAssumption == LeafTime \in Nat \ {0}

\* isControlNode
ControlTags == {"Sequence", "Fallback", "RetryUntilSuccessful", "Timeout", "ForceSuccess"}
Decorators == ControlTags \ {"Sequence", "Fallback"}

\* num is the attempts of a Retry, or the seconds of a Timeout.
Node(tag, num, kids) == [tag |-> tag, num |-> num, kids |-> kids]

\* A step: the skill it names, its step id ("" if its name has none), what its argument
\* is ("plain", "bad", "missing", or the id of the step whose output it takes), and
\* whether it hands its output on.
Step(macro, id, arg, gives) ==
  [tag |-> "SubTree", num |-> 0, kids |-> <<>>,
   macro |-> macro, id |-> id, arg |-> arg, gives |-> gives]

\* A leaf of a macro: the argument of the skill it binds, or "none".
Leaf(tag, binds) == [tag |-> tag, num |-> 0, kids |-> <<>>, binds |-> binds]

\* A macro of the library, of which only its time and what it moves matter here.
Work(secs, moves) == [tag |-> "Work", num |-> secs, kids |-> <<>>, moves |-> moves]

RECURSIVE Paths(_)
Paths(t) ==
  {<<>>} \cup UNION {{<<i>> \o p : p \in Paths(t.kids[i])} : i \in DOMAIN t.kids}

At(t, path) == FoldLeft(LAMBDA n, i : n.kids[i], t, path)

\* Document order: a node before what it holds, and before its later siblings.
Before(p, q) ==
  \/ IsStrictPrefix(p, q)
  \/ \E k \in DOMAIN p \cap DOMAIN q :
       p[k] < q[k] /\ \A j \in 1..(k - 1) : p[j] = q[j]

TagsIn(t) == {At(t, p).tag : p \in Paths(t)}

-----------------------------------------------------------------------------
\* The authority each learnable leaf needs, as the executor's configuration says.
LeafHolds == [MoveHand |-> {"arms"}, TurnBy |-> {"base"}, Wait |-> {}]

\* One way a run may go: how it ends and after how long, the outputs written by then,
\* whether a step found nothing under a key it takes or ran a skill that is not there,
\* what has moved, and whether an arm was swung with something in a hand.
Start(keys, ok) ==
  [ok |-> ok, secs |-> 0, keys |-> keys, bad |-> FALSE, moved |-> {}, swung |-> FALSE]

Then(r, s) ==
  [ok |-> s.ok, secs |-> r.secs + s.secs, keys |-> s.keys, bad |-> r.bad \/ s.bad,
   moved |-> r.moved \cup s.moved, swung |-> r.swung \/ s.swung]

Ending(keys, ok, secs, moved, swung) ==
  [Start(keys, ok) EXCEPT !.secs = secs, !.moved = moved, !.swung = swung]

\* env: the skills the tree was loaded with, and whether a hand holds something.
RECURSIVE Runs(_, _, _)

\* The kids one after the other while each ends with status ok = going.
InTurn(kids, going, env, keys) ==
  FoldLeft(LAMBDA runs, kid :
             UNION {IF r.ok = going THEN {Then(r, s) : s \in Runs(kid, env, r.keys)} ELSE {r}
                      : r \in runs},
           {Start(keys, going)}, kids)

StepRuns(t, env, keys) ==
  IF t.macro \notin DOMAIN env.skills \/ t.arg \notin keys \cup {"plain", "bad", "missing"}
    THEN {[Start(keys, FALSE) EXCEPT !.bad = TRUE]}
    ELSE {IF r.ok /\ t.gives THEN [r EXCEPT !.keys = @ \cup {t.id}] ELSE r
            : r \in Runs(env.skills[t.macro].tree, env, keys)}

LeafRuns(t, env, keys) ==
  {Ending(keys, ok, secs, LeafHolds[t.tag], env.held /\ "arms" \in LeafHolds[t.tag])
     : ok \in BOOLEAN, secs \in 1..LeafTime}

Runs(t, env, keys) ==
  CASE t.tag = "Sequence" -> InTurn(t.kids, TRUE, env, keys)
    [] t.tag = "Fallback" -> InTurn(t.kids, FALSE, env, keys)
    [] t.tag = "RetryUntilSuccessful" ->
         InTurn([i \in 1..t.num |-> t.kids[1]], FALSE, env, keys)
    [] t.tag = "Timeout" ->
         {IF r.secs <= t.num THEN r ELSE [r EXCEPT !.ok = FALSE, !.secs = t.num]
            : r \in Runs(t.kids[1], env, keys)}
    [] t.tag = "ForceSuccess" ->
         {[r EXCEPT !.ok = TRUE] : r \in Runs(t.kids[1], env, keys)}
    [] t.tag = "SubTree" -> StepRuns(t, env, keys)
    [] t.tag = "HandsEmpty" -> {Start(keys, ~env.held)}
    [] t.tag = "Work" ->
         {Ending(keys, ok, secs, t.moves, FALSE) : ok \in BOOLEAN, secs \in {1, t.num}}
    [] OTHER -> LeafRuns(t, env, keys)
=============================================================================
