------------------------------ MODULE MCMissions ------------------------------
(***************************************************************************)
(* What TLC tries: every mission of up to two levels over three steps (one *)
(* that hands an output on, one that takes it, and one of a taught skill), *)
(* and a few that run while skills are taught, replaced and forgotten.     *)
(***************************************************************************)
EXTENDS Missions

MCNames == <<"Bow", "Point">>

MCLibrary ==
  [FindInView |-> [secs |-> 2, output |-> TRUE, resources |-> {}, tree |-> Work(2, {})],
   GoToTarget |-> [secs |-> 3, output |-> FALSE, resources |-> {"base"},
                   tree |-> Work(3, {"base"})]]

Definition(name, args, body, secs) ==
  [name |-> name, args |-> args, body |-> body, secs |-> secs]

Moves(binds) == Node("RetryUntilSuccessful", 2, <<Leaf("MoveHand", binds)>>)

\* Two of one name that need different authority, one of another.
MCSound ==
  {Definition("Point", {}, Leaf("Wait", "none"), 1),
   Definition("Point", {"side"}, Node("Sequence", 0, <<Leaf("Wait", "none"), Moves("side")>>), 3),
   Definition("Bow", {}, Leaf("TurnBy", "none"), 2)}

\* One that binds no argument it declares, one with a leaf that is not learnable, and one
\* with a Timeout past the most a taught skill may take.
MCDefinitions ==
  MCSound \cup {Definition("Bow", {"side"}, Moves("none"), 2),
               Definition("Bow", {}, Work(1, {"arms"}), 1),
               Definition("Bow", {}, Node("Timeout", 5, <<Leaf("TurnBy", "none")>>), 2)}

\* Whole and broken files of the skills' names; and one that a check refuses, or that is
\* of another skill than the one it is named for.
MCFolders ==
  {f \in UNION {[on -> MCSound \cup {Half}] : on \in SUBSET Learnt} :
     \A n \in DOMAIN f : f[n].name \in {n, ""}}
    \cup [{"Bow"} -> {d \in MCDefinitions : d.name = "Point" \/ d \notin MCSound}]

Find == Step("FindInView", "s1", "plain", TRUE)
Go == Step("GoToTarget", "s2", "s1", FALSE)
Wave == Step("Point", "s3", "plain", FALSE)

Steps == {Find, Go, Step("GoToTarget", "s3", "plain", FALSE)}

Pairs(tag, one, other) == {Node(tag, 0, <<a, b>>) : a \in one, b \in other}
Wraps(some) ==
  {Node("RetryUntilSuccessful", 2, <<a>>) : a \in some}
    \cup {Node("Timeout", 4, <<a>>) : a \in some}
    \cup {Node("ForceSuccess", 0, <<a>>) : a \in some}

Shallow == Pairs("Sequence", Steps, Steps) \cup Pairs("Fallback", Steps, Steps) \cup Wraps(Steps)
Some == Steps \cup Shallow
Deep == Pairs("Sequence", Some, Some) \cup Pairs("Fallback", Some, Some) \cup Wraps(Some)

Document(tree) == [tree |-> tree, own |-> [m \in {} |-> Find], modelled |-> TRUE, approved |-> TRUE]

MCTaught ==
  {Document(Wave), Document(Node("Sequence", 0, <<Find, Wave>>)),
   [Document(Wave) EXCEPT !.approved = FALSE],
   [Document(Wave) EXCEPT !.own = [Point |->
      [secs |-> 1, output |-> FALSE, resources |-> {}, tree |-> Leaf("MoveHand", "none")]]]}

MCPlans == MCTaught \cup {Document(t) : t \in Deep}
=============================================================================
