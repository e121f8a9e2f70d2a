----------------------------- MODULE SkillStore -----------------------------
(***************************************************************************)
(* What LearnedSkills and Repertoire hold: the skills a planner teaches,   *)
(* drafts in memory and kept ones in a file each.  The repertoire's mutex  *)
(* is held from the first check of a definition to its commit, with the    *)
(* writing of its file in between; the process may die at any point.       *)
(* Which definitions pass their checks is LearnedSkills' to say.           *)
(***************************************************************************)
EXTENDS Naturals, FiniteSets, Sequences

CONSTANTS
  Names,        \* names a skill is taught under, in the order of their files
  Definitions,  \* what may be taught, each under its name
  Sound,        \* of them, those that pass every check
  Folders,      \* what the folder may hold at the first start
  MaxSkills     \* max_learned_skills

Learnt == {Names[i] : i \in DOMAIN Names}

\* A file cut short: it does not parse, so it names no skill.
Half == [name |-> ""]

ASSUME StoreAssumption ==
  /\ Names \in Seq(Learnt) /\ "" \notin Learnt
  /\ \A d \in Definitions : d.name \in Learnt
  /\ Sound \subseteq Definitions
  /\ Folders \subseteq UNION {[on -> Definitions \cup {Half}] : on \in SUBSET Learnt}
  /\ MaxSkills \in Nat

VARIABLES
  up,      \* whether the executor runs
  kept,    \* kept_: name to definition
  drafts,  \* drafts_
  files,   \* the folder: name to definition, of which only "half" may be there
  edit,    \* the define that holds the mutex
  told,    \* history: what the planner was told is kept
  gone,    \* history: names whose file was removed, and not taught to keep since
  trying,  \* history: definitions whose keeping a crash cut short, not settled since
  cut      \* history: names whose file is a short one that the last rename put there

learnVars == <<up, kept, drafts, files, edit, told, gone, trying, cut>>

NoEdit == [pc |-> "none"]
Empty == [n \in {} |-> Half]

Without(f, name) == [n \in DOMAIN f \ {name} |-> f[n]]
With(f, name, value) == [n \in DOMAIN f \cup {name} |-> IF n = name THEN value ELSE f[n]]
Others(name) == {d \in trying : d.name # name}

-----------------------------------------------------------------------------
\* The files that load would take, however many: each of a skill that passes its checks
\* and that the file is named for.
Good(folder) == {n \in DOMAIN folder : folder[n] \in Sound /\ folder[n].name = n}

Position(name) == CHOOSE i \in DOMAIN Names : Names[i] = name
Ahead(folder, name) == {n \in Good(folder) : Position(n) < Position(name)}

\* What the loop of load takes, in the order of the files' names and until it is full.
Loaded(folder) ==
  [n \in {m \in Good(folder) : Cardinality(Ahead(folder, m)) < MaxSkills} |-> folder[n]]

\* The constructor: the repertoire is loaded from the folder.
Boot ==
  /\ ~up
  /\ up' = TRUE
  /\ kept' = Loaded(files)
  /\ UNCHANGED <<drafts, files, edit, told, gone, trying, cut>>

\* The process dies: what it held in memory goes.
Crash ==
  /\ up
  /\ up' = FALSE
  /\ kept' = Empty
  /\ drafts' = Empty
  /\ edit' = NoEdit
  /\ trying' = IF edit.pc = "none" THEN trying ELSE trying \cup {edit.d}
  /\ UNCHANGED <<files, told, gone, cut>>

Free == up /\ edit.pc = "none"

\* Slip: drafts are not counted against the most the robot may hold.
RefusedUncounted(d, keep) ==
  \/ d \notin Sound
  \/ ~keep /\ d.name \in DOMAIN kept
  \/ d.name \notin DOMAIN kept \cup DOMAIN drafts /\ Cardinality(DOMAIN kept) >= MaxSkills

\* define, up to where a draft is committed and a kept skill's file is written.
Refused(d, keep) ==
  \/ d \notin Sound
  \/ ~keep /\ d.name \in DOMAIN kept
  \/ /\ d.name \notin DOMAIN kept \cup DOMAIN drafts
     /\ Cardinality(DOMAIN kept) + Cardinality(DOMAIN drafts) >= MaxSkills

DefineDraft(d) ==
  /\ Free
  /\ ~Refused(d, FALSE)
  /\ drafts' = With(drafts, d.name, d)
  /\ UNCHANGED <<up, kept, files, edit, told, gone, trying, cut>>

DefineKept(d) ==
  /\ Free
  /\ ~Refused(d, TRUE)
  /\ edit' = [pc |-> "write", d |-> d, whole |-> TRUE]
  /\ UNCHANGED <<up, kept, drafts, files, told, gone, trying, cut>>

\* Slip: the file is written in its place.
WriteTempInPlace ==
  /\ edit.pc = "write"
  /\ \E done \in BOOLEAN :
       edit' = IF done THEN [edit EXCEPT !.pc = "rename"] ELSE NoEdit
  /\ files' = With(files, edit.d.name, Half)
  /\ UNCHANGED <<up, kept, drafts, told, gone, trying, cut>>

\* The definition goes to <name>.json.tmp, which load does not read; a write that is seen
\* to fail removes it and ends the define.  What fails when the stream is closed is not
\* seen: the file is short, and the define goes on.
WriteTemp ==
  /\ edit.pc = "write"
  /\ \/ edit' = NoEdit
     \/ \E whole \in BOOLEAN : edit' = [pc |-> "rename", d |-> edit.d, whole |-> whole]
  /\ UNCHANGED <<up, kept, drafts, files, told, gone, trying, cut>>

Rename ==
  /\ edit.pc = "rename"
  /\ \/ /\ edit' = NoEdit
        /\ UNCHANGED <<files, cut>>
     \/ /\ edit' = [edit EXCEPT !.pc = "commit"]
        /\ files' = With(files, edit.d.name, IF edit.whole THEN edit.d ELSE Half)
        /\ cut' = IF edit.whole THEN cut \ {edit.d.name} ELSE cut \cup {edit.d.name}
  /\ UNCHANGED <<up, kept, drafts, told, gone, trying>>

\* The end of define, and its answer.
Commit ==
  /\ edit.pc = "commit"
  /\ drafts' = Without(drafts, edit.d.name)
  /\ kept' = With(kept, edit.d.name, edit.d)
  /\ told' = With(told, edit.d.name, edit.d)
  /\ gone' = gone \ {edit.d.name}
  /\ trying' = Others(edit.d.name)
  /\ edit' = NoEdit
  /\ UNCHANGED <<up, files, cut>>

\* Slip: the file goes only when this run held the skill as kept.
ForgetHeld(name) ==
  /\ Free
  /\ name \in DOMAIN kept \cup DOMAIN drafts \cup DOMAIN files
  /\ kept' = Without(kept, name)
  /\ drafts' = Without(drafts, name)
  /\ files' = IF name \in DOMAIN kept THEN Without(files, name) ELSE files
  /\ cut' = IF name \in DOMAIN kept THEN cut \ {name} ELSE cut
  /\ told' = Without(told, name)
  /\ gone' = gone \cup {name}
  /\ trying' = Others(name)
  /\ UNCHANGED <<up, edit>>

\* forget: whatever this run held, the file goes.  An error of its removal is ignored:
\* the file stays, and the answer says forgotten only if this run held the skill.
Forget(name) ==
  /\ Free
  /\ name \in DOMAIN kept \cup DOMAIN drafts \cup DOMAIN files
  /\ kept' = Without(kept, name)
  /\ drafts' = Without(drafts, name)
  /\ \/ /\ files' = Without(files, name)
        /\ cut' = cut \ {name}
        /\ told' = Without(told, name)
        /\ gone' = gone \cup {name}
        /\ trying' = Others(name)
     \/ /\ name \in DOMAIN files
        /\ told' = IF name \in DOMAIN kept \cup DOMAIN drafts THEN Without(told, name) ELSE told
        /\ UNCHANGED <<files, gone, trying, cut>>
  /\ UNCHANGED <<up, edit>>

LearnInit ==
  /\ up = FALSE
  /\ kept = Empty /\ drafts = Empty
  /\ files \in Folders
  /\ edit = NoEdit
  /\ told = Loaded(files)
  /\ gone = {} /\ trying = {} /\ cut = {}

\* What onDefineSkill and onForgetSkill do, step by step.
Edit ==
  \/ \E d \in Definitions : DefineDraft(d) \/ DefineKept(d)
  \/ WriteTemp
  \/ Rename
  \/ Commit
  \/ \E name \in Learnt : Forget(name)

StoreNext == Boot \/ Crash \/ Edit

StoreSpec == LearnInit /\ [][StoreNext]_learnVars

-----------------------------------------------------------------------------
\* No skill is a draft and kept at once, there are never more than the robot may hold,
\* each is under its own name and passed its checks, and what is kept has its file,
\* whole unless its writing failed unseen, as define and forget of learned_skills.cpp
\* leave them.
LearnedTypeOK ==
  /\ up \in BOOLEAN
  /\ DOMAIN kept \cap DOMAIN drafts = {}
  /\ Cardinality(DOMAIN kept) + Cardinality(DOMAIN drafts) <= MaxSkills
  /\ \A n \in DOMAIN kept : kept[n] \in Sound /\ kept[n].name = n
  /\ \A n \in DOMAIN drafts : drafts[n] \in Sound /\ drafts[n].name = n
  /\ DOMAIN kept \cup cut \subseteq DOMAIN files
  /\ \A n \in DOMAIN kept \ cut : edit.pc # "commit" => files[n] = kept[n]
  /\ edit.pc \in {"none", "write", "rename", "commit"}

\* A restart, after a crash at any point of a define, serves every skill the planner
\* was told is kept, as it was taught or as it was being taught again; unless the
\* folder holds more than the robot may, or the skill's file was written short unseen.
KeptSkillsReturn ==
  [][~up /\ up' /\ Cardinality(DOMAIN files) <= MaxSkills
       => \A n \in DOMAIN told \ cut :
            n \in DOMAIN kept' /\ kept'[n] \in {told[n]} \cup trying]_learnVars

\* A skill whose file was removed is not there after a restart, unless it was being
\* taught again when the executor died.
ForgottenStaysGone ==
  [][~up /\ up' => gone \cap DOMAIN kept' \subseteq {d.name : d \in trying}]_learnVars
=============================================================================
