-------------------------- MODULE SkillStore_proofs --------------------------
(***************************************************************************)
(* What holds of the learned skills, for any names, definitions, folders   *)
(* and bound: the executor never holds more than it may, a restart serves  *)
(* what the planner was told is kept, and nothing it had removed.          *)
(***************************************************************************)
EXTENDS SkillStore, FiniteSetTheorems, WellFoundedInduction, TLAPS

(***************************************************************************)
(* What load takes of a folder                                             *)
(***************************************************************************)
(* What the assumption says of the bound and of the order of the files. *)
LEMMA MaxIsNat == MaxSkills \in Nat
BY StoreAssumption DEF StoreAssumption

LEMMA NamesInOrder == Len(Names) \in Nat /\ DOMAIN Names = 1..Len(Names)
<1>1. Names \in Seq(Learnt)
  BY StoreAssumption DEF StoreAssumption
<1> QED
  BY <1>1

(* The files of the names have an order. *)
LEMMA PositionType ==
  ASSUME NEW n \in Learnt
  PROVE  /\ Position(n) \in DOMAIN Names /\ Position(n) \in Nat
         /\ Names[Position(n)] = n
<1>1. \E i \in DOMAIN Names : Names[i] = n
  BY DEF Learnt
<1>2. Position(n) \in DOMAIN Names /\ Names[Position(n)] = n
  BY <1>1 DEF Position
<1>3. DOMAIN Names \subseteq Nat
  BY NamesInOrder
<1> QED
  BY <1>2, <1>3

(* There are finitely many names. *)
LEMMA LearntFinite == IsFiniteSet(Learnt)
<1> DEFINE place == [n \in Learnt |-> Position(n)]
<1>1. Len(Names) \in Nat /\ DOMAIN Names = 1..Len(Names)
  BY NamesInOrder
<1>2. IsFiniteSet(1..Len(Names))
  BY <1>1, FS_Interval
<1>3. place \in [Learnt -> 1..Len(Names)]
  BY <1>1, PositionType
<1>4. \A m, n \in Learnt : place[m] = place[n] => m = n
  BY PositionType
<1>5. place \in Injection(Learnt, 1..Len(Names))
  BY <1>3, <1>4 DEF Injection, IsInjective
<1> QED
  BY <1>2, <1>5, FS_Injection

(* Some name of a set of them is the last in the order of their files. *)
LEMMA LastName ==
  ASSUME NEW S \in SUBSET Learnt, S # {}
  PROVE  \E m \in S : \A n \in S : Position(n) <= Position(m)
<1> DEFINE After(m) == {k \in S : Position(k) > Position(m)}
           Tails == {After(m) : m \in S}
<1>1. \A m \in S : Position(m) \in Nat
  BY PositionType
<1>2. Tails \subseteq FiniteSubsetsOf(Learnt)
  <2>1. \A m \in S : After(m) \in SUBSET Learnt
    OBVIOUS
  <2>2. \A m \in S : IsFiniteSet(After(m))
    BY <2>1, LearntFinite, FS_Subset
  <2> QED
    BY <2>1, <2>2 DEF FiniteSubsetsOf
<1>3. Tails # {}
  OBVIOUS
<1>4. PICK x \in Tails : \A y \in Tails : ~ (<<y, x>> \in StrictSubsetOrdering(Learnt))
  <2>1. IsWellFoundedOn(StrictSubsetOrdering(Learnt), FiniteSubsetsOf(Learnt))
    BY FS_StrictSubsetOrderingWellFounded
  <2> HIDE DEF Tails
  <2> QED
    BY <1>2, <1>3, <2>1, WFMin
<1>5. PICK m \in S : x = After(m)
  OBVIOUS
<1>6. ASSUME NEW n \in S, ~(Position(n) <= Position(m)) PROVE FALSE
  <2>1. Position(n) > Position(m)
    BY <1>1, <1>6
  <2>2. After(n) \subseteq After(m)
    BY <1>1, <2>1
  <2>3. n \in After(m) /\ n \notin After(n)
    BY <1>1, <2>1
  <2>4. <<After(n), After(m)>> \in StrictSubsetOrdering(Learnt)
    BY <2>2, <2>3 DEF StrictSubsetOrdering
  <2> QED
    BY <1>4, <1>5, <2>4
<1> QED
  BY <1>6

(* What is loaded is good, and as its file says. *)
LEMMA LoadedType ==
  ASSUME NEW folder, DOMAIN folder \subseteq Learnt
  PROVE  /\ DOMAIN Loaded(folder) \subseteq DOMAIN folder
         /\ Loaded(folder) \in [DOMAIN Loaded(folder) -> Sound]
         /\ \A n \in DOMAIN Loaded(folder) :
              Loaded(folder)[n] = folder[n] /\ folder[n] \in Sound /\ folder[n].name = n
BY DEF Loaded, Good

(* No more is loaded than the robot may hold. *)
LEMMA LoadedFits ==
  ASSUME NEW folder, DOMAIN folder \subseteq Learnt
  PROVE  /\ IsFiniteSet(DOMAIN Loaded(folder))
         /\ Cardinality(DOMAIN Loaded(folder)) <= MaxSkills
<1> DEFINE on == DOMAIN Loaded(folder)
<1>1. on \in SUBSET Learnt /\ on \subseteq Good(folder)
  BY DEF Loaded, Good
<1>2. IsFiniteSet(on)
  BY <1>1, LearntFinite, FS_Subset
<1>3. CASE on = {}
  BY <1>2, <1>3, FS_EmptySet, MaxIsNat
<1>4. CASE on # {}
  <2>1. PICK m \in on : \A n \in on : Position(n) <= Position(m)
    <3> HIDE DEF on
    <3> QED
      BY <1>1, <1>4, LastName
  <2> DEFINE ahead == Ahead(folder, m)
  <2>2. IsFiniteSet(ahead) /\ Cardinality(ahead) \in Nat
    <3>1. ahead \in SUBSET Learnt
      BY DEF Ahead, Good
    <3> QED
      BY <3>1, LearntFinite, FS_Subset, FS_CardinalityType
  <2>3. on \subseteq ahead \cup {m}
    <3> SUFFICES ASSUME NEW n \in on, n # m PROVE n \in ahead
      OBVIOUS
    <3>1. Position(n) # Position(m) /\ Position(n) \in Nat /\ Position(m) \in Nat
      BY <1>1, PositionType
    <3>2. Position(n) < Position(m)
      BY <2>1, <3>1
    <3> QED
      BY <1>1, <3>2 DEF Ahead
  <2>4. Cardinality(ahead) < MaxSkills
    BY DEF Loaded
  <2>5. IsFiniteSet(ahead \cup {m}) /\ Cardinality(ahead \cup {m}) <= Cardinality(ahead) + 1
    <3> HIDE DEF ahead
    <3>1. /\ IsFiniteSet(ahead \cup {m})
          /\ Cardinality(ahead \cup {m}) = IF m \in ahead THEN Cardinality(ahead) ELSE Cardinality(ahead) + 1
      BY <2>2, FS_AddElement, Zenon
    <3> QED
      BY <2>2, <3>1
  <2>6. Cardinality(on) <= Cardinality(ahead \cup {m})
    <3> HIDE DEF ahead, on
    <3> QED
      BY <2>3, <2>5, FS_Subset
  <2>7. Cardinality(on) \in Nat /\ Cardinality(ahead \cup {m}) \in Nat
    BY <1>2, <2>5, FS_CardinalityType
  <2> QED
    BY <1>2, <2>2, <2>4, <2>5, <2>6, <2>7, MaxIsNat
<1> QED
  BY <1>3, <1>4

(* A folder that holds no more than the robot may is loaded whole. *)
LEMMA LoadedWhole ==
  ASSUME NEW folder, DOMAIN folder \subseteq Learnt, Cardinality(DOMAIN folder) <= MaxSkills,
         NEW n \in Good(folder)
  PROVE  n \in DOMAIN Loaded(folder)
<1> DEFINE ahead == Ahead(folder, n)
           rest == DOMAIN folder \ {n}
<1>1. IsFiniteSet(DOMAIN folder) /\ Cardinality(DOMAIN folder) \in Nat
  BY LearntFinite, FS_Subset, FS_CardinalityType
<1>2. n \in DOMAIN folder
  BY DEF Good
<1>3. IsFiniteSet(rest) /\ Cardinality(rest) = Cardinality(DOMAIN folder) - 1
  BY <1>1, <1>2, FS_RemoveElement
<1>4. ahead \subseteq rest
  <2>1. Position(n) \in Nat
    BY <1>2, PositionType
  <2>2. n \notin ahead
    BY <2>1 DEF Ahead
  <2> QED
    BY <2>2 DEF Ahead, Good
<1>5. Cardinality(ahead) <= Cardinality(rest) /\ Cardinality(ahead) \in Nat
  <2> HIDE DEF ahead, rest
  <2> QED
    BY <1>3, <1>4, FS_Subset, FS_CardinalityType
<1>6. Cardinality(ahead) < MaxSkills
  BY <1>1, <1>3, <1>5, MaxIsNat
<1> QED
  BY <1>6 DEF Loaded

(***************************************************************************)
(* The invariant                                                           *)
(***************************************************************************)
Defined(f) == DOMAIN f \subseteq Learnt /\ f \in [DOMAIN f -> Sound]

StoreTypes ==
  /\ up \in BOOLEAN
  /\ Defined(kept) /\ Defined(drafts) /\ Defined(told)
  /\ DOMAIN files \subseteq Learnt
  /\ gone \subseteq Learnt /\ trying \subseteq Sound /\ cut \subseteq DOMAIN files
  /\ edit \in {NoEdit} \cup [pc : {"write", "rename", "commit"}, d : Sound, whole : BOOLEAN]

Held == DOMAIN kept \cup DOMAIN drafts

(* Draft or kept, under its own name, and room for the one that is being kept. *)
HeldInv ==
  /\ DOMAIN kept \cap DOMAIN drafts = {}
  /\ \A n \in DOMAIN kept : kept[n].name = n
  /\ \A n \in DOMAIN drafts : drafts[n].name = n
  /\ Cardinality(Held) <= MaxSkills
  /\ edit.pc # "none" => Cardinality(Held \cup {edit.d.name}) <= MaxSkills

(* Nothing is held in memory while the executor is down. *)
DownInv == ~up => kept = Empty /\ drafts = Empty /\ edit = NoEdit

(* What has its file already and is not committed yet. *)
Renamed == IF edit.pc = "commit" THEN {edit.d} ELSE {}

(* The file of a skill, and the definitions it may hold. *)
FileOf(n, allowed) == n \in DOMAIN files /\ files[n].name = n /\ files[n] \in allowed

(* What the files hold of the kept skills, the told ones and the forgotten, but for those *)
(* that were written short.                                                               *)
FilesInv ==
  /\ \A n \in DOMAIN kept \ cut : FileOf(n, {kept[n]} \cup Renamed)
  /\ \A d \in Renamed : d.name \notin cut => FileOf(d.name, {d})
  /\ \A n \in DOMAIN told \ cut : FileOf(n, ({told[n]} \cup trying \cup Renamed) \cap Sound)
  /\ \A n \in gone \cap DOMAIN files : \E d \in trying \cup Renamed : d.name = n

StoreInv == StoreTypes /\ HeldInv /\ DownInv /\ FilesInv

(***************************************************************************)
(* It holds at first, and every step keeps it                              *)
(***************************************************************************)
(* Sound definitions have a skill's name, which a broken file has not. *)
LEMMA SoundNames == \A d \in Sound : d.name \in Learnt
BY StoreAssumption DEF StoreAssumption

LEMMA FoldersType == \A f \in Folders : DOMAIN f \subseteq Learnt
BY StoreAssumption DEF StoreAssumption

(* Sets of names are finite, and a smaller one has no more. *)
LEMMA FewerNames ==
  ASSUME NEW S \in SUBSET Learnt, NEW T \in SUBSET S
  PROVE  /\ Cardinality(T) \in Nat /\ Cardinality(S) \in Nat
         /\ Cardinality(T) <= Cardinality(S)
<1>1. IsFiniteSet(S) /\ IsFiniteSet(T)
  BY LearntFinite, FS_Subset
<1> QED
  BY <1>1, FS_Subset, FS_CardinalityType

(* Held skills are counted once each. *)
LEMMA HeldCount ==
  ASSUME StoreTypes, HeldInv
  PROVE  Cardinality(Held) = Cardinality(DOMAIN kept) + Cardinality(DOMAIN drafts)
<1>1. DOMAIN kept \in SUBSET Learnt /\ DOMAIN drafts \in SUBSET Learnt
  BY DEF StoreTypes, Defined
<1>2. IsFiniteSet(DOMAIN kept) /\ IsFiniteSet(DOMAIN drafts)
  BY <1>1, LearntFinite, FS_Subset
<1>3. Cardinality(DOMAIN kept) \in Nat /\ Cardinality(DOMAIN drafts) \in Nat
  BY <1>2, FS_CardinalityType
<1>4. Cardinality(DOMAIN kept \cap DOMAIN drafts) = 0
  BY FS_EmptySet DEF HeldInv
<1>5. Cardinality(DOMAIN kept \cup DOMAIN drafts) =
        Cardinality(DOMAIN kept) + Cardinality(DOMAIN drafts) - Cardinality(DOMAIN kept \cap DOMAIN drafts)
  BY <1>2, FS_Union
<1> QED
  BY <1>3, <1>4, <1>5 DEF Held

(* What is not refused has room. *)
LEMMA RoomForIt ==
  ASSUME StoreTypes, HeldInv, NEW d, NEW keep, ~Refused(d, keep)
  PROVE  Cardinality(Held \cup {d.name}) <= MaxSkills
<1>1. Held \in SUBSET Learnt
  BY DEF StoreTypes, Defined, Held
<1>2. IsFiniteSet(Held) /\ Cardinality(Held) \in Nat
  BY <1>1, LearntFinite, FS_Subset, FS_CardinalityType
<1>3. CASE d.name \in Held
  <2>1. Held \cup {d.name} = Held
    BY <1>3
  <2> QED
    BY <2>1 DEF HeldInv
<1>4. CASE d.name \notin Held
  <2>1. ~(Cardinality(DOMAIN kept) + Cardinality(DOMAIN drafts) >= MaxSkills)
    BY <1>4 DEF Refused, Held
  <2>2. Cardinality(Held) < MaxSkills
    BY <1>2, <2>1, HeldCount, MaxIsNat
  <2>3. Cardinality(Held \cup {d.name}) = Cardinality(Held) + 1
    BY <1>2, <1>4, FS_AddElement
  <2> QED
    BY <1>2, <2>2, <2>3, MaxIsNat
<1> QED
  BY <1>3, <1>4

LEMMA StoreAtFirst == LearnInit => StoreInv
<1> SUFFICES ASSUME LearnInit PROVE StoreInv
  OBVIOUS
<1>1. DOMAIN files \subseteq Learnt
  BY FoldersType DEF LearnInit
<1>2. StoreTypes
  BY <1>1, LoadedType DEF LearnInit, StoreTypes, Defined, Empty
<1>3. HeldInv
  <2>1. Held = {} /\ Cardinality(Held) = 0
    BY FS_EmptySet DEF LearnInit, Held, Empty
  <2> QED
    BY <2>1, MaxIsNat DEF LearnInit, HeldInv, Empty, NoEdit
<1>4. DownInv
  BY DEF LearnInit, DownInv
<1>5. FilesInv
  BY <1>1, LoadedType DEF LearnInit, FilesInv, FileOf, Renamed, Empty, NoEdit
<1> QED
  BY <1>2, <1>3, <1>4, <1>5 DEF StoreInv

(* A start loads what the folder holds. *)
LEMMA BootKeeps ==
  ASSUME StoreInv, Boot
  PROVE  StoreInv'
<1>1. DOMAIN files \subseteq Learnt
  BY DEF StoreInv, StoreTypes
<1>2. StoreTypes'
  BY <1>1, LoadedType DEF StoreInv, StoreTypes, Defined, Boot
<1>3. drafts = Empty /\ edit = NoEdit
  BY DEF StoreInv, DownInv, Boot
<1>4. HeldInv'
  <2>1. Held' = DOMAIN Loaded(files)
    BY <1>3 DEF Held, Boot, Empty
  <2>2. Cardinality(Held') <= MaxSkills
    BY <1>1, <2>1, LoadedFits
  <2> QED
    BY <1>1, <1>3, <2>2, LoadedType DEF HeldInv, Boot, Empty, NoEdit
<1>5. DownInv'
  BY DEF DownInv, Boot
<1>6. FilesInv'
  BY <1>1, <1>3, LoadedType DEF StoreInv, FilesInv, FileOf, Renamed, Boot, NoEdit
<1> QED
  BY <1>2, <1>4, <1>5, <1>6 DEF StoreInv

(* A death loses what is in memory, and what was being kept stays on trial. *)
LEMMA CrashKeeps ==
  ASSUME StoreInv, Crash
  PROVE  StoreInv'
<1>1. edit \in {NoEdit} \cup [pc : {"write", "rename", "commit"}, d : Sound, whole : BOOLEAN]
  BY DEF StoreInv, StoreTypes
<1>2. trying \cup Renamed \subseteq trying' /\ Renamed' = {}
  BY DEF Crash, Renamed, NoEdit
<1>3. StoreTypes'
  <2>1. trying' \subseteq Sound
    BY <1>1 DEF StoreInv, StoreTypes, Crash, NoEdit
  <2> QED
    BY <2>1 DEF StoreInv, StoreTypes, Defined, Crash, Empty
<1>4. HeldInv'
  <2>1. Held' = {} /\ Cardinality(Held') = 0
    BY FS_EmptySet DEF Crash, Held, Empty
  <2> QED
    BY <2>1, MaxIsNat DEF Crash, HeldInv, Empty, NoEdit
<1>5. DownInv'
  BY DEF DownInv, Crash
<1>6. FilesInv'
  BY <1>2 DEF StoreInv, FilesInv, FileOf, Crash, Empty
<1> QED
  BY <1>3, <1>4, <1>5, <1>6 DEF StoreInv

LEMMA DefineDraftKeeps ==
  ASSUME StoreInv, NEW d \in Definitions, DefineDraft(d)
  PROVE  StoreInv'
<1>1. d \in Sound /\ d.name \in Learnt /\ d.name \notin DOMAIN kept
  BY SoundNames DEF DefineDraft, Refused
<1>2. StoreTypes'
  BY <1>1 DEF StoreInv, StoreTypes, Defined, DefineDraft, With
<1>3. HeldInv'
  <2>1. Held' = Held \cup {d.name}
    BY DEF Held, DefineDraft, With
  <2>2. Cardinality(Held') <= MaxSkills
    BY <2>1, RoomForIt DEF StoreInv, DefineDraft
  <2> QED
    BY <1>1, <2>2 DEF StoreInv, HeldInv, DefineDraft, Free, With
<1>4. DownInv'
  BY DEF DownInv, DefineDraft, Free
<1>5. FilesInv'
  BY DEF StoreInv, FilesInv, FileOf, Renamed, DefineDraft
<1> QED
  BY <1>2, <1>3, <1>4, <1>5 DEF StoreInv

LEMMA DefineKeptKeeps ==
  ASSUME StoreInv, NEW d \in Definitions, DefineKept(d)
  PROVE  StoreInv'
<1>1. d \in Sound
  BY DEF DefineKept, Refused
<1>2. Renamed = {} /\ Renamed' = {}
  BY DEF DefineKept, Free, Renamed
<1>3. StoreTypes'
  BY <1>1 DEF StoreInv, StoreTypes, Defined, DefineKept
<1>4. HeldInv'
  <2>1. Held' = Held /\ edit'.d = d
    BY DEF Held, DefineKept
  <2>2. Cardinality(Held \cup {d.name}) <= MaxSkills
    BY RoomForIt DEF StoreInv, DefineKept
  <2> QED
    BY <2>1, <2>2 DEF StoreInv, HeldInv, DefineKept
<1>5. DownInv'
  BY DEF DownInv, DefineKept, Free
<1>6. FilesInv'
  BY <1>2 DEF StoreInv, FilesInv, FileOf, DefineKept
<1> QED
  BY <1>3, <1>4, <1>5, <1>6 DEF StoreInv

(* A define under way has its definition, and the executor runs. *)
LEMMA EditUnderWay ==
  ASSUME StoreInv, edit.pc # "none"
  PROVE  edit \in [pc : {"write", "rename", "commit"}, d : Sound, whole : BOOLEAN] /\ up
BY DEF StoreInv, StoreTypes, DownInv, NoEdit

LEMMA WriteTempKeeps ==
  ASSUME StoreInv, WriteTemp
  PROVE  StoreInv'
<1>1. /\ edit \in [pc : {"write", "rename", "commit"}, d : Sound, whole : BOOLEAN]
      /\ edit.pc = "write" /\ up
  <2>1. edit.pc = "write"
    BY DEF WriteTemp
  <2> QED
    BY <2>1, EditUnderWay
<1>2. PICK w \in BOOLEAN : edit' = NoEdit \/ edit' = [pc |-> "rename", d |-> edit.d, whole |-> w]
  BY DEF WriteTemp
<1>3. Renamed = {} /\ Renamed' = {}
  BY <1>1, <1>2 DEF Renamed, NoEdit
<1>4. StoreTypes'
  BY <1>1, <1>2 DEF StoreInv, StoreTypes, Defined, WriteTemp
<1>5. HeldInv'
  <2>1. edit'.pc # "none" => edit.pc # "none" /\ edit'.d = edit.d
    BY <1>1, <1>2 DEF NoEdit
  <2>2. Held' = Held
    BY DEF WriteTemp, Held
  <2> QED
    BY <2>1, <2>2 DEF StoreInv, HeldInv, WriteTemp
<1>6. DownInv'
  BY <1>1 DEF DownInv, WriteTemp
<1>7. FilesInv'
  BY <1>3 DEF StoreInv, FilesInv, FileOf, WriteTemp
<1> QED
  BY <1>4, <1>5, <1>6, <1>7 DEF StoreInv

(* The file changes from the old definition to the new one. *)
LEMMA RenameKeeps ==
  ASSUME StoreInv, Rename
  PROVE  StoreInv'
<1>1. edit \in [pc : {"write", "rename", "commit"}, d : Sound, whole : BOOLEAN] /\ up /\ edit.d.name \in Learnt
  BY SoundNames DEF StoreInv, StoreTypes, DownInv, Rename, NoEdit
<1>2. \/ edit' = NoEdit /\ UNCHANGED <<files, cut>>
      \/ /\ edit' = [pc |-> "commit", d |-> edit.d, whole |-> edit.whole]
         /\ files' = With(files, edit.d.name, IF edit.whole THEN edit.d ELSE Half)
         /\ cut' = IF edit.whole THEN cut \ {edit.d.name} ELSE cut \cup {edit.d.name}
  BY <1>1 DEF Rename
<1>3. Renamed = {}
  BY DEF Rename, Renamed
<1>4. StoreTypes'
  BY <1>1, <1>2 DEF StoreInv, StoreTypes, Defined, Rename, With
<1>5. HeldInv'
  <2>1. edit'.pc # "none" => edit.pc # "none" /\ edit'.d = edit.d
    BY <1>2 DEF Rename, NoEdit
  <2>2. Held' = Held
    BY DEF Rename, Held
  <2> QED
    BY <2>1, <2>2 DEF StoreInv, HeldInv, Rename
<1>6. DownInv'
  BY <1>1 DEF DownInv, Rename
<1>7. FilesInv'
  <2>1. CASE edit' = NoEdit /\ UNCHANGED <<files, cut>>
    <3>1. Renamed' = {}
      BY <2>1 DEF Renamed, NoEdit
    <3> QED
      BY <1>3, <2>1, <3>1 DEF StoreInv, FilesInv, FileOf, Rename
  <2>2. CASE /\ edit' = [pc |-> "commit", d |-> edit.d, whole |-> edit.whole]
             /\ files' = With(files, edit.d.name, IF edit.whole THEN edit.d ELSE Half)
             /\ cut' = IF edit.whole THEN cut \ {edit.d.name} ELSE cut \cup {edit.d.name}
    <3>1. Renamed' = {edit.d}
      BY <2>2 DEF Renamed
    <3>2. (\A d \in Renamed : d.name \notin cut => FileOf(d.name, {d}))'
      BY <2>2, <3>1 DEF FileOf, With
    <3>3. (\A n \in DOMAIN kept \ cut : FileOf(n, {kept[n]} \cup Renamed))'
      BY <1>3, <2>2, <3>1 DEF StoreInv, FilesInv, FileOf, With, Rename
    <3>4. (\A n \in DOMAIN told \ cut : FileOf(n, ({told[n]} \cup trying \cup Renamed) \cap Sound))'
      BY <1>1, <1>3, <2>2, <3>1 DEF StoreInv, FilesInv, FileOf, With, Rename
    <3>5. (\A n \in gone \cap DOMAIN files : \E d \in trying \cup Renamed : d.name = n)'
      BY <1>3, <2>2, <3>1 DEF StoreInv, FilesInv, With, Rename
    <3> QED
      BY <3>2, <3>3, <3>4, <3>5 DEF FilesInv
  <2> QED
    BY <1>2, <2>1, <2>2
<1> QED
  BY <1>4, <1>5, <1>6, <1>7 DEF StoreInv

(* The define ends: its skill is held, and told. *)
LEMMA CommitKeeps ==
  ASSUME StoreInv, Commit
  PROVE  StoreInv'
<1>1. edit \in [pc : {"write", "rename", "commit"}, d : Sound, whole : BOOLEAN] /\ up /\ edit.d.name \in Learnt
  BY SoundNames DEF StoreInv, StoreTypes, DownInv, Commit, NoEdit
<1>2. Renamed = {edit.d} /\ Renamed' = {}
  BY DEF Commit, Renamed, NoEdit
<1>3. StoreTypes'
  BY <1>1 DEF StoreInv, StoreTypes, Defined, Commit, With, Without, Others
<1>4. HeldInv'
  <2>1. Held' = Held \cup {edit.d.name}
    BY DEF Held, Commit, With, Without
  <2>2. Cardinality(Held') <= MaxSkills
    BY <2>1 DEF StoreInv, HeldInv, Commit
  <2> QED
    BY <2>2 DEF StoreInv, HeldInv, Commit, With, Without, NoEdit
<1>5. DownInv'
  BY <1>1 DEF DownInv, Commit
<1>6. FilesInv'
  <2>1. edit.d.name \notin cut => FileOf(edit.d.name, {edit.d})
    BY <1>2 DEF StoreInv, FilesInv
  <2>2. \A n \in (DOMAIN kept \ cut)' : FileOf(n, {kept[n]} \cup Renamed)'
    BY <1>2, <2>1 DEF StoreInv, FilesInv, FileOf, Commit, With
  <2>3. \A n \in (DOMAIN told \ cut)' : FileOf(n, ({told[n]} \cup trying \cup Renamed) \cap Sound)'
    BY <1>1, <1>2, <2>1 DEF StoreInv, FilesInv, FileOf, Commit, With, Others
  <2>4. \A n \in (gone \cap DOMAIN files)' : \E d \in (trying \cup Renamed)' : d.name = n
    BY <1>2 DEF StoreInv, FilesInv, Commit, Others
  <2> QED
    BY <1>2, <2>2, <2>3, <2>4 DEF FilesInv
<1> QED
  BY <1>3, <1>4, <1>5, <1>6 DEF StoreInv

(* A skill goes with its file, or without when the file cannot be removed. *)
LEMMA ForgetKeeps ==
  ASSUME StoreInv, NEW name \in Learnt, Forget(name)
  PROVE  StoreInv'
<1>1. Renamed = {} /\ Renamed' = {}
  BY DEF Forget, Free, Renamed
<1>2. \/ /\ files' = Without(files, name) /\ told' = Without(told, name)
         /\ gone' = gone \cup {name} /\ trying' = Others(name) /\ cut' = cut \ {name}
      \/ told' \in {told, Without(told, name)} /\ UNCHANGED <<files, gone, trying, cut>>
  BY DEF Forget
<1>3. StoreTypes'
  BY <1>2 DEF StoreInv, StoreTypes, Defined, Forget, Without, Others
<1>4. HeldInv'
  <2>1. Held' \in SUBSET Held /\ Held \in SUBSET Learnt
    BY DEF StoreInv, StoreTypes, Defined, Held, Forget, Without
  <2>2. Cardinality(Held') <= MaxSkills
    BY <2>1, FewerNames, MaxIsNat DEF StoreInv, HeldInv
  <2> QED
    BY <2>2 DEF StoreInv, HeldInv, Forget, Free, Without
<1>5. DownInv'
  BY DEF DownInv, Forget, Free
<1>6. FilesInv'
  <2>1. \A n \in (DOMAIN kept \ cut)' : FileOf(n, {kept[n]} \cup Renamed)'
    BY <1>1, <1>2 DEF StoreInv, FilesInv, FileOf, Forget, Without
  <2>2. \A n \in (DOMAIN told \ cut)' : FileOf(n, ({told[n]} \cup trying \cup Renamed) \cap Sound)'
    BY <1>1, <1>2 DEF StoreInv, FilesInv, FileOf, Without, Others
  <2>3. \A n \in (gone \cap DOMAIN files)' : \E d \in (trying \cup Renamed)' : d.name = n
    BY <1>1, <1>2 DEF StoreInv, FilesInv, Without, Others
  <2> QED
    BY <1>1, <2>1, <2>2, <2>3 DEF FilesInv
<1> QED
  BY <1>3, <1>4, <1>5, <1>6 DEF StoreInv

(* Every step of the store keeps it. *)
LEMMA StoreStays == StoreInv /\ [StoreNext]_learnVars => StoreInv'
<1> SUFFICES ASSUME StoreInv, [StoreNext]_learnVars PROVE StoreInv'
  OBVIOUS
<1>1. CASE UNCHANGED learnVars
  BY <1>1 DEF learnVars, StoreInv, StoreTypes, Defined, HeldInv, Held, DownInv, FilesInv,
              FileOf, Renamed
<1>2. CASE Boot
  BY <1>2, BootKeeps
<1>3. CASE Crash
  BY <1>3, CrashKeeps
<1>4. ASSUME NEW d \in Definitions, DefineDraft(d) \/ DefineKept(d) PROVE StoreInv'
  BY <1>4, DefineDraftKeeps, DefineKeptKeeps
<1>5. CASE WriteTemp
  BY <1>5, WriteTempKeeps
<1>6. CASE Rename
  BY <1>6, RenameKeeps
<1>7. CASE Commit
  BY <1>7, CommitKeeps
<1>8. ASSUME NEW name \in Learnt, Forget(name) PROVE StoreInv'
  BY <1>8, ForgetKeeps
<1> QED
  BY <1>1, <1>2, <1>3, <1>4, <1>5, <1>6, <1>7, <1>8 DEF StoreNext, Edit

(* The invariant of the store, for every behaviour of define, forget, start and death: *)
(* who is held, what the files hold, and what they may hold of a define under way.     *)
THEOREM StoreInvariant == StoreSpec => []StoreInv
BY StoreAtFirst, StoreStays, PTL DEF StoreSpec

(***************************************************************************)
(* What the runs check                                                     *)
(***************************************************************************)
(* No skill is a draft and kept at once, there are never more than max_learned_skills, *)
(* each passed its checks, and what is kept has its file, whole unless it was written  *)
(* short unseen: of learned_skills.cpp's define, forget and load.                      *)
THEOREM LearnedTypes == StoreSpec => []LearnedTypeOK
<1>1. StoreInv => LearnedTypeOK
  <2> SUFFICES ASSUME StoreInv PROVE LearnedTypeOK
    OBVIOUS
  <2>1. Cardinality(DOMAIN kept) + Cardinality(DOMAIN drafts) <= MaxSkills
    BY HeldCount DEF StoreInv, HeldInv
  <2>2. edit.pc \in {"none", "write", "rename", "commit"}
    BY DEF StoreInv, StoreTypes, NoEdit
  <2>3. /\ DOMAIN kept \cup cut \subseteq DOMAIN files
        /\ \A n \in DOMAIN kept \ cut : edit.pc # "commit" => files[n] = kept[n]
    BY DEF StoreInv, StoreTypes, FilesInv, FileOf, Renamed
  <2> QED
    BY <2>1, <2>2, <2>3 DEF StoreInv, StoreTypes, Defined, HeldInv, LearnedTypeOK
<1> QED
  BY <1>1, StoreInvariant, PTL

(* A restart after a death at any point of a define serves every skill the planner was *)
(* told is kept, as it was taught or as it was being taught again, unless its file was *)
(* written short unseen.                                                               *)
THEOREM KeptSkillsComeBack == StoreSpec => KeptSkillsReturn
<1>1. StoreInv /\ [StoreNext]_learnVars
        => [~up /\ up' /\ Cardinality(DOMAIN files) <= MaxSkills
              => \A n \in DOMAIN told \ cut :
                   n \in DOMAIN kept' /\ kept'[n] \in {told[n]} \cup trying]_learnVars
  <2> SUFFICES ASSUME StoreInv, StoreNext, ~up, up', Cardinality(DOMAIN files) <= MaxSkills,
                      NEW n \in DOMAIN told \ cut
               PROVE  n \in DOMAIN kept' /\ kept'[n] \in {told[n]} \cup trying
    BY DEF learnVars
  <2>1. edit = NoEdit
    BY DEF StoreInv, DownInv
  <2>2. kept' = Loaded(files)
    BY <2>1 DEF StoreNext, Boot, Crash, Edit, DefineDraft, DefineKept, WriteTemp, Rename,
                Commit, Forget, Free, NoEdit
  <2>3. FileOf(n, {told[n]} \cup trying) /\ files[n] \in Sound
    BY <2>1 DEF StoreInv, FilesInv, FileOf, Renamed, NoEdit
  <2>4. DOMAIN files \subseteq Learnt
    BY DEF StoreInv, StoreTypes
  <2>5. n \in Good(files)
    BY <2>3 DEF Good, FileOf
  <2>6. n \in DOMAIN Loaded(files)
    BY <2>4, <2>5, LoadedWhole
  <2>7. Loaded(files)[n] = files[n]
    BY <2>4, <2>6, LoadedType
  <2> QED
    BY <2>2, <2>3, <2>6, <2>7 DEF FileOf
<1> QED
  BY <1>1, StoreInvariant, PTL DEF StoreSpec, KeptSkillsReturn

(* A skill whose file was removed is not there after a restart, unless it was being    *)
(* taught again when the executor died.                                                *)
THEOREM ForgottenSkillsStayGone == StoreSpec => ForgottenStaysGone
<1>1. StoreInv /\ [StoreNext]_learnVars
        => [~up /\ up' => gone \cap DOMAIN kept' \subseteq {d.name : d \in trying}]_learnVars
  <2> SUFFICES ASSUME StoreInv, StoreNext, ~up, up', NEW n \in gone \cap DOMAIN kept'
               PROVE  \E d \in trying : d.name = n
    BY DEF learnVars
  <2>1. edit = NoEdit
    BY DEF StoreInv, DownInv
  <2>2. kept' = Loaded(files)
    BY <2>1 DEF StoreNext, Boot, Crash, Edit, DefineDraft, DefineKept, WriteTemp, Rename,
                Commit, Forget, Free, NoEdit
  <2>3. n \in DOMAIN files
    BY <2>2, LoadedType DEF StoreInv, StoreTypes
  <2> QED
    BY <2>1, <2>3 DEF StoreInv, FilesInv, Renamed, NoEdit
<1> QED
  BY <1>1, StoreInvariant, PTL DEF StoreSpec, ForgottenStaysGone
=============================================================================
