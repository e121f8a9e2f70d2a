SPECIFICATION Spec
CONSTANTS
  LeafTime = 2
  MaxDepth = 3
  MaxNodes = 6
  MaxSteps = 3
  MaxDuration = 12
  Names <- MCNames
  Definitions <- MCDefinitions
  Sound <- MCSound
  Folders <- MCFolders
  Library <- MCLibrary
  MaxSkills = 1
  MaxBody = 4
  Plans <- MCPlans
  Taught <- MCTaught
CHECK_DEADLOCK FALSE
INVARIANTS
  LearnedTypeOK
  ReadsAreWritten
  WithinItsTime
  MovesWhatItTook
PROPERTIES
  KeptSkillsReturn
  ForgottenStaysGone
