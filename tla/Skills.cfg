SPECIFICATION Spec
CONSTANTS
  Arms = {"left", "right"}
  Objects = {"cup", "box"}
  Map = "octomap"
  MaxCandidates = 4
  GraspTries = 2
  GripChecked = TRUE
  Offers <- MCOffers
  SettleAttempts = 1
  LiftAttempts = 2
  CloseSteps = 1
  MaxFaults = 1
CHECK_DEADLOCK FALSE
INVARIANTS
  SkillTypeOK
  IdleIsRestored
PROPERTIES
  PickLeavesDefinedState
  PlaceLeavesDefinedState
  SkillsEnd
