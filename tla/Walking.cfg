SPECIFICATION Spec
CONSTANTS
  Far = 5
  MaxClock = 9
  SourceTimeout = 1
  MaxSessions = 2
  TargetX = 2
  TolX = 0
  MinX = 1
  SlackX = 1
  TolY = 0
  BandY = 1
  MaxNudges = 1
  BodyRadius = 1
  Longest = 2
  Goals = {1, 2}
  ObjectAt = 5
  Distance = 2
  Slop = 0
  Gap = 2
  RetreatMin = 1
  Wanted = 2
  Grace = 0
  ObjectTimeout = 1
  StallTime = 1
  SettleTime = 1
  Timeout = 6
  Scenes = {"walk", "odometry"}
  Start = 2
  Watched = 3
  Followers = {"stepClear"}
  Rooms <- MCRooms
CHECK_DEADLOCK FALSE
INVARIANTS
  WalkTypeOK
  BaseStopsWithGoal
  ApproachNotBlind
PROPERTIES
  NewOdomFrame
  GoalsEnd
