SPECIFICATION Spec
CONSTANTS
  Parts = {"legs", "arms"}
  Ticks = 2
  Lists = {}
  ReleaseModeParam = TRUE
  MaxTransitions = 3
  Reach = 1
  SlewStep = 1
  MaxHandOps = 2
  Span = 2
  BlendSteps = 2
  MaxStep = 1
  PolicyPoses = {0, 2}
  NaN = 99
  MaxQueue = 2
  MaxArmCalls = 2
  Scenes = {{"release", "error"}, {"emergency", "blend"}, {"error", "emergency"},
            {"error", "arms"}, {"emergency", "arms"}, {"arms"}, {"arms", "hand"}}
INVARIANTS
  ControlTypeOK
  FramesWhole
  HandLetsGo
  EmergencyIsUnderWay
PROPERTIES
  ReleaseIsFinal
  MotorsHeld
  LegsCommandIsSmooth
