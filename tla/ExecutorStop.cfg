\* A StopAll and a shutdown at any moment of two missions.
SPECIFICATION Spec
CONSTANTS
    m1 = m1
    m2 = m2
    right = right
    c1 = c1
    deadman = deadman
    Missions = {m1, m2}
    Mode <- AllExecuted
    Plan <- PickPlan
    MaxSteps = 1
    Hands = {right}
    Clients = {}
    Deadmen = {}
    MaxStops = 1
    Requests = {"shutdown"}
    EmptyOnAttach = FALSE
    PromptServers = TRUE
    None = None
INVARIANTS
    TypeOK
    ArmsUnderTheTree
    StopHolds
    ShutdownLetsGo
PROPERTIES
    NeverDrops
