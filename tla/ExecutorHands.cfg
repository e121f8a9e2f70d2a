\* Everything that can leave an object in a hand over two missions.
SPECIFICATION Spec
CONSTANTS
    m1 = m1
    m2 = m2
    right = right
    c1 = c1
    deadman = deadman
    Missions = {m1, m2}
    Mode <- AllExecuted
    Plan <- PickPlan
    MaxSteps = 1
    Hands = {right}
    Clients = {}
    Deadmen = {}
    MaxStops = 0
    Requests = {"cancel", "deadline", "deactivate", "spawnfails", "noarms", "throws"}
    EmptyOnAttach = FALSE
    PromptServers = TRUE
    None = None
INVARIANTS
    ClaimIsTheThreads
    IdleLetsGo
PROPERTIES
    NeverDrops
