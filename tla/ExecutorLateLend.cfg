\* A lend overtaken while it takes the arms, and a mission.
SPECIFICATION Spec
CONSTANTS
    m1 = m1
    m2 = m2
    right = right
    c1 = c1
    deadman = deadman
    Missions = {m1, m2}
    Mode <- AllExecuted
    Plan <- PickPlan
    MaxSteps = 1
    Hands = {right}
    Clients = {c1}
    Deadmen = {}
    MaxStops = 0
    Requests = {}
    EmptyOnAttach = FALSE
    PromptServers = TRUE
    None = None
INVARIANTS
    ArmsUnderTheTree
