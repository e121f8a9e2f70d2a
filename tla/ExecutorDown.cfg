\* A shutdown while a lend takes the arms.
SPECIFICATION Spec
CONSTANTS
    m1 = m1
    m2 = m2
    right = right
    c1 = c1
    deadman = deadman
    Missions = {m1}
    Mode <- OneExecuted
    Plan <- OnePlan
    MaxSteps = 1
    Hands = {right}
    Clients = {c1}
    Deadmen = {}
    MaxStops = 0
    Requests = {"shutdown"}
    EmptyOnAttach = FALSE
    PromptServers = TRUE
    None = None
INVARIANTS
    ShutdownLetsGo
