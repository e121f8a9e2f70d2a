\* The deadman's stop against the start of the next mission.
SPECIFICATION Spec
CONSTANTS
    m1 = m1
    m2 = m2
    right = right
    c1 = c1
    deadman = deadman
    Missions = {m1, m2}
    Mode <- AllExecuted
    Plan <- PickPlan
    MaxSteps = 1
    Hands = {right}
    Clients = {}
    Deadmen = {deadman}
    MaxStops = 0
    Requests = {"silence"}
    EmptyOnAttach = FALSE
    PromptServers = TRUE
    None = None
INVARIANTS
    StopHitsItsMission
