\* Every reason for a mission to end ends it.
SPECIFICATION FairSpec
CONSTANTS
    m1 = m1
    m2 = m2
    right = right
    c1 = c1
    deadman = deadman
    Missions = {m1}
    Mode <- OneExecuted
    Plan <- OnePlan
    MaxSteps = 1
    Hands = {right}
    Clients = {}
    Deadmen = {deadman}
    MaxStops = 0
    Requests = {"silence", "unfit", "cancel", "deadline"}
    EmptyOnAttach = FALSE
    PromptServers = TRUE
    None = None
PROPERTIES
    StopEndsMission
    DeadmanEndsMission
    CancelAnswered
    DeadlineEndsMission
