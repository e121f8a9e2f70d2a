\* Lends, teleop, a dry run and a mission that takes the arms.
SPECIFICATION Spec
CONSTANTS
    m1 = m1
    m2 = m2
    right = right
    c1 = c1
    deadman = deadman
    Missions = {m1, m2}
    Mode <- OneDryRun
    Plan <- WalkPlan
    MaxSteps = 1
    Hands = {right}
    Clients = {c1}
    Deadmen = {}
    MaxStops = 0
    Requests = {"silence", "noarms", "teleop"}
    EmptyOnAttach = FALSE
    PromptServers = TRUE
    None = None
INVARIANTS
    LentArmsAreTaken
PROPERTIES
    ExclusiveUse
    LendNeverDrops
