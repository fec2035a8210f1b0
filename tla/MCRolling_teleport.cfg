SPECIFICATION Spec
CONSTANTS
    a1 = a1
    a2 = a2
    o1 = o1
    Agents = {a1, a2}
    Width = 3
    Height = 2
    Blocked <- NoBlocked
    Scenarios <- ObstacleScenarios
    Obstacles = {o1}
    Tasks <- AnyTask
    Execute = 2
    MaxSteps = 4
    Window = 3
    Detour = 0
CHECK_DEADLOCK FALSE
INVARIANT HistoryPassesVerifier
