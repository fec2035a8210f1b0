SPECIFICATION Spec
CONSTANTS
    a1 = a1
    a2 = a2
    o1 = o1
    Agents = {a1, a2}
    Width = 3
    Height = 2
    Blocked <- BlockedCells
    Scenarios <- FleetScenarios
    Obstacles = {o1}
    Tasks <- LifelongTasks
    Execute = 2
    MaxSteps = 4
    Window = 3
    Detour = 1
CHECK_DEADLOCK FALSE
INVARIANTS
    StaysUntilRetasked
PROPERTIES
    ImplementsFleet
    Terminates
