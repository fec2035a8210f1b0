SPECIFICATION StreamSpec
CONSTANTS
    a1 = a1
    a2 = a2
    Agents = {a1, a2}
    Width = 4
    Height = 2
    Blocked <- BlockedCells
    Scenarios <- Inputs
    Obstacles = {0, 1}
    Tasks <- AnyTask
    Execute = 2
    MaxSteps = 5
    Window = 1
    Detour = 1
CHECK_DEADLOCK FALSE
INVARIANTS
    AgentsNeverCollide
    HistoryInStep
    ReportIsConsistent
    VerifierAccepts
    NeverMovesIntoObstacle
    HitsAreExact
    EventsTellTheHistory
    LiveCostIsALowerBound
