SPECIFICATION StaticSpec
CONSTANTS
    Agents = {1, 2}
    Width = 4
    Height = 2
    Blocked <- Bay
    Detour = 2
    Instances <- BayInstances
    MenuSize = 2
    MenuCap = 3
    MaxIterations = 3
    SizeMax = 1000000
CHECK_DEADLOCK FALSE
INVARIANTS
    ReportIsTrue
    OnlyAgentsConflict
    EveryRoundPays
    DoneEventIsTrue
PROPERTIES
    KeepsTheBest
