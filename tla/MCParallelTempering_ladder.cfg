SPECIFICATION Spec
CONSTANTS
    Models <- SmallModels
    Temperatures <- Temps
    NumSweeps = 5
    SwapInterval = 2
CHECK_DEADLOCK FALSE
INVARIANTS
    ReplicasAreWhole
    SwapRatesAreExact
