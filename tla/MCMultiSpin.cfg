SPECIFICATION MultiSpec
CONSTANTS
    Models <- SmallModels
    W = 2
    B = 2
    NumSweeps = 3
    SampleInterval = 2
    Threshold <- Odds
CHECK_DEADLOCK FALSE
INVARIANTS
    NoReplicaIsBelowTheBest
PROPERTIES
    LanesDecideAlone
