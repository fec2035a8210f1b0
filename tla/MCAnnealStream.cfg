SPECIFICATION StreamSpec
CONSTANTS
    Problems <- SmallProblems
    Models <- SmallModels
    NumSweeps = 5
    Points = 2
CHECK_DEADLOCK FALSE
INVARIANTS
    EventsAreTrue
    CurveDescends
