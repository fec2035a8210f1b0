SPECIFICATION ExperimentSpec
CONSTANTS
    Agents = {1, 2}
    Width = 3
    Height = 2
    Blocked <- Bay
    MenuChoices <- Menus
    Scales = {1, 2}
    Models <- BuiltModels
    NumSweeps = 2
    Levels = {1, 2, 3, 4}
    HasDeadline = TRUE
CHECK_DEADLOCK FALSE
INVARIANTS
    EnergiesAreTrue
    TableCoversProposals
    PenaltiesOutweighSavings
    GroundStateIsBestSelection
PROPERTIES
    ImplementsPlainAnnealer
