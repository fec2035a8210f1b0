SPECIFICATION Spec
CONSTANTS
    Agents = {1, 2}
    Width = 4
    Height = 2
    Blocked <- Bay
    Instances <- BayInstances
    MaxExpansions = 10
    HasDeadline = TRUE
    Slack = 8
CHECK_DEADLOCK FALSE
INVARIANTS
    ConstraintsAreObeyed
    OptimumStaysInReach
    SuccessIsOptimal
