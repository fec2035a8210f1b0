SPECIFICATION Spec
CONSTANTS
    Script <- Scripts
    PipeSize = 2
    Handlers = {"h1"}
    Clients = {"c1"}
CHECK_DEADLOCK FALSE
PROPERTIES
    CancelStopsTheSolver
