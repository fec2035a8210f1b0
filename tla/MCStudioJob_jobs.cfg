SPECIFICATION Spec
CONSTANTS
    Script <- Scripts
    PipeSize = 2
    Handlers = {"h1", "h2"}
    Clients = {"c1"}
CHECK_DEADLOCK FALSE
INVARIANTS
    OutcomeAgrees
    ClientsFollow
    EndIsTheEnd
PROPERTIES
    CancelSticks
    StreamsEnd
    JobsFinish
