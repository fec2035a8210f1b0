SPECIFICATION Spec
CONSTANTS
    NumReplicas = 4
    NumThreads = 3
    Energies <- TwoEnergies
CHECK_DEADLOCK FALSE
INVARIANTS
    OneWriterPerSlot
    SameAsSequential
PROPERTIES
    SlotsAreFinal
    Returns
