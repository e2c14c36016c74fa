SPECIFICATION Spec
CONSTANTS
    DataBlocks = 2
    SignatureBa = 9
    Spare = 1
    Lives <- LastBad
INVARIANTS
    MapsToUnused
CHECK_DEADLOCK FALSE
