SPECIFICATION FairSpec
CONSTANTS
    DataBlocks = 2
    SignatureBa = 9
    Spare = 1
    Lives <- MCLives
INVARIANTS
    LoadsNewest
    SavedWhenIdle
    OneOwner
    TablesApart
PROPERTIES
    Returns
CHECK_DEADLOCK FALSE
