SPECIFICATION FairSpec
CONSTANTS
    Size = 7
    FirstLen = 1
    DoubleBelow = 2
    StepLen = 1
    MaxLen = 3
    LenLimit = 4
    MaxFaults = 3
INVARIANTS
    PrefixIntact
    InStep
    FipSent
    StartsWholeImage
    PacketFits
PROPERTIES
    Completes
    Terminates
CHECK_DEADLOCK FALSE
