SPECIFICATION FairSpec
CONSTANTS
    NCpus = 3
    TicketLimit <- FifteenBits
    TicketBound = 2
    None = None
INVARIANTS
    BakeryInv
    MutualExclusion
    FirstComeFirstServed
PROPERTIES
    EveryGetReturns
    ImplementsLockService
