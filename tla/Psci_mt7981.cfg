SPECIFICATION FairSpec
CONSTANTS
    NCpus = 2
    MaxLvl = 2
    Nodes <- Mt7981Nodes
    Ancestor <- Mt7981Ancestor
    BootCpu = 0
    Entries = {e1}
    BadEntries = {odd}
    PwrOnResults <- SuccessOrFail
    NoEntry = e1
    None = None
INVARIANTS
    IInv
    WarmbootAssertions
    SystemSuspendIsLast
PROPERTIES
    LocksAreGranted
    PendingIsResolved
