SPECIFICATION Spec
CONSTANTS
    NCpus = 2
    MaxLvl = 2
    Nodes <- Mt7981Nodes
    Ancestor <- Mt7981Ancestor
    BootCpu = 0
    Entries = {e1, e2}
    BadEntries = {}
    PwrOnResults <- SuccessOnly
    NoEntry = e1
    None = None
INVARIANT StartsWhereAsked
