SPECIFICATION Spec
CONSTANTS
    NCpus = 3
    MaxLvl = 2
    Nodes <- TwoClusterNodes
    Ancestor <- TwoClusterAncestor
    BootCpu = 0
    Entries = {e1}
    BadEntries = {}
    PwrOnResults <- SuccessOnly
    NoEntry = e1
    None = None
INVARIANTS
    RunningCpuHasRunningDomains
    LastManDown
PROPERTIES
    AffinityLifeCycle
    DomainChangesUnderLock
