SPECIFICATION Spec
CONSTANTS
    CntLimit = 6
    FailCnts = {1, 2, 4}
INVARIANTS
    IInv
    NewestWins
    InUseKept
    OneGoodSlot
    BootsOnceSaved
    ResultIsSaved
