SPECIFICATION Spec
CONSTANTS
    CntLimit = 6
    FailCnts = {1, 2, 4}
INVARIANT AlwaysBoots
