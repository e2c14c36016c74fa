SPECIFICATION FairSpec
CONSTANTS
    RetryEnabled = TRUE
    MaxRetry = 3
    ByteMod = 8
    Shipped = {"good", "hangs", "broken"}
    Uploads = {"good", "hangs", "broken"}
INVARIANTS
    StaysBootable
PROPERTIES
    FairTrial
    Boots
CHECK_DEADLOCK FALSE
