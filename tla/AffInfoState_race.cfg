SPECIFICATION FairSpec
CONSTANTS
    PwrOnResults = {"SUCCESS", "INTERN_FAIL"}
    Invalid = Invalid
INVARIANTS
    BootsPending
    OnceIsEnough
    NoStaleOn
PROPERTIES
    ViewLifeCycle
    AcceptedOnRuns
