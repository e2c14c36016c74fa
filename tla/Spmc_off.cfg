SPECIFICATION Spec
CONSTANTS
    NCpus = 2
    Invalid = Invalid
INVARIANT OffClearsPwrOn
CHECK_DEADLOCK FALSE
