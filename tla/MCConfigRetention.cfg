CONSTANTS
    WordSize = 12
    Hour = 36
    Environments <- MCEnvironments
SPECIFICATION Spec
INVARIANTS
    RetentionIsConfigured
CHECK_DEADLOCK FALSE
