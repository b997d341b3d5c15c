CONSTANTS
    k1 = k1
    k2 = k2
    Keys = {k1, k2}
    Times <- MCTimes
    Digest <- MCDigest
    Workers = {w1}
    Batches <- MCBatches
    Severities = {"critical", "high"}
    SeverityOf <- MCSeverityOf
    UnknownID = UnknownID
    TicksPerSecond = 2
    MaxOccurrences = 3
    MaxDecisions = 2
    MaxFaults = 0
    MaxRestarts = 2
SPECIFICATION ServiceSpec
INVARIANTS
    ConsistentAtRest
    AtMostOneActive
    LinkedHistory
PROPERTIES
    AuditOrderSurvives
CHECK_DEADLOCK FALSE
