CONSTANTS
    k1 = k1
    k2 = k2
    Keys = {k1, k2}
    Times <- MCTimes
    Digest <- MCDigest
    Workers = {w1, w2}
    Batches <- MCBatches
    Severities = {"critical", "high"}
    SeverityOf <- MCSeverityOf
    UnknownID = UnknownID
    TicksPerSecond = 2
    MaxOccurrences = 1
    MaxDecisions = 1
    MaxFaults = 0
    MaxRestarts = 0
SPECIFICATION ServiceSpec
INVARIANTS
    ConsistentAtRest
CHECK_DEADLOCK FALSE
