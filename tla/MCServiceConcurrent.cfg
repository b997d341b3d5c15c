CONSTANTS
    k1 = k1
    k2 = k2
    Keys = {k1, k2}
    Times <- MCTimes
    Digest <- MCDigest
    Workers = {w1, w2}
    Batches <- BothFaults
    Severities = {"critical", "high"}
    SeverityOf <- MCSeverityOf
    UnknownID = UnknownID
    TicksPerSecond = 2
    MaxOccurrences = 2
    MaxDecisions = 2
    MaxFaults = 1
    MaxRestarts = 1
SPECIFICATION ServiceSpec
INVARIANTS
    ServiceTypeOK
    DatabaseNeverAhead
    NothingLeftUnsaved
    AnsweredDecisionsSurvive
    NoSilentClose
    MetricsBalanced
CHECK_DEADLOCK FALSE
