CONSTANTS
    ForecastWindow = 3
    MaxSamples = 4
    BatchesAfter <- MCBatchesAfter
SPECIFICATION Spec
INVARIANTS
    IncidentsHaveAnomalies
    NeighboursAdjacent
    BatchesCutBetweenStrangers
    RiskFollowsTrend
CHECK_DEADLOCK FALSE
