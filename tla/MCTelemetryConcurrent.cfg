CONSTANTS
    h1 = h1
    h2 = h2
    Hosts = {h1, h2}
    Workers = {w1, w2}
    Signals = {"cpu_saturation", "high_latency"}
    Shapes <- MixedShapes
    Retention = 2
    Window = 2
    TicksPerSecond = 2
    maxHistoryPerDevice = 2
    maxAnomalies = 3
    MaxClock = 5
    MaxIngests = 3
    MaxFaults = 1
    MaxRestarts = 1
SPECIFICATION Spec
INVARIANTS
    TypeOK
    LatestEndsHistory
    MemoryBackedByTable
    AcceptedSurvive
    AnomaliesDistinct
PROPERTIES
    RestartShowsNoOlder
CHECK_DEADLOCK FALSE
