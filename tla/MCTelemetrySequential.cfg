CONSTANTS
    h1 = h1
    h2 = h2
    Hosts = {h1, h2}
    Workers = {w1}
    Signals = {"cpu_saturation", "high_latency"}
    Shapes <- FreshShapes
    Retention = 2
    Window = 2
    TicksPerSecond = 1
    maxHistoryPerDevice = 2
    maxAnomalies = 3
    MaxClock = 4
    MaxIngests = 4
    MaxFaults = 0
    MaxRestarts = 1
SPECIFICATION FairSpec
PROPERTIES
    RestoreKeepsHistory
    ExpiredRowsGo
CHECK_DEADLOCK FALSE
