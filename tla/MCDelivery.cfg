CONSTANTS
    Clients = {c1}
    Attempts <- MCAttempts
    MaxLaunches = 3
SPECIFICATION Spec
INVARIANTS
    StopCutsNothingOff
    AcknowledgedIsStored
    RepeatsOnlyUnheard
PROPERTIES
    SignalEndsProcess
    PostEnds
CHECK_DEADLOCK FALSE
