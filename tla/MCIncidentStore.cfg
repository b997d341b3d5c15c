\* Two faults that may recur; incidents may be decided on again.
CONSTANTS
    Keys = {k1, k2}
    Times = {0, 1}
    Digest <- MCDigest
    MaxOccurrences = 3
    MaxDecisions = 2
SPECIFICATION ReadSpec
INVARIANTS
    TypeOK
    LinkedHistory
    AtMostOneActive
    StatusFollowsTrail
    ActiveNotShownClosed
    ActiveIsMostRecent
PROPERTIES
    NothingErased
    ImplementsLog
CHECK_DEADLOCK FALSE
