CONSTANTS
    l1 = l1  l2 = l2  l3 = l3
    k1 = k1  k2 = k2
    None = None
    Keys <- MCKeys
    Loads <- MCLoads
    Requests <- MCRequests
SPECIFICATION Spec
INVARIANTS
    OneDownloadPerKey
    NoOtherEditInProgress
PROPERTY
    AnsweredUnlessMissed
\* Every load is answered in the end.
CHECK_DEADLOCK FALSE
