CONSTANTS
    None = None
    refresher = refresher  updater = updater  account = account
    u1 = u1  u2 = u2
    Users <- MCUsers
    Callers <- MCCallers
    Refresher = refresher  Updater = updater  Account = account
    MaxTries = 1
    Budget = 4
SPECIFICATION Spec
INVARIANTS
    MemoryMatchesStorage
    ShowsSignedInUser
PROPERTIES
    RenewalKeepsUser
    ComesToRest
CHECK_DEADLOCK FALSE
