\* One message either way through all of its lifetime.
CONSTANTS
    me = alice
    partner = bob
    m1 = m1
    m2 = m2
    Addresses = {alice, bob}
    Ids = {m1, m2}
    Envelopes <- MCEnvelopes
    Retention = 2
    Tokens = {}
    Endpoints = {}
    SessionTtl = 0
    InactiveAfter = 3
    DayLength = 100
    MaxPush = 1
    MaxTime = 2
    MaxAccepted = 1
    MaxRowid = 0
    PageSize = 2
    RecoveryLimit = 1
    MaxRounds = 2
    MaxWork = 3
    MaxStream = 2
SPECIFICATION FairSpec
VIEW MCView
INVARIANTS
    NoGhosts
    HiddenUntilOpened
PROPERTIES
    RemovedForCause
    Settles
