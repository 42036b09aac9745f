CONSTANTS
    me = alice
    partner = bob
    m1 = m1
    m2 = m2
    m3 = m3
    Addresses = {alice, bob}
    Ids = {m1, m2, m3}
    Envelopes <- MCEnvelopes
    Retention = 1
    Tokens = {}
    Endpoints = {}
    SessionTtl = 0
    InactiveAfter = 4
    DayLength = 100
    MaxPush = 1
    MaxTime = 2
    MaxAccepted = 2
    MaxRowid = 0
    PageSize = 1
    MaxConnections = 2
    MaxStream = 2
SPECIFICATION Spec
VIEW MCView
INVARIANTS
    FollowsServer
    ExposedIsOpened
CHECK_DEADLOCK FALSE
