CONSTANTS
    me = alice
    partner = bob
    m1 = m1
    m2 = m2
    m3 = m3
    Addresses = {alice, bob}
    Ids = {m1, m2, m3}
    Envelopes <- MCEnvelopes
    Retention = 3
    Tokens = {}
    Endpoints = {}
    SessionTtl = 0
    InactiveAfter = 4
    DayLength = 100
    MaxPush = 1
    MaxTime = 0
    MaxAccepted = 1
    MaxRowid = 0
    PageSize = 1
    MaxConnections = 2
    MaxStream = 2
SPECIFICATION Spec
VIEW MCView
INVARIANTS
    ClearedLeaveTheScreen
CHECK_DEADLOCK FALSE
