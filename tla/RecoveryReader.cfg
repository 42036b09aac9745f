\* Pages of one row, so that every load takes several; four acceptances, one
\* of them in another conversation, with openings, clears and sweeps between.
CONSTANTS
    me = alice
    partner = bob
    carol = carol
    m1 = m1
    m2 = m2
    m3 = m3
    m4 = m4
    Addresses = {alice, bob, carol}
    Ids = {m1, m2, m3, m4}
    Envelopes <- MCEnvelopes
    Retention = 2
    Tokens = {}
    Endpoints = {}
    SessionTtl = 0
    InactiveAfter = 3
    DayLength = 100
    MaxPush = 1
    MaxTime = 1
    MaxAccepted = 4
    MaxRowid = 0
    PageSize = 1
    RecoveryLimit = 1
SPECIFICATION ReaderSpec
INVARIANTS
    NothingSkipped
    RecoveryAdvances
