\* Messages both ways and two acceptances; two requests wait at once, also two
\* with one envelope; an opened message may expire and be swept.  Each stream
\* takes two events, from any content the server has restarted with.
CONSTANTS
    alice = alice
    bob = bob
    m1 = m1
    m2 = m2
    Addresses = {alice, bob}
    Ids = {m1, m2}
    Envelopes <- MCEnvelopes
    Retention = 2
    Tokens = {t1}
    Endpoints = {}
    SessionTtl = 0
    InactiveAfter = 3
    DayLength = 100
    MaxPush = 1
    MaxTime = 1
    MaxAccepted = 2
    MaxRowid = 0
    Slots = {s1, s2}
    MaxPublished = 2
SYMMETRY Exchange
SPECIFICATION Spec
INVARIANTS
    StreamsAreComplete
    StreamsAreOrdered
PROPERTIES
    DbSpec
