\* Messages, registrations, sessions, subscriptions and the daily count at once:
\* a message can be opened later than accepted, an id accepted again after its
\* row is gone, and the clock passes every deadline and two days.
CONSTANTS
    alice = alice
    bob = bob
    m1 = m1
    m2 = m2
    Addresses = {alice, bob}
    Ids = {m1, m2}
    Envelopes <- MCEnvelopes
    Retention = 2
    Tokens = {t1}
    p1 = p1
    p2 = p2
    Endpoints = {p1, p2}
    SessionTtl = 1
    InactiveAfter = 2
    DayLength = 2
    MaxPush = 1
    MaxTime = 3
    MaxAccepted = 2
    MaxRowid = 2
SYMMETRY Symmetric
SPECIFICATION DbSpec
INVARIANTS
    TypeOK
    RowsAreSound
    ActiveSinceMessages
    SubscriptionsAreSound
    TodayIsCountedOnce
PROPERTIES
    DeadlinesAreFinal
    CheckpointsOnlyShrink
    UnexpiredGoTogether
    GoneOnlyWhenIdle
