\* Two messages in pages of one row, at one moment: what order pages, lookups,
\* events, reconnects and focus changes come in.
CONSTANTS
    me = alice
    partner = bob
    m1 = m1
    m2 = m2
    Addresses = {alice, bob}
    Ids = {m1, m2}
    Envelopes <- MCEnvelopes
    Retention = 2
    Tokens = {}
    Endpoints = {}
    SessionTtl = 0
    InactiveAfter = 3
    DayLength = 100
    MaxPush = 1
    MaxTime = 0
    MaxAccepted = 2
    MaxRowid = 0
    PageSize = 1
    RecoveryLimit = 1
    MaxRounds = 2
    MaxWork = 4
    MaxStream = 2
SPECIFICATION Spec
VIEW MCView
INVARIANTS
    NothingElseMissing
    OtherDeadlinesAreAuthoritative
    ClearedStayGone
    NeverStuck
PROPERTIES
    OpensOnlyWhileWatching
    OpeningsAreSettled
