CONSTANTS
    Addresses = {alice, bob}
    MaxKeys = 2
    MaxSubs = 2
    MaxEpochs = 3
    MaxAsked = 4
    MaxLate = 1

SPECIFICATION PushSpec
SYMMETRY Interchangeable
INVARIANTS
    AlertsStopped
    SubscribedIsReal
CHECK_DEADLOCK FALSE
