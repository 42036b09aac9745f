CONSTANTS
    Subjects = {s1, s2, s3}
    Origins = {o1, o2}
    MaxEntries = 2
    Ttl = 1
    MaxTime = 1
    MaxIssued = 3
    MaxRegIssued = 1
    MaxVerifying = 2
    MaxGranted = 2

SPECIFICATION SignInSpec
SYMMETRY Interchangeable
INVARIANTS
    MapsAgree
    WithinLimit
    GrantsAreEarned
PROPERTIES
    LostOnlyByRule
CHECK_DEADLOCK FALSE
