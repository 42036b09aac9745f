CONSTANTS
    first = first
    Keys = {first, other, made1, made2}
    Generated = {made1, made2}
    MaxTokens = 8
    MaxFailures = 1
    MaxChanges = 3

SPECIFICATION Spec
INVARIANTS
    SessionIsOwn
PROPERTIES
    LatestImportWins
    LiveSessionKept
    SignsIn
CHECK_DEADLOCK FALSE
