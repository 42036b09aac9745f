CONSTANTS
    me = me
    Addresses = {me}
    Ips = {home}
    myIp = home
    MaxPerAddress = 2
    MaxPerIp = 2
    TokenTtl = 0
    AttentionTtl = 1
    MaxBackoff = 2
    MaxMoves = 2
    MaxFailures = 1
    MaxOthers = 1
    MaxReports = 2
    MaxMinted = 7

SPECIFICATION Spec
INVARIANTS
    CountsAreExact
    AttentionAgrees
PROPERTIES
    LinkSpec
    Reconnects
