SPECIFICATION FairSpec
CONSTANTS
    c1 = c1
    c2 = c2
    Task = {t1}
    Host = host
    Version = {1, 2}
    Cert = {c1, c2}
    CertForHost = {c1}
    Badge <- AllBadges
    DnsRecord <- OneUnversioned
    NoEntry = NoEntry
    NoBadge = NoBadge
    NoEvidence = NoEvidence
    Pending = Pending
    Unavailable = Unavailable
    Determinate = Determinate
    DefaultTtl = 1
    HardTtl = 3
    FailurePolicy = "FailOpenWithCache"
    MaxStaleness = 2
    DanePolicy = "ValidateIfPresent"
    MaxFlight = 0
    MaxTime = 1
    MaxChanges = 1
    MaxEpoch = 0
INVARIANTS
    AcceptanceExact
PROPERTIES
    CallsReturn
CHECK_DEADLOCK FALSE
