SPECIFICATION Spec
CONSTANTS
    c1 = c1
    c2 = c2
    Task = {t1}
    Host = host
    Version = {1, 2}
    Cert = {c1, c2}
    CertForHost = {c1, c2}
    Badge <- Renewal
    DnsRecord <- Versioned
    NoEntry = NoEntry
    NoBadge = NoBadge
    NoEvidence = NoEvidence
    Pending = Pending
    Unavailable = Unavailable
    Determinate = Determinate
    DefaultTtl = 1
    HardTtl = 3
    FailurePolicy = "FailOpenWithCache"
    MaxStaleness = 2
    DanePolicy = "Required"
    MaxFlight = 0
    MaxTime = 2
    MaxChanges = 1
    MaxEpoch = 1
INVARIANTS
    NoStaleAfterDeterminate
    RejectionSticky
    VouchedIsAccepted
    DaneEnforced
PROPERTIES
    FallbackIsComplete
CHECK_DEADLOCK FALSE
