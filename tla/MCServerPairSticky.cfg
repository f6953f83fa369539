SPECIFICATION Spec
SYMMETRY Callers
CONSTANTS
    c1 = c1
    c2 = c2
    Task = {t1, t2}
    Host = host
    Version = {1}
    Cert = {c1}
    CertForHost = {c1}
    Badge <- FewBadges
    DnsRecord <- OneRecord
    NoEntry = NoEntry
    NoBadge = NoBadge
    NoEvidence = NoEvidence
    Pending = Pending
    Unavailable = Unavailable
    Determinate = Determinate
    DefaultTtl = 1
    HardTtl = 3
    FailurePolicy = "FailOpenWithCache"
    MaxStaleness = 2
    DanePolicy = "Disabled"
    MaxFlight = 1
    MaxTime = 2
    MaxChanges = 1
    MaxEpoch = 1
INVARIANTS
    StickyAcrossOutage
CHECK_DEADLOCK FALSE
