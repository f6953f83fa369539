SPECIFICATION Spec
SYMMETRY Callers
CONSTANTS
    c1 = c1
    c2 = c2
    noName = noName
    Task = {t1, t2}
    Host = host
    Version = {1, 2}
    Cert = {c1, c2, noName}
    Names <- CertNames
    Badge <- Badges
    DnsRecord <- Records
    NoEntry = NoEntry
    NoBadge = NoBadge
    Waiting = Waiting
    NoMatch = NoMatch
    Unavailable = Unavailable
    Determinate = Determinate
    DefaultTtl = 1
    HardTtl = 3
    FailurePolicy = "FailOpenWithCache"
    MaxStaleness = 2
    MaxFlight = 1
    MaxTime = 2
    MaxChanges = 1
    MaxEpoch = 1
    MaxCalls = 3
INVARIANTS
    EvidenceAgeBounded
    MismatchIsFresh
    RejectionSticky
    VouchedIsAccepted
CHECK_DEADLOCK FALSE
