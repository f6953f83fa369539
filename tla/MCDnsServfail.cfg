SPECIFICATION Spec
CONSTANTS
    Absent = Absent
    Bad = Bad
    Malformed = Malformed
    NoIssuer = NoIssuer
    MaxSkew = 2
    PopSkew = 2
    MaxHashPathLen = 63
    NoReply = NoReply
    Null = Null
    MaxRedirects = 3
    DefaultCache <- MCDefaultCache
INVARIANT ServFailIsOutage
CHECK_DEADLOCK FALSE
