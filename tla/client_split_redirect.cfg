SPECIFICATION Spec
CONSTANTS
    Urls = {u1, u2}
    NotHttp = {}
    Unresolvable = {}
    NoRequest = NoRequest
    Sockets = {s1, s2, s3}
    NoSocket = NoSocket
    Workers = {w1}
    RetryLimits = {1}
    MaxRedirects = 1
    Reads <- PartReads
    TrailingBytes = FALSE
CHECK_DEADLOCK FALSE
INVARIANTS
    ReportedOrFollowed
