SPECIFICATION Spec
CONSTANTS
    Urls = {u1, u2}
    NotHttp = {}
    Unresolvable = {u2}
    NoRequest = NoRequest
    Sockets = {s1, s2, s3}
    NoSocket = NoSocket
    Workers = {w1}
    RetryLimits = {1}
    MaxRedirects = 1
    Reads <- WholeReads
    TrailingBytes = FALSE
CHECK_DEADLOCK FALSE
INVARIANTS
    CompatibleTransport
