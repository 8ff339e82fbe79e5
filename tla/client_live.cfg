SPECIFICATION FairSpec
CONSTANTS
    Urls = {u1, u2, ftp}
    NotHttp = {ftp}
    Unresolvable = {}
    NoRequest = NoRequest
    Sockets = {s1, s2}
    NoSocket = NoSocket
    Workers = {w1}
    RetryLimits = {0, 1}
    MaxRedirects = 1
    Reads <- PartReads
    TrailingBytes = FALSE
CHECK_DEADLOCK FALSE
INVARIANTS
    NoFatalError
PROPERTIES
    ApiSpec
