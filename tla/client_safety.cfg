SPECIFICATION Spec
CONSTANTS
    Urls = {u1, u2}
    NotHttp = {}
    Unresolvable = {}
    NoRequest = NoRequest
    Sockets = {s1, s2, s3}
    NoSocket = NoSocket
    Workers = {w1, w2}
    RetryLimits = {1}
    MaxRedirects = 1
    Reads <- AllReads
    TrailingBytes = FALSE
CHECK_DEADLOCK FALSE
SYMMETRY Alike
INVARIANTS
    TypeOK
    OneJob
    NothingNull
    BoundedRequests
    Awaited
    CompatibleTransport
PROPERTIES
    ApiSafety
