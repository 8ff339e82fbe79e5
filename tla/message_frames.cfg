SPECIFICATION Spec
CONSTANTS
    Messages <- MCMessages
    Uint32 = 65536
    Uint8 = 256
INVARIANTS Framed Delivered EndsLast Refused
PROPERTY HeadersKept
CHECK_DEADLOCK FALSE
