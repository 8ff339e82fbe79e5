SPECIFICATION Spec
CONSTANTS
    Connections = {s1, s2, s3, s4, s5}
    Pool = 2
    Certificates = {TRUE, FALSE}
    Requests <- Kinds
INVARIANTS
    SelfKept
CHECK_DEADLOCK FALSE
