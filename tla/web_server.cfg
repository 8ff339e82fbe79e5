SPECIFICATION FairSpec
CONSTANTS
    Connections = {s1, s2, s3, s4, s5}
    Pool = 2
    Certificates = {TRUE, FALSE}
    Requests <- WellFormed
INVARIANTS
    TypeOK
    PoolKept
    SelfKept
PROPERTIES
    Released
CHECK_DEADLOCK FALSE
