SPECIFICATION Spec
CONSTANTS
    Requests = {r1, r2}
    Jobs = {j1, j2}
    PoolSize = 1
INVARIANT StopInv
INVARIANT CleanStop
PROPERTY StopsInTheEnd
CHECK_DEADLOCK FALSE
