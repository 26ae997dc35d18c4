\* A timeout that lets the interval reach its cap of ten seconds (54 s of
\* sleeps), and loops that start with the context and after it.
\* The loop ends, so the system stops.
CONSTANTS
    Timeout = 66
    Begin = {0, 3}
    MaxGet = 1
SPECIFICATION Spec
INVARIANT TypeOK
INVARIANT SeesSoon
INVARIANT OnTime
CHECK_DEADLOCK FALSE
