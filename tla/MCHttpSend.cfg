\* HttpSend with instant and slow requests, and Retry-After absent, below and
\* above the cap of 30 s.  The call ends, so the system stops.
\* Requests take no time or 25 s; Retry-After is absent, 1 s or 50 s.
CONSTANTS
    Hint = {0, 2, 100}
    Duration = {0, 50}
SPECIFICATION FairSpec
INVARIANTS
    TypeOK
    WritesSentOnce
    BackoffBounded
    RefusedMeansNotDone
PROPERTIES
    CallEnds
CHECK_DEADLOCK FALSE
