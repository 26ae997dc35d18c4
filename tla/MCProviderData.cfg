\* Credentials for every provider block, and concurrent calls of up to three resources.
CONSTANTS
    Null = Null
    Unknown = Unknown
    c1 = c1
    c2 = c2
    c3 = c3
    Call <- MCCall
    Config <- MCConfig
    Regional <- MCRegional
    Suffixed <- MCSuffixed

SPECIFICATION Spec

INVARIANTS
    TypeOK
    ChainAsDocumented
    ClientsShared
    ImportKeepsScope

PROPERTY
    LockCreateSerializes

\* The calls of a configuration end.
CHECK_DEADLOCK FALSE
