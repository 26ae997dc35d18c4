\* Configurations, their plans, and the ports through apply, refresh and import.
CONSTANTS
    Null = Null
    Unknown = Unknown
    Reserved <- MCReserved
    Config <- MCConfig
    PortNumber <- MCPortNumber
    LogicalName <- MCLogicalName
    Decimal <- MCDecimal
    Readable <- MCReadable

SPECIFICATION Spec

INVARIANTS
    TypeOK
    ValidationExact
    RejectedForCause
    CompletePortsKept
    PortsShown
    RestorableImported

\* A rejected configuration and an imported sandbox are final.
CHECK_DEADLOCK FALSE
