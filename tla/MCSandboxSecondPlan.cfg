\* The configurations of MCSandboxValues, against an empty second plan.
CONSTANTS
    Null = Null
    Unknown = Unknown
    Reserved <- MCReserved
    Config <- MCConfig
    PortNumber <- MCPortNumber
    LogicalName <- MCLogicalName
    Decimal <- MCDecimal
    Readable <- MCReadable

SPECIFICATION Spec

INVARIANT SecondPlanEmpty

\* A rejected configuration and an imported sandbox are final.
CHECK_DEADLOCK FALSE
