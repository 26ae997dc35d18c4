\* Five configurations of one sandbox with one or no port.
CONSTANTS
    d = d
    other = other
    bare = bare
    entra = entra
    p = p
    q = q
    Policy = {d, other}
    Default = d
    PortNumber = {p, q}
    Setting = {bare, entra}
    Bare = bare
    Null = Null
    Config <- MCConfig
SPECIFICATION FairSpec
INVARIANTS
    TypeOK
    SuccessMeansApplied
    DriftHasCause
    ResumesOnlyWhenAllowed
PROPERTY UpdateEnds
