\* An update of deletion_policy alone.
CONSTANTS
    a1 = a1
    a2 = a2
    p = p
    k = k
    n = n
    f = f
    g = g
    Address = {a1, a2}
    Proc = {p}
    Key = {k}
    Name = {n}
    Fingerprint = {f, g}
    ObjectId = {1, 2, 3}
    Foreign = {1}
    Copied = {a1}
    NoImage = NoImage
    NullId = NullId
    Free = Free
    ProcOf <- MCOneProc
    KeyOf <- MCOneKey
    NameOf <- MCOneName
    FingerprintOf <- MCTwoConfigs
    Boxed = {a1}
    PageSize = 1
SPECIFICATION Spec
PROPERTY KeepsEntry
