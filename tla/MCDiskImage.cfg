\* Two addresses with one name; an image that comes first in the list is made
\* elsewhere, without labels or with those of the configuration of a1.
CONSTANTS
    a1 = a1
    a2 = a2
    p = p
    k = k
    n = n
    f = f
    g = g
    Address = {a1, a2}
    Proc = {p}
    Key = {k}
    Name = {n}
    Fingerprint = {f, g}
    ObjectId = {1, 2, 3}
    Foreign = {1}
    Copied = {a1}
    NoImage = NoImage
    NullId = NullId
    Free = Free
    ProcOf <- MCOneProc
    KeyOf <- MCOneKey
    NameOf <- MCOneName
    FingerprintOf <- MCTwoConfigs
    Boxed = {a1}
    PageSize = 1
SPECIFICATION Spec
INVARIANTS
    TypeOK
    NoDuplicates
    SoleOwner
    RefusalHasCause
PROPERTY NeverForgetsLive
