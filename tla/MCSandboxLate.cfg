\* Two addresses of one process, against a service that commits and lists
\* late.  Their calls must end.
CONSTANTS
    a1 = a1
    a2 = a2
    b1 = b1
    p = p
    q = q
    kp = kp
    kq = kq
    n = n
    f = f
    g = g
    Address = {a1, a2}
    Proc = {p}
    Key = {kp}
    Name = {n}
    Fingerprint = {f, g}
    ObjectId = {i1, i2}
    NoId = NoId
    Free = Free
    ProcOf <- MCOneProc
    KeyOf <- MCOneKey
    NameOf <- MCOneName
    FingerprintOf <- MCTwoConfigs
    Retain = {}
    PromptService = FALSE
SPECIFICATION FairSpec
INVARIANT GoodEntriesRan
PROPERTY CallsEnd
