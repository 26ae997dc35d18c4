\* Two states that configure the same sandbox, each applied by its own process.
CONSTANTS
    a1 = a1
    a2 = a2
    b1 = b1
    p = p
    q = q
    kp = kp
    kq = kq
    n = n
    f = f
    g = g
    Address = {a1, b1}
    Proc = {p, q}
    Key = {kp, kq}
    Name = {n}
    Fingerprint = {f}
    ObjectId = {i1}
    NoId = NoId
    Free = Free
    ProcOf <- MCTwoProcs
    KeyOf <- MCTwoKeys
    NameOf <- MCTwoNames
    FingerprintOf <- MCSameConfig
    Retain = {}
    PromptService = TRUE
SPECIFICATION Spec
INVARIANT RecoversOwnPut
