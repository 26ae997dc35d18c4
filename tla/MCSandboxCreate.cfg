\* Two addresses of one process and one of another, against a prompt service.
CONSTANTS
    a1 = a1
    a2 = a2
    b1 = b1
    p = p
    q = q
    kp = kp
    kq = kq
    n = n
    f = f
    g = g
    Address = {a1, a2, b1}
    Proc = {p, q}
    Key = {kp, kq}
    Name = {n}
    Fingerprint = {f, g}
    ObjectId = {i1, i2}
    NoId = NoId
    Free = Free
    ProcOf <- MCProcOf
    KeyOf <- MCKeyOf
    NameOf <- MCNameOf
    FingerprintOf <- MCOtherConfig
    Retain = {a2}
    PromptService = TRUE
SPECIFICATION Spec
SYMMETRY MCIds
INVARIANTS
    TypeOK
    CreatesSerialized
    NoDuplicates
    SoleOwner
    KeepsOwnPut
    ClaimsMatch
PROPERTIES
    NeverForgetsLive
    KeepsPromise
