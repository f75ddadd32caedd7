CONSTANTS
    a = a
    b = b
    c = c
    x = x
    w1 = w1
    w2 = w2
    zeroHash = zeroHash
    ZeroHash = zeroHash
    ZeroVal = zeroVal
    Values = {a, b, c, x}
    Workers <- TwoTasks
    Inputs <- LiveLayouts
    Modes <- Unforced
    UserOps = {"overwrite", "append", "shrink", "relink"}
    PathTroubles = {"gone", "leased", "executing", "denied", "special"}
    MaxUserOps = 2
    MaxFaults = 1
    PartialDedupe = TRUE
    MaxRunBytes = 4
    MaxChunks = 3
SYMMETRY TaskSymmetry
SPECIFICATION Spec
INVARIANTS
    TypeOK
    ReclaimedAsReported
    EveryRunAccounted
PROPERTIES
    RefinesOfflineDedup
