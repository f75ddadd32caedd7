CONSTANTS
    a = a
    b = b
    c = c
    x = x
    w1 = w1
    w2 = w2
    zeroHash = zeroHash
    ZeroHash = zeroHash
    ZeroVal = zeroVal
    Values = {a, b}
    Workers <- OneTask
    Inputs <- Pair
    Modes <- InKernelOnly
    UserOps = {"shrink"}
    PathTroubles = {"gone"}
    MaxUserOps = 1
    MaxFaults = 0
    PartialDedupe = FALSE
    MaxRunBytes = 4
    MaxChunks = 3
SPECIFICATION Spec
INVARIANTS
    ShrunkIsNotAnError
