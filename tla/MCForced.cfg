CONSTANTS
    a = a
    b = b
    c = c
    x = x
    w1 = w1
    w2 = w2
    zeroHash = zeroHash
    ZeroHash = zeroHash
    ZeroVal = zeroVal
    Values = {a, b, c, x}
    Workers <- TwoTasks
    Inputs <- ForcedLayouts
    Modes <- ForcedOnly
    UserOps = {"overwrite", "append", "shrink"}
    PathTroubles = {}
    MaxUserOps = 2
    MaxFaults = 0
    PartialDedupe = FALSE
    MaxRunBytes = 4
    MaxChunks = 3
SPECIFICATION Spec
PROPERTIES
    LostWritesAreRaces
