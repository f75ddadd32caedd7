CONSTANTS
    a = a
    b = b
    c = c
    x = x
    w1 = w1
    w2 = w2
    zeroHash = zeroHash
    ZeroHash = zeroHash
    ZeroVal = zeroVal
    Values = {a, b, c}
    Workers <- TwoTasks
    Inputs <- QuietLayouts
    Modes <- AllModes
    UserOps = {}
    PathTroubles = {}
    MaxUserOps = 0
    MaxFaults = 0
    PartialDedupe = FALSE
    MaxRunBytes = 4
    MaxChunks = 3
SYMMETRY TaskSymmetry
SPECIFICATION Spec
INVARIANTS
    PlanIsExact
    DestinationsDisjoint
    SourcesNeverWritten
    RunsAreIoctlReady
    RunsAreMaximal
    DuplicatesCollapsed
    DryRunForetells
PROPERTIES
    RefinesOfflineDedup
