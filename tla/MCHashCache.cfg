CONSTANTS
    p1 = p1
    p2 = p2
    p3 = p3
    q1 = q1
    a = a
    b = b
    c = c
    gone = gone
    Gone = gone
    Fsids <- Datasets
    PathsOf <- Paths
    InitNames <- Names
    InitData <- Contents
    Versions <- Edits
    Hash = {a, b, c}
    BatchSize = 2
    Scans <- WholeOrPart
    WalkErrors = FALSE
    MaxStamps = 2
    MaxRuns = 3
SPECIFICATION MCSpec
INVARIANTS
    TypeOK
    CacheHonest
    HashedIsCached
    WarmRunReadsNothing
PROPERTIES
    NeverEvictsUnvisited
