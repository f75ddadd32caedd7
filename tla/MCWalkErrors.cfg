CONSTANTS
    p1 = p1
    p2 = p2
    p3 = p3
    q1 = q1
    a = a
    b = b
    c = c
    gone = gone
    Gone = gone
    Fsids <- Datasets
    PathsOf <- Paths
    InitNames <- Names
    InitData <- Contents
    Versions <- Edits
    Hash = {a, b, c}
    BatchSize = 2
    Scans <- WholeOrPart
    WalkErrors = TRUE
    MaxStamps = 0
    MaxRuns = 2
SPECIFICATION MCSpec
PROPERTIES
    NeverEvictsUnvisited
