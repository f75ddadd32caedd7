SPECIFICATION FairSpec
CONSTANTS
    w1 = w1
    w2 = w2
    nil = nil
    Nil = nil
    Jobs = {w1, w2}
    Capacity = 1
    Roots <- Disjoint
    exclude <- Cache
    DirInodes <- MCDirs
    FileInodes <- MCFiles
    InitEnts <- MCEnts
    Slash <- Root
    InitMounts <- Binds
    NewMounts <- Late
    NewNames = {"new"}
    Fsid <- MCFsid
    MaxUserOps = 1
    MaxFaults = 1
INVARIANTS TypeOK OnlyThisDataset HardlinksCollapse NothingMissed
PROPERTY WalkReturns
CHECK_DEADLOCK FALSE
