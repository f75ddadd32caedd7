SPECIFICATION Spec
CONSTANTS
    w1 = w1
    w2 = w2
    nil = nil
    Nil = nil
    Jobs = {w1, w2}
    Capacity = 1
    Roots <- Overlapping
    exclude <- Cache
    DirInodes <- MCDirs
    FileInodes <- MCFiles
    InitEnts <- MCEnts
    Slash <- Root
    InitMounts <- Binds
    NewMounts <- Late
    NewNames = {"new"}
    Fsid <- MCFsid
    MaxUserOps = 0
    MaxFaults = 0
INVARIANT OnePathPerInode
CHECK_DEADLOCK FALSE
