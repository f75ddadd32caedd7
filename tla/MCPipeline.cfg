SPECIFICATION Spec
CONSTANTS
    Tables <- Hosts
    Requests <- AllRequests
    PathOrder <- Sorted
    Zfs = {1, 2, 3, 4}
    Cloneable = {1, 2, 3}
    Kernels = {TRUE, FALSE}
    MaxGone = 1
INVARIANTS TypeOK WritesAsAsked RootsWritable EveryDatasetScanned
PROPERTY HostUntouched
CHECK_DEADLOCK FALSE
