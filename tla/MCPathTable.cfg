SPECIFICATION Spec
CONSTANTS
    Byte = {0, 1, 2}
    Width = 11
    Parents <- MCParents
    FileNames <- MCNames
    MaxFiles = 4
INVARIANTS TypeOK FilesResolve StoredOnce
CHECK_DEADLOCK FALSE
