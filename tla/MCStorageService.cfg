SPECIFICATION Spec
CONSTANTS
    Thread = {t1, t2}
    Path <- MCPath
    DataFile <- MCDataFile
    MetaOf <- MCMetaOf
    Settings <- MCSettings
    Op <- MCOp
    Content <- MCContent
    Inode = {1, 2, 3, 4}
    Stamp = 7
    MaxRecords = 4
    BufRecords = 2
    MaxCalls = 6
    MaxRequests = 2
SYMMETRY Symmetry
CHECK_DEADLOCK FALSE
INVARIANTS
    TypeOK
    IncompleteOnlyWhileWritten
    ReadsAreWhole
    AckedIsLogged
    LastRecordAgrees
