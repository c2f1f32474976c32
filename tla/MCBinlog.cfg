SPECIFICATION BinlogSpec
CONSTANTS
    Thread = {t1, t2, t3}
    Op = {C}
    Path = {f}
    Stamp = 7
    MaxRecords = 2
    BufRecords = 2
    MaxCalls = 3
SYMMETRY Symmetry
INVARIANTS
    BinlogTypeOK
    OkMeansOnDisk
    BufferedOnlyInCall
    LoggedOnce
    NoEarlyRotation
PROPERTIES
    DurableAppendOnly
    ImplementsAppendLog
