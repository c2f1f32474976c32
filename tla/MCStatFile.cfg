SPECIFICATION Spec
CONSTANTS
    Thread = {t1, t2}
    Path = {}
    Commands = 1
    Freq = 2
    MaxRequests = 4
SYMMETRY Symmetry
INVARIANTS
    StatTypeOK
    NeverOvercounted
    WholeWhenQuiet
    LastWriteStands
    LossIsBounded
