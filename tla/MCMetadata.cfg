SPECIFICATION Spec
CONSTANTS
    Letter = {3, 4}
    MaxName = 1
    MaxValue = 1
    MaxBytes = 7
CHECK_DEADLOCK FALSE
INVARIANTS
    MetadataTypeOK
    MetadataIsSorted
    PackFits
