SPECIFICATION Spec
CONSTANTS
    HeadLen = 2
    BodyLen = 2
    UploadRead = 1
    MaxRequests = 3
CHECK_DEADLOCK FALSE
INVARIANTS
    ConnectionTypeOK
    InSync
    RepliesAreReadable
PROPERTY Answered
