SPECIFICATION Spec
CONSTANTS
    HeadLen = 2
    BodyLen = 2
    UploadRead = 1
    MaxRequests = 1
CHECK_DEADLOCK FALSE
INVARIANT PackageFormat
