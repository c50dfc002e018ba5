SPECIFICATION Spec
CONSTANTS
    Backends = {"openssl", "schannel"}
    MaxLen = 2
    HeaderLen = 1
    MaxMessage = 2
    MaxAccepted = 3
    MaxQueue = 2
    MaxAttempts = 2
INVARIANTS HeaderFirst
CHECK_DEADLOCK FALSE
