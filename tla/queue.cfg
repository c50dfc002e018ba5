SPECIFICATION FairSpec
CONSTANTS
    Backends = {"openssl", "schannel"}
    MaxLen = 5
    HeaderLen = 1
    MaxMessage = 2
    MaxAccepted = 7
    MaxQueue = 2
    MaxAttempts = 2
INVARIANTS QueueInv
PROPERTIES StreamSpec Delivered
CHECK_DEADLOCK FALSE
