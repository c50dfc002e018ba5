SPECIFICATION FairSpec
CONSTANTS
    Conns = {a, b}
    Sockets = {3, 4}
    MaxRef = 2
    NULL = NULL
INVARIANTS WalksLiveItems  
PROPERTIES StopEnds Served
CHECK_DEADLOCK FALSE
