SPECIFICATION Spec
CONSTANTS
    StanzaHandlers = {"s", "su", "sv"}
    IdHandlers = {"i", "iu", "iv"}
    TimedHandlers = {"t", "tu"}
    Ids = {"x"}
    Stanzas <- MCStanzas
    Filter <- MCFilter
    NULL = NULL
    User = {"su", "sv", "iu", "iv", "tu"}
    Period <- MCPeriod
    Timeout = 2
    MaxHandlers = 3
    MaxAge = 3
INVARIANTS NothingLost WalkComplete SafeDeletions 
PROPERTIES CalledOnce
CHECK_DEADLOCK FALSE
