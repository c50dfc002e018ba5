SPECIFICATION Spec
CONSTANTS
    CONNECT_TIMEOUT = 1
    DISCONNECT_TIMEOUT = 1
    FEATURES_TIMEOUT = 1
    BIND_TIMEOUT = 1
    SESSION_TIMEOUT = 1
    LEGACY_TIMEOUT = 1
    USER_PERIOD = 1
    MaxConnects = 2
    Choices <- CalmOnly
    Jids = {"full"}
    UserActs = {"connect", "add_handlers"}
    Incoming <- SimpleServer
    IncomingRoots = {"stream"}
    Conforming = TRUE
    Garbled = FALSE
    Faults = {"read"}
    MaxChunk = 1
    MaxQueue = 1
INVARIANTS UserHandlersAfterConnect
