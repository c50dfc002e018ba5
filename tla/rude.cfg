SPECIFICATION Spec
CONSTANTS
    CONNECT_TIMEOUT = 1
    DISCONNECT_TIMEOUT = 1
    FEATURES_TIMEOUT = 1
    BIND_TIMEOUT = 1
    SESSION_TIMEOUT = 1
    LEGACY_TIMEOUT = 1
    USER_PERIOD = 1
    MaxConnects = 1
    Choices <- AnythingGoes
    Jids = {"full"}
    UserActs = {"connect", "disconnect"}
    Incoming <- RudeServer
    IncomingRoots = {"stream", "stream_noid", "other"}
    Conforming = FALSE
    Garbled = TRUE
    Faults = {"pending"}
    MaxChunk = 2
    MaxQueue = 1
INVARIANTS TypeOK 
PROPERTIES AuthenticatedByServer
