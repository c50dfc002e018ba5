SPECIFICATION Spec
CONSTANTS
    CONNECT_TIMEOUT = 1
    DISCONNECT_TIMEOUT = 1
    FEATURES_TIMEOUT = 1
    BIND_TIMEOUT = 1
    SESSION_TIMEOUT = 1
    LEGACY_TIMEOUT = 1
    USER_PERIOD = 1
    MaxConnects = 2
    Choices <- UserDecides
    Jids = {"full", "anonymous"}
    UserActs = {"connect", "disconnect", "send", "add_handlers"}
    Incoming <- SimpleServer
    IncomingRoots = {"stream"}
    Conforming = TRUE
    Garbled = FALSE
    Faults = {"connect","read","write","block"}
    MaxChunk = 2
    MaxQueue = 1
INVARIANTS TimersPaired CloseWatched DisconnectOnce
PROPERTY LifecycleSpec
