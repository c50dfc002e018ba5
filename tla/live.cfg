SPECIFICATION LoopSpec
CONSTANTS
    CONNECT_TIMEOUT = 1
    DISCONNECT_TIMEOUT = 1
    FEATURES_TIMEOUT = 1
    BIND_TIMEOUT = 1
    SESSION_TIMEOUT = 1
    LEGACY_TIMEOUT = 1
    USER_PERIOD = 1
    MaxConnects = 1
    Choices <- HandshakeFails
    Jids = {"full"}
    UserActs = {"connect", "disconnect"}
    Incoming <- TlsServer
    IncomingRoots = {"stream"}
    Conforming = TRUE
    Garbled = FALSE
    Faults = {"block"}
    MaxChunk = 1
    MaxQueue = 1
PROPERTIES DisconnectCompletes NegotiationTerminates
