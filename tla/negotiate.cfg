SPECIFICATION Spec
CONSTANTS
    CONNECT_TIMEOUT = 2
    DISCONNECT_TIMEOUT = 1
    FEATURES_TIMEOUT = 3
    BIND_TIMEOUT = 3
    SESSION_TIMEOUT = 3
    LEGACY_TIMEOUT = 3
    USER_PERIOD = 1
    MaxConnects = 1
    Choices <- HandshakeFails
    Jids = {"full", "bare"}
    UserActs = {"connect", "disable_tls"}
    Incoming <- TlsServer
    IncomingRoots = {"stream"}
    Conforming = TRUE
    Garbled = FALSE
    Faults = {}
    MaxChunk = 2
    MaxQueue = 2
INVARIANTS HeaderMeetsFreshParser SaslAnswerAwaited ConnectOnceUnlessLate NeverStalled
PROPERTIES NoCleartextCredentials
