CONSTANTS
    t1 = t1
    k1 = k1
    k2 = k2
    None = None
    NoSink = NoSink
    Ids = {i1, i2}
    Transports = {t1}
    Callers = {k1, k2}
    Callbacks = {}
    Configs <- AllConfigs
    ConfigsFor <- OneListener
    AppName <- OneApp
    Authority = "local"
    Services <- TwoServices
    MessagesFor <- RequestOrOther
    QueueCap = 1
    MayTimeout = TRUE
SYMMETRY IdsAlike
VIEW Unannounced
SPECIFICATION PointSpec
INVARIANTS
    EveryServiceForwarded
    UnregisteringTakesBack
PROPERTIES
    ResponseHandlerFirst
CHECK_DEADLOCK FALSE
