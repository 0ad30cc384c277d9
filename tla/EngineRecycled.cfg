CONSTANTS
    t1 = t1
    t2 = t2
    k1 = k1
    k2 = k2
    None = None
    NoSink = NoSink
    Ids = {i1}
    Transports = {t1}
    Callers = {k1}
    Callbacks = {}
    Configs <- TwoKinds
    ConfigsFor <- Everything
    AppName <- OneApp
    QueueCap = 1
    MayTimeout = FALSE
SPECIFICATION EngineSpec
PROPERTIES
    GrantedHandlerUnused
CHECK_DEADLOCK FALSE
