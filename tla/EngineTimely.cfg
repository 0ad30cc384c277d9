CONSTANTS
    t1 = t1
    t2 = t2
    k1 = k1
    k2 = k2
    None = None
    NoSink = NoSink
    Ids = {i1, i2}
    Transports = {t1, t2}
    Callers = {k1, k2}
    Callbacks = {d1}
    Configs <- TwoMethods
    ConfigsFor <- OwnMethod
    AppName <- OwnApps
    QueueCap = 1
    MayTimeout = FALSE
SPECIFICATION EngineSpec
INVARIANTS
    HandlersLeadToListeners
    DeliveredToAddressee
PROPERTIES
    GrantedHandlerUnused
CHECK_DEADLOCK FALSE
