CONSTANTS
    t1 = t1
    t2 = t2
    k1 = k1
    k2 = k2
    None = None
    NoSink = NoSink
    Ids = {i1, i2}
    Transports = {t1}
    Callers = {k1, k2}
    Callbacks = {}
    Configs <- TwoMethods
    ConfigsFor <- OwnMethod
    AppName <- OneApp
    QueueCap = 2
    MayTimeout = TRUE
SPECIFICATION FairEngineSpec
INVARIANTS
    SettledAgreement
    ReplyBelongsToCall
PROPERTIES
    CallsReturn
    DropStopsApp
    RegistryImplemented
CHECK_DEADLOCK FALSE
