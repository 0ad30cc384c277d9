CONSTANTS
    t1 = t1
    t2 = t2
    t3 = t3
    None = None
    StateIds = {i1, i2}
    Transports = {t1, t2, t3}
    AppName <- SharedName
    ChannelCap = 1
    MaxStates = 2
    MayFail <- LateStarts
SPECIFICATION FairSpec
INVARIANTS
    StateIdsAccounted
    StateHandlerExclusive
    WokenByOwnApp
PROPERTIES
    StartsReturn
    StartsSucceed
CHECK_DEADLOCK FALSE
