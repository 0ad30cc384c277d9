CONSTANTS
    None = None
    Ids = {i1, i2}
    Transports = {t1, t2}
    Configs = {c1}
    Threads = {k1, k2}
    Callbacks = {d1}
SPECIFICATION FairLocksSpec
PROPERTIES
    RegistryAtomic
    OperationsFinish
CHECK_DEADLOCK FALSE
