CONSTANTS
    Ids = {i1, i2, i3}
    Transports = {t1, t2}
    Configs = {c1, c2}
    Callbacks = {k1, k2}
    None = None
SPECIFICATION Spec
SYMMETRY Symmetry
INVARIANTS
    TypeOK
    PoolPartition
    RoutedToOwner
    NothingHeldAfterDrop
    InFlightKeepsListener
PROPERTIES
    HandoverThroughPool
CHECK_DEADLOCK FALSE
