CONSTANTS
    None = None
    Messages = {m1, m2, m3}
    Workers = 2
    Blocking = {m1}
SPECIFICATION FairSpec
INVARIANTS
    CancelledOnlyByDrop
PROPERTIES
    NoListenerAfterDrop
    DropReturns
    ListenersRun
CHECK_DEADLOCK FALSE
