CONSTANTS
    NoSink = NoSink
    Messages <- SomeMessages
    Listeners <- SomeListeners
    Here = "here"
    There = "there"
    OwnVersion = 1
    ClientId = 5
SPECIFICATION Spec
INVARIANTS
    ListenerReached
    OnlyAskedFor
    MessageSurvives
    ResponseReturns
CHECK_DEADLOCK FALSE
