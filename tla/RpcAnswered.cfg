CONSTANTS
    q1 = q1
    q2 = q2
    q3 = q3
    q4 = q4
    None = None
    HalfWord = 4
    Clients = {1, 2}
    UReqs = {q1, q2, q3, q4}
    ClientOf <- TwoClients
    Uuids = {u1, u2, u3, u4}
    Statuses = {"OK"}
    OverflowChecks = TRUE
    Lossy = FALSE
    MaxCopies = 1
SPECIFICATION FairSpec
INVARIANTS
    StoredUnderWireId
    ResponseAnswersRequest
PROPERTIES
    RequestsAnswered
CHECK_DEADLOCK FALSE
