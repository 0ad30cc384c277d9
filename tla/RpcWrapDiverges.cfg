CONSTANTS
    q1 = q1
    q2 = q2
    q3 = q3
    q4 = q4
    None = None
    HalfWord = 3
    Clients = {1}
    UReqs = {q1, q2, q3, q4}
    ClientOf <- OneClient
    Uuids = {u1, u2, u3, u4}
    Statuses = {"OK"}
    OverflowChecks = FALSE
    Lossy = FALSE
    MaxCopies = 0
SPECIFICATION Spec
INVARIANTS
    StoredUnderWireId
CHECK_DEADLOCK FALSE
