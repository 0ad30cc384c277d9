CONSTANTS
    q1 = q1
    q2 = q2
    q3 = q3
    q4 = q4
    None = None
    HalfWord = 3
    Clients = {1}
    UReqs = {q1, q2, q3, q4}
    ClientOf <- OneClient
    Uuids = {u1, u2}
    Statuses = {"NoStatus", "UNAVAILABLE"}
    OverflowChecks = FALSE
    Lossy = TRUE
    MaxCopies = 1
SPECIFICATION Spec
INVARIANTS
    TypeOK
    AnsweredAtMostOnce
    StatusSurvives
PROPERTIES
    CorrelationNotOverwritten
CHECK_DEADLOCK FALSE
