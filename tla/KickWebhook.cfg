SPECIFICATION Spec
CONSTANTS
    Events = {e1, e2}
    Requests = {r1, r2}
    QueueSize = 1
    MaxAge = 2
    MaxSkew = 1
    MaxHandling = 1
    MaxTime = 7
SYMMETRY WebhookSymmetry
INVARIANTS
    TypeOK
    AcceptedAtMostOnce
    AnsweredWasAccepted
    RememberedWhileAcceptable
CHECK_DEADLOCK FALSE
