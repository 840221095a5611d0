\* Two messages, the waiting room holds one; a guest may take the session once
\* and one error or death may come anywhere.
CONSTANTS
    Messages = {1, 2}
    QueueCap = 1
    MaxAttempts = 2
    MaxVisits = 1
    MaxFaults = 1
SPECIFICATION Spec
INVARIANTS
    TypeOK
    OneRun
    NothingLost
    ReplyOwed
    ReplyOnce
\* A conversation whose replies are sent rests.
CHECK_DEADLOCK FALSE
