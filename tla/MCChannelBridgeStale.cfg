\* The same conversation without any error: a listing that has grown old is enough.
CONSTANTS
    Messages = {1, 2}
    QueueCap = 1
    MaxAttempts = 2
    MaxVisits = 1
    MaxFaults = 0
SPECIFICATION Spec
INVARIANT RunsItsText
\* A conversation whose replies are sent rests.
CHECK_DEADLOCK FALSE
