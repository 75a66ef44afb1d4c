SPECIFICATION LiveSpec
CONSTANTS
    b1 = b1
    b2 = b2
    b3 = b3
    q1 = q1
    Rows = {1, 2}
    WorkRows = {2}
    Requests = {q1}
    RequestOf <- OneRequest
    Hands = {}
    Sweeps = {s1}
    MaxHolders = 1
    MaxAttempts = 2
    Limit = 2
    Grace = 1
    Base = 1
    Cap = 2
    MaxFaults = 1
PROPERTIES EveryRowSettles Recovers CatchesUp
CHECK_DEADLOCK FALSE
