SPECIFICATION Spec
CONSTANTS
    q1 = q1
    Rows = {1}
    WorkRows = {}
    Requests = {q1}
    RequestOf <- OneRequest
    Hands = {h1}
    Sweeps = {s1, s2}
    MaxHolders = 2
    MaxAttempts = 2
    Limit = 2
    Grace = 1
    Base = 1
    Cap = 2
    MaxFaults = 0
SYMMETRY SweepSymmetry
PROPERTIES FailedForGood
