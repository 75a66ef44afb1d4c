SPECIFICATION Spec
CONSTANTS
    Items = {1, 2}
    Orgs = {"o1"}
    OrgOf <- OneOrg
    Workers = {w1, w2}
    Tokens = {1, 2, 3}
    NoToken = 0
    MaxAttempts = 2
    Lease = 4
    RenewAfter = 1
    Fence = 2
    ClaimDelay = 1
    Skew = 1
    LaneCap = 1
    OwnCaps = {2}
    RetryBase = 1
    RetryCap = 1
    Stagger = 1
    StartDelays = {0}
    ParkDelays = {1}
    Retention = 0
    AgeBound = 0
    MaxFaults = 1
INVARIANTS RunnerHoldsItem AttemptsAgree
PROPERTIES TokenPassesThroughQueue
SYMMETRY WorkerSymmetry
