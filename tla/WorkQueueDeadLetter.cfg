SPECIFICATION Spec
CONSTANTS
    Items = {1}
    Orgs = {"o1"}
    OrgOf <- OneOrg
    Workers = {w1}
    Tokens = {1, 2, 3}
    NoToken = 0
    MaxAttempts = 1
    Lease = 4
    RenewAfter = 1
    Fence = 2
    ClaimDelay = 1
    Skew = 0
    LaneCap = 0
    OwnCaps = {2}
    RetryBase = 1
    RetryCap = 1
    Stagger = 1
    StartDelays = {0}
    ParkDelays = {1}
    Retention = 1
    AgeBound = 1
    MaxFaults = 0
INVARIANTS DeadLetterNamed
