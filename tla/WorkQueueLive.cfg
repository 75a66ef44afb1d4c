SPECIFICATION FairSpec
CONSTANTS
    Items = {1, 2}
    Orgs = {"o1"}
    OrgOf <- OneOrg
    Workers = {w1}
    Tokens = {1, 2, 3, 4, 5}
    NoToken = 0
    MaxAttempts = 2
    Lease = 2
    RenewAfter = 0
    Fence = 1
    ClaimDelay = 0
    Skew = 0
    LaneCap = 1
    OwnCaps = {2}
    RetryBase = 1
    RetryCap = 1
    Stagger = 1
    StartDelays = {0}
    ParkDelays = {1}
    Retention = 0
    AgeBound = 1
    MaxFaults = 2
PROPERTIES EveryItemSettles
