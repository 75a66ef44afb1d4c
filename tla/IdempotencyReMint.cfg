SPECIFICATION Spec
CONSTANTS
    Runs = {1, 2}
    Digests = {1}
    PendingTtl = 1
    AbandonAge = 2
    Retention = 2
    Skew = 1
    Overtaking = TRUE
    MaxAttempts = 4
    MaxFaults = 2
    MaxPurges = 0
INVARIANT RecordedSecretWorks
CHECK_DEADLOCK FALSE
