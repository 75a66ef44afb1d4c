SPECIFICATION FairSpec
CONSTANTS
    Runs = {1, 2}
    Digests = {1, 2}
    PendingTtl = 1
    AbandonAge = 2
    Retention = 2
    Skew = 1
    Overtaking = FALSE
    MaxAttempts = 4
    MaxFaults = 2
    MaxPurges = 1
INVARIANTS OneCreate RecordedSecretWorks AnswersAgree
PROPERTIES RetriesAreAnswered
CHECK_DEADLOCK FALSE
