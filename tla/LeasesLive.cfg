SPECIFICATION FairSpec
CONSTANTS
    r1 = r1
    r2 = r2
    q1 = q1
    q2 = q2
    cold = cold
    none = none
    api = api
    sweep = sweep
    None = none
    Resources <- OneResource
    Requests <- TwoRequests
    Names <- FirstNames
    Needs <- NeedA
    LabelSets <- Labels
    Term <- Terms
    Window <- FirstHasJob
    Wait <- Waits
    Named = {}
    Bounds = {1}
    Waiters = {q2}
    Callers = {api, sweep}
    Sweepers = {sweep}
    Margin = 2
    Skew = 1
    Lag = 1
    OfferTries = 2
    MaxMoves = 1
INVARIANT ParkedStillWaits
PROPERTIES LineMoves ParkedIsTold
