SPECIFICATION Spec
CONSTANTS
    r1 = r1
    r2 = r2
    q1 = q1
    q2 = q2
    cold = cold
    none = none
    api = api
    sweep = sweep
    None = none
    Resources <- TwoResources
    Requests <- TwoRequests
    Names <- Selectors
    Needs <- NeedA
    LabelSets <- Labels
    Term <- Terms
    Window <- FirstHasJob
    Wait <- ShortTerms
    Named = {3}
    Bounds = {1, 2}
    Waiters = {}
    Callers = {api, sweep}
    Sweepers = {api, sweep}
    Margin = 2
    Skew = 1
    Lag = 1
    OfferTries = 2
    MaxMoves = 1
SYMMETRY AlikeSymmetry
INVARIANTS AnchorAgrees ActsUnderLease
PROPERTIES SettledIsFinal GrantsFit
