SPECIFICATION Spec
CONSTANTS
    c1 = c1
    c2 = c2
    c3 = c3
    p1 = p1
    p2 = p2
    p3 = p3
    q1 = q1
    s1 = s1
    s2 = s2
    Sweeps = {s1, s2}
    Calls = {c1, c2}
    MaxAttempts = 2
    MaxEvents <- EventsOf
    MaxFaults <- FaultsOf
    MaxNow <- NowOf
    MaxVersion <- VersionOf
    Rows = {1}
    WorkRows = {}
    Requests = {q1}
    RequestOf <- OneRequest
    Hands = {h1}
    MaxHolders = 2
    Limit = 2
    Grace = 1
    Wait = 1
    Cap = 1
    Files = {1, 2}
    RowCount <- FileRows
    BadRows = {2}
    Batch = 1
    FreeBound = 1
    WakeBatch = 1
    Base = 2
    Digits = 4
    Tasks = {1, 2, 3}
    FirstRanks <- Ranked
    Bound = 2
    Short = 1
    Reach = 2
    MaxWrites = 2
    Assignees = {p1, p2}
    Dates = {1, 2}
    LagOf <- Morning
    MaxItems = 2
    Editors = {c3}
    Runners = {w1, w2}
    People = {p1, p2, p3}
    Founder = p1
    MaxCalls = 5
    Visits = {p1, p2}
    MaxCreds = 3
    MaxStep = 2
    Window = 1
    Checkouts = {c1, c2}
    Workers = {w1}
    MaxChanges = 2
    MaxGrants = 1
    Callers = {c1, c2}
    MaxPairs = 3
    Guarded = {c1, c2, c3}
    Failures = 2
    Cooldown = 4
    Slow = 2
    Lag = 1
    Readers = {c1, c2}
    MaxWindow = 1
    Ttl = 1
    MaxUploads = 2
    MaxSeq = 3
    KeyOf <- Entity
    Recents <- News
    Notices = {1, 3}
    PageSize = 2
    Lane = 1
    MaxInbox = 1
    MaxReads = 1
    Openers = {c1, c2}
    SocketKinds = {"session", "key"}
    TicketTtl = 1
    Expiry = 6
    Interval = 2
    Delay = 1
SYMMETRY Alike
CHECK_DEADLOCK FALSE
INVARIANTS TypesOK RelayKept RowsLandOnce RecordIsCarried ReminderKept UsedOnce OneCustomer Converges NewestPairIsKept ProbeIsAlone FreshAfterBump StoreFollowsRows TabKeepsUp ListsShowNewest SocketsClose
PROPERTIES RespaceKeepsOrder OwnerStays EndedStays
