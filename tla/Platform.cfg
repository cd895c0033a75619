SPECIFICATION MCSpec
CONSTANTS
    n1 = n1
    svc = svc
    dA = dA
    dB = dB
    c1 = c1
    Names <- MCNames
    Displays <- MCDisplays
    Slug <- MCSlug
    NoSlug = NoSlug
    Unnamed = dB
    Caps <- MCCaps
    Unlimited = Unlimited
    Malformed = Malformed
    NoSchema = NoSchema
    NoRow = NoRow
    Services = {svc}
    Forms <- MCForms
    Drift = 1
    Visits = {v1, v2, v3}
    NoVisit = NoVisit
    Torn = Torn
    MaxKills = 2
    MaxRotations = 2
    Hour = 2
    RawKept = 3
    HourlyKept = 4
    Unread = Unread
    LastTick = 5
    Items = {i1, i2}
    JoinKeys = {k1, k2}
    Values = {w1, w2}
    LastTime = 3
    MaxVersions = 4
    NoVersion = NoVersion
    Models = {1, 2, 3}
    Source = Source
INVARIANTS
    TypeOK
    CacheFollowsCatalog
    PersonsAreNoTenants
    RolesHaveSchemas
    VisitsStoredOnce
    CursorPassesNothing
    BucketsExactWhileRaw
    HistoryHasEveryHour
    JoinIsEveryChange
    ColumnsFollowReads
    LabelsStayInside
PROPERTIES
    CreationIsNew
    PastIsKept
CHECK_DEADLOCK FALSE
