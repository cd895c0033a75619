SPECIFICATION FairSpec
CONSTANTS
    z1 = z1
    p1 = p1
    a = a
    Zones = {z1}
    Settings <- MCSettings
    Secrets = {p1}
    NoSecret = NoSecret
    Deleted = Deleted
    MaxConns = 2
    MaxSessions = 2
    Paths <- MCPaths
    Nobody = Nobody
INVARIANTS
    TypeOK
    StoredAsEnded
    OnlyWithCredentials
PROPERTIES
    UploadIsTheSession
    OnlyCutIsDropped
    ClosedIsSettled
CHECK_DEADLOCK FALSE
