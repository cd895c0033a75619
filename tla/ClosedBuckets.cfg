SPECIFICATION HistorySpec
CONSTANTS
    Hour = 2
    RawKept = 3
    HourlyKept = 4
    Unread = Unread
    LastTick = 6
PROPERTIES
    ClosedBucketsKept
