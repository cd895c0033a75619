SPECIFICATION FairSpec
CONSTANTS
    t1 = t1
    h1 = h1
    h2 = h2
    x1 = x1
    x2 = x2
    Tokens = {t1}
    Threads = {h1, h2}
    Tables = {x1}
    Free = Free
    NoTable = NoTable
    NoToken = NoToken
INVARIANTS
    TypeOK
    UndisturbedUploadIsWhole
    TruncationBlocksCommit
    EndedLeavesNoDirectory
PROPERTIES
    AbandonedIsSwept
