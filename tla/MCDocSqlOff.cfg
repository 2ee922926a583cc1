SPECIFICATION Spec
CONSTANTS
    Dst = {1}
    Peer = {1, 2}
    Metric = {1, 2, 3}
    Replies <- MCReplies
    MinRtt = 9
    Configured = {3}
    EnableSqlLog = FALSE
    DbMayFail = TRUE
    MaxProbe = 1
INVARIANTS
    OffMeansNoRows
