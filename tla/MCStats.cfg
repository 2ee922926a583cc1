SPECIFICATION Spec
CONSTANTS
    NPath = 2
    PingReq = 3
    Rtt = {100, 115, 300}
    RttCap = 200
INVARIANTS
    AggregateIsSnapshot
    MoreRepliesNeverHurt
    DeviationWithinRange
    NullNeedsNewPath
