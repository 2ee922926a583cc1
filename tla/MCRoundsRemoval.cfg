SPECIFICATION Spec
CONSTANTS
    Dst = {1, 2}
    Peer = {1}
    Metric = {1}
    MinRtt = 3
    Configured = {}
    Noise = {}
    PathMetric = 1
    DeepDelete = 1
    RttLeastMove = {FALSE}
    RttLeastThresh = 10
    EnableAdvertise = TRUE
    MayReread = FALSE
    AdvertiseSame = FALSE
    ExplicitWithdraw = FALSE
    RpcMayFail = FALSE
    ThreadMayExit = FALSE
    MaxProbe = 4
    MaxSkip = 1
    MaxRestart = 0
INVARIANTS
    OrphanNeedsCause
    ShutdownWithdrawsAll
    TwoRoundsKept
    RouteWithinR
    NullNeedsLateReply
