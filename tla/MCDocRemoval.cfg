SPECIFICATION Spec
CONSTANTS
    Dst = {1, 2}
    Peer = {1}
    Metric = {1}
    MinRtt = 3
    Configured = {}
    Noise = {}
    PathMetric = 1
    DeepDelete = 1
    RttLeastMove = {FALSE}
    RttLeastThresh = 10
    EnableAdvertise = TRUE
    MayReread = FALSE
    AdvertiseSame = FALSE
    ExplicitWithdraw = FALSE
    RpcMayFail = FALSE
    ThreadMayExit = FALSE
    MaxProbe = 3
    MaxSkip = 0
    MaxRestart = 0
INVARIANTS
    RemovedFromRoutersToo
