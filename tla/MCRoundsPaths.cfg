SPECIFICATION Spec
CONSTANTS
    Dst = {1}
    Peer = {1, 2}
    Metric = {1, 2}
    MinRtt = 3
    Configured = {2}
    Noise = {0}
    PathMetric = 1
    DeepDelete = 1
    RttLeastMove = {TRUE, FALSE}
    RttLeastThresh = 10
    EnableAdvertise = TRUE
    MayReread = TRUE
    AdvertiseSame = FALSE
    ExplicitWithdraw = TRUE
    RpcMayFail = FALSE
    ThreadMayExit = TRUE
    MaxProbe = 2
    MaxSkip = 0
    MaxRestart = 1
INVARIANTS
    RibFollowsRoute
    RestartTakesOver
PROPERTIES
    BestPeerChosen
    MinimumOnlyFalls
