SPECIFICATION DaemonSpec
CONSTANTS
    Dst = {1}
    Peer = {1}
    Metric = {1}
    MinRtt = 3
    Configured = {2}
    Noise = {0}
    PathMetric = 1
    DeepDelete = 0
    RttLeastMove = {FALSE}
    RttLeastThresh = 10
    EnableAdvertise = TRUE
    MayReread = TRUE
    AdvertiseSame = FALSE
    ExplicitWithdraw = TRUE
    RpcMayFail = TRUE
    ThreadMayExit = TRUE
    MaxProbe = 2
    MaxSkip = 1
    MaxRestart = 0
INVARIANTS
    NullWhileReceiverWaits
    PeerZeroNeedsStrayReply
PROPERTIES
    ImplementsRounds
