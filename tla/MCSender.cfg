SPECIFICATION Spec
CONSTANTS
    Peer = {1, 2}
    NDst = 2
    PingReq = 2
INVARIANTS
    LostNeedsOtherThread
    OwnAddressAlive
