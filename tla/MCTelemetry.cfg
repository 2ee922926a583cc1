SPECIFICATION Spec
CONSTANTS
    Asbr = {"PE0", "PE1"}
    PeersOf <- MCPeersOf
    MaxPerf = 4
INVARIANTS
    StalePointerNeedsTwoPeriods
    KnownPeerHasRecentEntry
    NothingLeaked
