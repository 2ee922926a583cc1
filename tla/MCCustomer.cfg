SPECIFICATION Spec
CONSTANTS
    OctetBits = 2
    Rows <- MCRows
    Entries <- MCEntries
    MaxLoad = 1
INVARIANTS
    HitOnlyInside
    MissNeedsCause
    LocalnetsExact
