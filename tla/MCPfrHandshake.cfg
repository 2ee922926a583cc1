SPECIFICATION FairSpec
INVARIANTS
    TypeOK
    OneLatePacket
    AckAnswersRequest
    FreeExcludesStore
PROPERTIES
    ImplementsGate
    RoundsContinue
    ShutdownHappens
