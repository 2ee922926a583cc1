SPECIFICATION FairSpec
CONSTANTS
    Proc = {1, 2}
    OctetBits = 2
    Customer <- MCCustomer
    Localnets <- MCLocalnets
    Db = {20}
    Lines <- MCLines
    StartFile <- MCStartFile
    Flows <- MCFlows
    MaxEdit = 1
INVARIANTS
    TwoDaemonsNeedRace
    ShmExclusive
PROPERTIES
    NoNewsKeepsList
    RereadIsStart
    CollectorServed
CHECK_DEADLOCK FALSE
