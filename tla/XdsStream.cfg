\* Two types, four requests, any number of pushes.
SPECIFICATION FairSpec
CONSTANTS
    cds = cds
    lds = lds
    Types <- MCTypes
    ClusterType = cds
    MaxRequests = 4
CHECK_DEADLOCK FALSE
INVARIANTS
    RequestsKeepTheirOrder
    TakenEventsAreDone
PROPERTIES
    OnePushOvertakes
    ReceiverIsBounded
    ReceiverEnds
