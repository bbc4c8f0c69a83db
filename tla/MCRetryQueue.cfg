SPECIFICATION FairRetrySpec
CONSTANTS
    Publisher = {p1, p2}
    Closer = closer
    Nobody = nobody
    MaxLen = 2
    MaxReceipts = 6
    MaxCloses = 2
CHECK_DEADLOCK FALSE
INVARIANTS
    RetryTypeOK
    FifoDelivery
    NothingVanishes
PROPERTIES
    DropIsAnnounced
    PublishReturns
