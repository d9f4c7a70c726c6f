\* One failed controller, one failed worker; the second source just fits the disk.
CONSTANTS
    SourceCount = 2
    PartitionCount = 2
    RawSize <- MCSize
    TreeSize <- MCSize
    DerivedSize <- MCSize
    Envelope <- MCEnvelope
    Reserve = 1
    Capacity = 7
    MaxWorkers = 2
    MaxKills = 1
    MaxDeaths = 1
SPECIFICATION FairSpec
INVARIANTS
    TypeOK
    ReceiptedRowsStay
PROPERTIES
    ReleasedIsDurable
    Completes
CHECK_DEADLOCK FALSE
