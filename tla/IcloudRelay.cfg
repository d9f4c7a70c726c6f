\* Two failures, two writes, two inventories, each new one in a work root of its own.
CONSTANTS
    ObjectCount = 3
    Chunks <- MCChunks
    MaxChunks = 3
    PackRecords = 2
    KeepWorkRoot = FALSE
    QuietDelete = TRUE
    None = None
    Damaged = Damaged
    Torn = Torn
    MaxVersion = 2
    MaxWrites = 2
    MaxFaults = 2
    MaxDamage = 0
    MaxLists = 2
SPECIFICATION FairSpec
INVARIANTS
    TypeOK
    ReceiptedObjectArrived
    ReceiptedPackArrived
    DeletedIsRelayed
PROPERTIES
    Relays
CHECK_DEADLOCK FALSE
