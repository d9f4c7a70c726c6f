\* Both forms of the checkpoint; two kills, one write.
CONSTANTS
    BucketCount = 2
    KeyCount = 3
    PageSize = 2
    Modes <- MCModes
    None = None
    Partial = Partial
    MaxVersion = 2
    MaxWrites = 1
    MaxKills = 2
SPECIFICATION FairSpec
INVARIANTS
    SummaryBindsRows
    InventoryCoversStore
PROPERTIES
    ListingCompletes
CHECK_DEADLOCK FALSE
