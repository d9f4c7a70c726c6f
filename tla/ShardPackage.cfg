\* Three attempts at two shards by two publishers, one of them killed.
CONSTANTS
    ShardCount = 2
    Publishers = {host1, host2}
    Files = {db, ledger, manifest}
    Database = db
    Ledger = ledger
    Manifest = manifest
    Marker = marker
    MaxBuilds = 3
    MaxFailures = 1
    item1 = item1
    item2 = item2
    item3 = item3
    InPlay <- MCInPlay
    ItemIds <- MCItemIds
SYMMETRY PublisherSymmetry
SPECIFICATION PackageSpec
INVARIANTS
    MarkerVouches
    TakenIsMarked
    VerifiedIsWhole
CHECK_DEADLOCK FALSE
