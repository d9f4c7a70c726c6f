\* One kill, one fault, one new version, in any order.
CONSTANTS
    prefetch = prefetch
    build = build
    worker = worker
    Fetchers = {prefetch}
    Builders = {build}
    Workers = {worker}
    Length = 2
    Archives = 1
    Attempts = 2
    MaxFaults = 1
    MaxKills = 1
    MaxVersion = 2
SPECIFICATION FairSpec
INVARIANTS
    ArtifactIsWhole
    DerivesFromWholeTree
PROPERTIES
    ReadyTreeStays
    Derives
CHECK_DEADLOCK FALSE
