\* Two runs, two merges, one reconcile, a failure and a death.
CONSTANTS
    maestro = maestro
    aria = aria
    maps = maps
    Registry <- MCRegistry
    Gated = {maps}
    Reopened = {aria}
    Candidate <- MCCandidate
    SourceOf <- MCSourceOf
    PartOf <- MCPartOf
    Accepted = {1, 3}
    MergeEarly = FALSE
    MergeTorn = FALSE
    MaxRuns = 2
    MaxRaises = 1
    MaxDeaths = 1
    MaxMerges = 2
    MaxReconciles = 1
SPECIFICATION Spec
CHECK_DEADLOCK FALSE
INVARIANTS
    DoneIsWhole
PROPERTIES
    RunsSettle
