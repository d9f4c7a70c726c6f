\* Two workspaces, one kill, one damaged upload, one republication.
CONSTANTS
    ShardCount = 3
    Stream <- MCStream
    Hash <- MCHash
    a = a
    b = b
    c = c
    NoHash = NoHash
    NoStream = NoStream
    Corpora <- AllCorpora
    Workspaces = {w1, w2}
    MaxInterrupts = 1
    MaxCorrupt = 1
    MaxRepublish = 1
SYMMETRY Symmetry
SPECIFICATION Spec
INVARIANTS
    KeptIsFirstOwner
    CompletionBindsPartition
    ScoresUnlessReplayed
    ReportBindsSources
PROPERTIES
    CompletedIsFinal
    ImplementsLedger
