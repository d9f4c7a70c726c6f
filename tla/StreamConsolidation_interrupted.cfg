\* One run killed once, restarted in the same workspace.
CONSTANTS
    ShardCount = 3
    Stream <- MCStream
    Hash <- MCHash
    a = a
    b = b
    c = c
    NoHash = NoHash
    NoStream = NoStream
    Corpora <- GoodCorpora
    Workspaces = {w1}
    MaxInterrupts = 1
    MaxCorrupt = 0
    MaxRepublish = 0
SPECIFICATION Spec
INVARIANTS
    EveryScoreMaterialised
