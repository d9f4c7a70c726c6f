\* One workspace, three failures, no damaged upload: every retry makes progress.
CONSTANTS
    ShardCount = 3
    Stream <- MCStream
    Hash <- MCHash
    a = a
    b = b
    c = c
    NoHash = NoHash
    NoStream = NoStream
    Corpora <- AllCorpora
    Workspaces = {w1}
    MaxInterrupts = 3
    MaxCorrupt = 0
    MaxRepublish = 0
SPECIFICATION FairSpec
PROPERTIES
    ResumesToReport
