\* One write, one failure, one rotten payload and one launch of a finished worker.
CONSTANTS
    KeyCount = 3
    Absent = Absent
    Rotten = Rotten
    w1 = w1
    w2 = w2
    Worker = {w1, w2}
    Share <- MCShare
    Size <- MCSize
    Overhead = 1
    SmallBytes = 2
    PackBytes = 6
    MaxRecords = 2
    BatchSize = 2
    PackRank <- MCPackRank
    Initial <- MCInitial
    MaxVersion = 2
    MaxWrites = 1
    MaxCrashes = 1
    MaxRot = 1
    MaxLate = 1
    f1 = f1
    File = {f1}
    Expected <- MCExpected
    Gone = Gone
SPECIFICATION CFairSpec
INVARIANTS
    RecordedOrSuperseded
    DeletedIsArchived
    CompleteWorkersCoverShare
    ErasedIsArchived
PROPERTIES
    Evacuates
CHECK_DEADLOCK FALSE
