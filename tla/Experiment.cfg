\* Two runs, one kill; bars of two ticks, windows of two bars.
CONSTANTS
    SongCount = 3
    Tracks <- MCTracks
    Rank <- MCRank
    Reject = Reject
    None = None
    Checkouts = {1, 2}
    Verdicts <- MCVerdicts
    Caps = {2, 3}
    BarTicks = 2
    WindowBars = 2
    MaxRuns = 2
    MaxKills = 1
SPECIFICATION Spec
INVARIANTS
    TrainsEachScoreOnce
    RecordedIsStored
    NoFamilyIsSplit
    StoredBarsAreHeard
    SnapshotWindowsAreLive
CHECK_DEADLOCK FALSE
