\* Two paths, up to two workers, two configurations, an editor, run after run.
SPECIFICATION Spec
CONSTANTS
    old = old
    new = new
    bad = bad
    N = 2
    JobChoices = {0, 1}
    GOMAXPROCS = 3
    Contents <- MCContents
    Broken <- MCBroken
    SizeOf <- MCSizeOf
    Configs = {k1, k2}
    MaxClock = 1
    FineClock = TRUE
    Gone = Gone
    Failed = Failed
    Nothing = Nothing
INVARIANTS TypeOK ResultsAreCurrent CacheNeverStale SlotsAreExclusive
PROPERTY RunEnds
