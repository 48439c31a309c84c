\* lint with two workers and no editor: the ASTs are in use while others parse.
SPECIFICATION SpecPooled
CONSTANTS
    old = old
    new = new
    bad = bad
    N = 2
    JobChoices = {0}
    GOMAXPROCS = 2
    Contents <- MCContents
    Broken <- MCBroken
    SizeOf <- MCSizeOf
    Configs = {k1}
    MaxClock = 0
    FineClock = TRUE
    Gone = Gone
    Failed = Failed
    Nothing = Nothing
    Parsers = {p1, p2}
    NodeCount <- MCNodeCount
    MaxGrowths = 0
    Capacity <- MCCapacity
INVARIANT ResultsAreCurrent
