\* lint --jobs 1: one worker uses each AST before the next parse.
SPECIFICATION SpecPooled
CONSTANTS
    old = old
    new = new
    bad = bad
    N = 2
    JobChoices = {1}
    GOMAXPROCS = 1
    Contents <- MCContents
    Broken <- MCBroken
    SizeOf <- MCSizeOf
    Configs = {k1}
    MaxClock = 1
    FineClock = TRUE
    Gone = Gone
    Failed = Failed
    Nothing = Nothing
    Parsers = {p1, p2}
    NodeCount <- MCNodeCount
    MaxGrowths = 0
    Capacity <- MCCapacity
PROPERTY ImplementsLintFiles
