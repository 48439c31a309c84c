\* Two goroutines that drop every AST at once, as checkDir and benchCmd do.
SPECIFICATION Spec
CONSTANTS
    small = small
    large = large
    bad = bad
    Callers = {c1, c2}
    Retainers = {}
    Files <- MCFiles
    Broken <- MCBroken
    NodeCount <- MCNodeCount
    Parsers = {p1, p2}
    MaxGrowths = 2
    Capacity <- MCCapacity
    Nothing = Nothing
SYMMETRY Symmetry
INVARIANTS ExclusiveParser ParseIntact
