\* One goroutine that uses every AST before it parses again.
SPECIFICATION Spec
CONSTANTS
    small = small
    large = large
    bad = bad
    Callers = {c1}
    Retainers = {c1}
    Files <- MCFiles
    Broken <- MCBroken
    NodeCount <- MCNodeCount
    Parsers = {p1, p2}
    MaxGrowths = 2
    Capacity <- MCCapacity
    Nothing = Nothing
SYMMETRY ParserSymmetry
INVARIANTS TypeOK ASTIntact
PROPERTY ImplementsParseCalls
