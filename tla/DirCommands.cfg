\* bench: two workers, channels of two, as many failures as one channel and one worker
\* can hold. check: four files, of which one is allowed to fail. lint: one process that
\* saves the cache and may crash, one that only reads it. lint --fix: two processes that may
\* crash, two temporary files, an editor that saves once.
SPECIFICATION Spec
CONSTANTS
    NParsed = 7
    NChecked = 4
    NumCPU = 2
    ChanFactor = 1
    MaxBroken = 3
    Allow = {4}
    None = None
    Processes = {w, r}
    Writers = {w}
    Sources = {a, b}
    Inodes = {n1, n2, n3}
    Fixers = {p, q}
    NSources = 1
    NTemps = 2
    MaxSaves = 1
INVARIANTS TypeOK ReportsAreSerial NoSendOnClosed FilesStayWhole SavedIsLoaded FixedOrReported
PROPERTIES PoolsEnd NothingIsLost
