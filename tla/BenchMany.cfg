\* One worker, channels of four as in the code, ten broken files.
SPECIFICATION Spec
CONSTANTS
    NFiles = 10
    NumCPU = 1
    ChanFactor = 4
    MaxBroken = 10
PROPERTY BenchEnds
CHECK_DEADLOCK FALSE
