\* Two processes that save to the same cache path.
SPECIFICATION Spec
CONSTANTS
    Processes = {w, x}
    Writers = {w, x}
    Sources = {a, b}
    Inodes = {n1, n2, n3}
    None = None
INVARIANT NeverHalfWritten
