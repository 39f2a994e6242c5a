CONSTANTS
    Procs = {p1, p2}
    Dirs = {d1, d2}
    Ids = {1, 2}
    Bad = Bad
    None = None
    MaxTime = 2
    MaxCalls = 3
SYMMETRY Symmetry
SPECIFICATION Spec
INVARIANTS LoadedExact IndexTrue
PROPERTIES IndexTrusted
