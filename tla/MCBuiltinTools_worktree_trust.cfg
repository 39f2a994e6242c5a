SPECIFICATION StoresSpec
CONSTANTS
    Parts = {"stores"}
    Procs = {"a", "b"}
    Owner = "a"
    PipeCap = 1
    MaxCalls = 5
    MaxLines = 1
    MaxKills = 1
    Paths = {p1, p2}
    Contents = {a, b}
    Absent = Absent
    NoSnap = NoSnap
    MaxTurns = 2
    StoreKinds = {"permissions"}
    Users = {"p"}
    Entries = {"e"}
    Stamp = "e"
    MaxRuns = 1
    MaxChanges = 1
PROPERTY
    WorktreeTrustSaved
