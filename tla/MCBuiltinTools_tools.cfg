SPECIFICATION MCSpec
CONSTANTS
    Parts = {"tools", "journal", "stores"}
    Procs = {"a", "b"}
    Owner = "a"
    PipeCap = 1
    MaxCalls = 5
    MaxLines = 1
    MaxKills = 1
    Paths = {p1, p2}
    Contents = {a, b}
    Absent = Absent
    NoSnap = NoSnap
    MaxTurns = 2
    StoreKinds = {"permissions", "todos", "memdir", "disabled", "config", "oauth",
                  "mcp", "hooks", "schedule"}
    Users = {"p", "q"}
    Entries = {"e", "f"}
    Stamp = "f"
    MaxRuns = 3
    MaxChanges = 2
INVARIANTS
    OwnOutput
    MailKept
    RewindExact
PROPERTIES
    CallsEnd
    DroppedTurnsUndone
    TakesBackUnseen
