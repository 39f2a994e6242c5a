CONSTANTS
    Paths = {p}
    Contents = {a}
    Absent = Absent
    NoSnap = NoSnap
    MaxTurns = 2
    Modes = {"tui"}
    Entries = {"chat", "skill"}
    Commands = {"clear", "model", "rewind", "reload", "resume", "review"}
    StepCap = 2
    MaxCalls = 1
    SubSteps = 2
    Results <- AllOk
    ErrCap = 2
    KeepRecent = 1
    MaxHistory = 1
    MaxRewind = 2
    MaxPins = 0
    MaxSystem = 1
    AutoCompact = FALSE
    TimeCapped = FALSE
SPECIFICATION LiveSpec
INVARIANT ToolEditsRewindable
PROPERTIES CancelKeepsBuckets TurnsEnd
