CONSTANTS
    Paths = {}
    Contents = {a}
    Absent = Absent
    NoSnap = NoSnap
    MaxTurns = 2
    Modes = {"repl"}
    Entries = {"chat"}
    Commands = {"clear"}
    StepCap = 1
    MaxCalls = 1
    SubSteps = 0
    Results <- AllOk
    ErrCap = 2
    KeepRecent = 1
    MaxHistory = 4
    MaxRewind = 2
    MaxPins = 0
    MaxSystem = 0
    AutoCompact = TRUE
    TimeCapped = FALSE
SPECIFICATION Spec
PROPERTY CancelLeavesNoTrace
