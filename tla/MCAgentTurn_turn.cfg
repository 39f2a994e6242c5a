CONSTANTS
    Paths = {}
    Contents = {a}
    Absent = Absent
    NoSnap = NoSnap
    MaxTurns = 2
    Modes = {"repl", "headless"}
    Entries = {"chat", "agent"}
    Commands = {"clear", "rewind", "compact", "pin", "trim", "fork", "review", "restart", "ask",
                "memory", "plan", "load", "resume"}
    StepCap = 2
    MaxCalls = 2
    SubSteps = 0
    Results <- TellErrors
    ErrCap = 3
    KeepRecent = 2
    MaxHistory = 3
    MaxRewind = 2
    MaxPins = 1
    MaxSystem = 1
    AutoCompact = TRUE
    TimeCapped = TRUE
SPECIFICATION Spec
INVARIANTS ConversationWell ReceiptsTrace ErrorValve
PROPERTY CancelRestores
