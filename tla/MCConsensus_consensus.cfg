SPECIFICATION LiveSpec
CONSTANTS
    N = 3
    Sessions <- MCSessions
    MaxFaults = 1
    Modes = {"llm", "tools", "isolated"}
    Strategies = {"vote", "best-of-n", "judge"}
    Concurrencies = {0, 2}
    Answers = {"yes", "no"}
    MaxScore = 1
    MaxEdits = 2
INVARIANTS
    VerdictStands
    WorkApart
PROPERTIES
    Settles
    ChildrenKeepContract
