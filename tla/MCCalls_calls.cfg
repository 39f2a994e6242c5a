SPECIFICATION MCSpec
CONSTANTS
    Callers = {"request", "subagent", "harness", "tool"}
    Providers = {"openai", "ollama"}
    MaxRetries = 1
    MaxText = 9
    MaxPiece = 2
    Parts = 2
    MaxToolCalls = 1
    TimeCap = 2
    KillGrace = 1
    DrainGrace = 1
    OutputLimit = 2
    Texts = {"a", "b"}
    MaxEvents = 3
    Catalog <- CatalogDef
    MaxSteps = 1
    MaxFrames = 3
INVARIANTS
    StripsAsWhole
    AnswerIsReply
    AnswerHonest
    ScoresTrue
    ProgramAnswers
PROPERTIES
    KeepsContract
    CallsReturn
