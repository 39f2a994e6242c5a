SPECIFICATION MCSpec
CONSTANTS
    Callers = {"harness"}
    Providers = {"openai", "ollama"}
    MaxRetries = 1
    MaxText = 9
    MaxPiece = 2
    Parts = 2
    MaxToolCalls = 1
    TimeCap = 2
    KillGrace = 1
    DrainGrace = 1
    OutputLimit = 2
    Texts = {"a", "b"}
    MaxEvents = 3
    Catalog <- CatalogDef
    MaxSteps = 1
    MaxFrames = 3
INVARIANT PatchIsTheEdit
