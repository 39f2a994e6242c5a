SPECIFICATION MCSpec
CONSTANTS
    Kinds = {"prompt", "shell", "capture", "skill", "edit", "quit"}
    MaxLines = 2
    MaxPresses = 1
    MaxTools = 1
    Symbols <- SymbolsDef
    Wide = {"e"}
    Blanks <- BlanksDef
    NewLine <- NewLineDef
    Slash = "/"
    Catalog <- CatalogDef
    Builtins <- BuiltinsDef
    Subs <- SubsDef
    Seeds <- SeedsDef
    MaxKeys = 6
INVARIANTS
    OneOwner
    TranscriptTrue
PROPERTIES
    CancelMeetsItsTurn
    NobodyWaitsForEver
    InputKept
