CONSTANTS
    piped = piped
    web = web
    own = own
    common = common
    Stdio = {piped}
    Http = {web}
    Tools = {own, common}
    Builtins = {common}
    Provides <- Lists
    Builtin = Builtin
    None = None
    MaxLines = 2
SPECIFICATION LiveSpec
INVARIANTS AtMostOnce ToolsReachable
PROPERTIES OwnAnswers AsksEnd
