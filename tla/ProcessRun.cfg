SPECIFICATION Spec
CONSTANTS
    Input = 3
    Timeout = 2
    Check = TRUE
    PipeSize = 2
    ReadSize = 2
    Program = "any"
    Closes = {"in", "out"}
    MaxOutput = 2
INVARIANTS WholeOutput WholeInput NothingLeftBehind
PROPERTIES HeldUpOnlyByFeeding
