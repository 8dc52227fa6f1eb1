SPECIFICATION Spec
\* A script may end, or block for good.
CHECK_DEADLOCK FALSE
CONSTANTS
    Handles = {a, b}
    Filters = {a}
    Pids = {1, 2}
    KillsReaped = FALSE
    PipeSize = 2
    ReadSize = 2
    MaxInput = 2
    MaxOutput = 3
INVARIANTS  LinesKept KilledAsAsked
PROPERTIES WaitHeldUpOnlyByHeirs
