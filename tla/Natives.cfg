SPECIFICATION Spec
CONSTANTS
    MaxObjects = 3
    MaxCalls = 5
    Bases = {"", "b"}
    Timeouts = {0, 5}
    Steps = 2
    Texts <- MCTexts
CHECK_DEADLOCK FALSE
INVARIANTS IdentityFollowsNew HandlesAreHeld RequestsAsAsked CapturesAreOwn CleanedUpOnce
PROPERTY OneInstanceAtATime
