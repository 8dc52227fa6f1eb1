SPECIFICATION Spec
CONSTANTS
    Classes = {"A", "B", "K"}
    Private = {"A", "K"}
    Constructed = {"K"}
    Scripts <- MCScripts
\* A script whose stack overflows stops.
CHECK_DEADLOCK FALSE
INVARIANTS ThisIsReceiver ArgumentsAreCopies
PROPERTY VariablesAreOwn
