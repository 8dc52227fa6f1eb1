\* Every text of the seven dialects: 6 tokens of prefix and infix operators and groups,
\* 7 of ternaries, 5 of accessors, calls, literals and increments, 4 with strings.  What
\* is read is one of the smallest int, -1, 0 and 3 of 3 bits, true, false, a string, a
\* double, a null and an error.
CONSTANT
    Dialects <- MCDialects
    Readings <- MCReadings
    Width = 3

SPECIFICATION SpecEvaluation

INVARIANTS
    ReadsAsCOutsideGaps
    NoOperandLost
    EvaluatesAsC
    OperandsRunInOrder

PROPERTY ParsingEnds

CHECK_DEADLOCK FALSE
