------------------------- MODULE MCExpressionParser -------------------------
(* The dialects: each mixes the tokens whose branches meet.                *)
EXTENDS Evaluation

MCDialects ==
    { [words |-> {"x", "-", "*", "(", ")"}, length |-> 6],
      [words |-> {"x", "!", "->", "(", ")", "[", "]"}, length |-> 5],
      [words |-> {"x", "f(", ")", ",", "[", "]"}, length |-> 5],
      [words |-> {"x", "-", "?", ":"}, length |-> 7],
      [words |-> {"x", "++", "-", "(", ")", "["}, length |-> 5],
      [words |-> {"x", "-", "/", "==", "&&", "!"}, length |-> 5],
      [words |-> {"x", "s", "-", "/", "==", "&&", "!", "?", ":"}, length |-> 4] }

MCReadings == {Number(IntMin), Number(-1), Number(0), Number(3), True, False, Letter, Real, Null, Error}
=============================================================================
