----------------------------- MODULE MCObjects -----------------------------
(* The scripts that TLC runs. *)
EXTENDS Objects

MCScripts ==
    \* Objects that hold objects, and functions in every position.
    {[classes |-> {"B"}, kinds |-> Functions, locals |-> {"file", "expression"},
      objects |-> 4, depth |-> 3],
     \* Methods that call each other.
     [classes |-> {"A", "B"}, kinds |-> {"method"}, locals |-> {"file"},
      objects |-> 2, depth |-> 4],
     \* A little of everything.
     [classes |-> {"A", "K"}, kinds |-> Functions \cup Methods, locals |-> {"file", "method"},
      objects |-> 2, depth |-> 3]}
=============================================================================
