------------------------------ MODULE MCValues ------------------------------
(* The variables of the scripts that TLC runs. *)
EXTENDS Values

MCTypeOf == [a |-> "array", i |-> "int"]
=============================================================================
