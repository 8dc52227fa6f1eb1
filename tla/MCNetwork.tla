----------------------------- MODULE MCNetwork -----------------------------
EXTENDS Network

\* A status, an error, a bulk, and an array whose first element is an error.
MCShapes == {<<"value">>, <<"error">>, <<"bulk", "data">>, <<"array", "error", "value">>}
=============================================================================
