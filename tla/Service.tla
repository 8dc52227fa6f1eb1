------------------------------ MODULE Service -------------------------------
(***************************************************************************)
(* What the FastCGI runner promises: a request is answered with what its   *)
(* script means.  A process answers one request; the next one it accepts   *)
(* is lost with it.                                                        *)
(***************************************************************************)
EXTENDS Script

CONSTANTS
    Natives         \* the sets of natives there can be, with the plugins that load

VARIABLES
    request,        \* [state, script]: "none", "pending" until its file is read, "read"
    answer,         \* the last answer
    fresh           \* no request of this process has been answered yet

vars == <<request, answer, fresh>>

NoAnswer == [out |-> <<>>, headers |-> {}, end |-> ""]

Init ==
    /\ request = [state |-> "none", script |-> <<>>]
    /\ answer = NoAnswer
    /\ fresh = TRUE

Accept ==
    /\ request.state = "none"
    /\ request' = [request EXCEPT !.state = "pending"]
    /\ answer' = NoAnswer
    /\ UNCHANGED fresh

Read ==
    /\ request.state = "pending" /\ fresh
    /\ request'.state = "read" /\ request'.script \in Scripts
    /\ UNCHANGED <<answer, fresh>>

Answer ==
    /\ request.state = "read"
    /\ request' = [state |-> "none", script |-> <<>>]
    /\ \/ Gap(request.script)
       \/ \E natives \in Natives, rejected \in SUBSET MayBeRejected(request.script) :
              answer' = Meaning(request.script, natives, rejected)
    /\ fresh' = FALSE

\* A script may use up the stack, or look at the modules when one of them is gone.
MayCrash(script) ==
    \/ Gap(script)
    \/ \E code \in AllCode(script) : Call("list_module_functions") \in Range(code)
    \/ \E natives \in Natives : Meaning(script, natives, {}).end = "overflow"

Lose ==
    /\ \/ request.state = "pending" /\ ~ fresh
       \/ request.state = "read" /\ MayCrash(request.script)
    /\ request' = [state |-> "none", script |-> <<>>]
    /\ answer' = NoAnswer
    /\ fresh' = TRUE

Next == Accept \/ Read \/ Answer \/ Lose

Spec == Init /\ [][Next]_vars
=============================================================================
