---------------------------- MODULE Activations ----------------------------
(***************************************************************************)
(* What a script is promised about scopes: calls and loops nest.  A loop   *)
(* ends where it began; a call may end inside loops of its own, which end  *)
(* with it; an uncaught exception ends everything.  The construct being    *)
(* run is the one whose scope was opened last.                             *)
(***************************************************************************)
EXTENDS Naturals, Sequences

VARIABLES
    stack,  \* the open scopes, each of a "call" or a "loop", outermost first
    depth   \* how many constructs the running statement is inside

avars == <<stack, depth>>

Init == stack = <<"call", "call">> /\ depth = 2   \* the script, entered twice

InScope == depth' = Len(stack')

Open(kind) == /\ stack # <<>>
              /\ stack' = Append(stack, kind)
              /\ InScope

\* Closes the scope at position i and the loops opened inside it.
Close(i) == /\ \A j \in i+1..Len(stack) : stack[j] = "loop"
            /\ stack' = SubSeq(stack, 1, i - 1)
            /\ InScope

CloseLoop == stack # <<>> /\ stack[Len(stack)] = "loop" /\ Close(Len(stack))
CloseCall == \E i \in 3..Len(stack) : stack[i] = "call" /\ Close(i)

Abort == stack' = <<>> /\ depth' = 0

Next == (\E kind \in {"call", "loop"} : Open(kind)) \/ CloseLoop \/ CloseCall \/ Abort

Spec == Init /\ [][Next]_avars

=============================================================================
