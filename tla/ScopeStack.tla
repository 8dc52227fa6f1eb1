----------------------------- MODULE ScopeStack -----------------------------
(***************************************************************************)
(* The scope stack of Symbols::SymbolContainer: the vector scopeStack_ of  *)
(* scope names, outermost first, and the operations that leave a scope.    *)
(* A name is a sequence of segments, the pieces between the "::" of the    *)
(* C++ string, so that "file::f::call_3" is <<file, f, 3>>.                *)
(***************************************************************************)
EXTENDS Naturals, Sequences

\* currentScopeName(): the innermost entered scope.
CurrentScope(stack) == stack[Len(stack)]

\* enterPreviousScope(): pops one name, but never the last one.
EnterPreviousScope(stack) ==
    IF Len(stack) > 1 THEN SubSeq(stack, 1, Len(stack) - 1) ELSE stack

Occurrences(stack, name) == {i \in 1..Len(stack) : stack[i] = name}

\* std::find from rbegin(): the occurrence nearest to the top.
Topmost(stack, name) ==
    CHOOSE i \in Occurrences(stack, name) :
        \A j \in Occurrences(stack, name) : j <= i

\* validateAndCleanupScopeStack(name): cuts the stack from the topmost
\* occurrence of name on; a name that is not there costs one unguarded pop.
ValidateAndCleanup(stack, name) ==
    IF Occurrences(stack, name) # {}
    THEN SubSeq(stack, 1, Topmost(stack, name) - 1)
    ELSE SubSeq(stack, 1, Len(stack) - 1)

\* Mutant: the exit without validation.
LeaveByPlainPop(stack, name) == EnterPreviousScope(stack)

\* The exit of the two calls that validate: the plain pop when their own scope
\* is the current one, the recovery when a construct inside left scopes behind.
LeaveCallScope(stack, name) ==
    IF CurrentScope(stack) = name
    THEN EnterPreviousScope(stack)
    ELSE ValidateAndCleanup(stack, name)

=============================================================================
