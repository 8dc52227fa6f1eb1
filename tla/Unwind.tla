------------------------------- MODULE Unwind -------------------------------
(***************************************************************************)
(* How the tree-walking interpreter enters and leaves scopes.              *)
(*                                                                         *)
(* VoidScript executes a script by C++ recursion: every construct being    *)
(* executed is a C++ frame, and `return', `break', `continue', `throw' and *)
(* run-time errors are C++ exceptions that unwind those frames.  The names *)
(* of the scopes being executed live in a second stack, scopeStack_ of the *)
(* global SymbolContainer, which no destructor protects: each node pops it *)
(* by hand, on the exit paths its author thought of.  This module puts the *)
(* two stacks side by side: `frames' is the C++ stack, `scopeStack' is     *)
(* scopeStack_, `sig' is the exception in flight.  The script is arbitrary *)
(* (every statement may come next), within the constants below.            *)
(***************************************************************************)
EXTENDS ScopeStack, FiniteSets

CONSTANTS
    File,            \* the scope segment of the running file
    Method,          \* the scope "Class::method" of a script method
    Construct,       \* the base of a constructor's scope, "construct"
    Sites,           \* the "while_L_C" / "for_L_C" segments of the loops
    Objects,         \* class instances
    NoObject,        \* the empty thisObject_
    Constructs,      \* the constructs the script uses
    Raises,          \* the exceptions it raises
    LoopReturns,     \* the body kinds it returns from inside a loop
    MaxMethodDepth,  \* MAX_CALL_DEPTH of method calls (100 in the code)
    MaxFrames,       \* bound: nesting of C++ frames
    MaxActs          \* bound: scopes entered in a run

FunctionCalls == {"callStmt", "callExpr", "callback"}
BodyKinds     == FunctionCalls \cup {"method", "ctor", "file"}
ScopedKinds   == BodyKinds \cup {"loop"}
BlockKinds    == {"switch", "try", "propInit"}
NativeKinds   == {"native", "predicate"}
Signals       == {"return", "break", "continue", "throw", "error"}

ASSUME UnwindAssumption ==
    /\ Constructs \subseteq (ScopedKinds \ {"file"}) \cup BlockKinds \cup NativeKinds
    /\ Raises \subseteq Signals
    /\ LoopReturns \subseteq BodyKinds
    /\ NoObject \notin Objects
    /\ Sites \cap Nat = {}
    /\ Method \notin {File, Construct} /\ File # Construct
    /\ MaxMethodDepth \in Nat /\ MaxFrames \in Nat /\ MaxActs \in Nat

VARIABLES
    frames,      \* the C++ frames, outermost first
    scopeStack,  \* SymbolContainer::scopeStack_
    tables,      \* SymbolContainer::scopes_: name |-> activation that made the table
    sig,         \* the exception in flight, or "none"
    origin,      \* what was raised when that exception began
    thisObj,     \* Interpreter::thisObject_
    acts         \* scopes entered so far; next_call_id_ and next_call_frame_id_

vars == <<frames, scopeStack, tables, sig, origin, thisObj, acts>>

TopFrame == frames[Len(frames)]
Callers  == SubSeq(frames, 1, Len(frames) - 1)
Running  == frames # <<>> /\ sig = "none"
Raised   == frames # <<>> /\ sig # "none"

\* Statements run anywhere but in the expression of a property default.
AtStatement == Running /\ TopFrame.kind # "propInit"

\* The container's constructor creates the file's scope, VoidScript::run() again.
Init ==
    /\ frames = <<[kind |-> "file", own |-> <<File>>, base |-> 2, act |-> 0]>>
    /\ scopeStack = << <<File>>, <<File>> >>
    /\ tables = [n \in {<<File>>} |-> 0]
    /\ sig = "none" /\ origin = "none"
    /\ thisObj = NoObject
    /\ acts = 0

-----------------------------------------------------------------------------
(* Entering a construct. *)

\* SymbolContainer::create: a table under this name is replaced, live or not.
Create(name) ==
    tables' = [n \in DOMAIN tables \cup {name} |-> IF n = name THEN acts + 1 ELSE tables[n]]

PushFrame(kind, name, base, act) ==
    frames' = Append(frames, [kind |-> kind, own |-> name, base |-> base, act |-> act])

EnterScope(kind, name) ==
    /\ Running /\ kind \in Constructs
    /\ Len(frames) < MaxFrames /\ acts < MaxActs
    /\ PushFrame(kind, name, Len(scopeStack) + 1, acts + 1)
    /\ scopeStack' = Append(scopeStack, name)
    /\ acts' = acts + 1
    /\ UNCHANGED <<sig, origin>>

\* The lookup chops segments off the current scope's name until a table holds
\* the function; functions are defined at file level, so only names that start
\* with the file reach them (a method's or constructor's name does not).
FunctionVisible == CurrentScope(scopeStack)[1] = File

\* Mutant: the scope is named after the function alone.
UnnumberedCallScopeName == <<File, 0>>

\* get_unique_call_id() makes the scope's name fresh.
CallScopeName == <<File, acts + 1>>

CallFunction(kind) ==
    /\ kind \in FunctionCalls
    /\ FunctionVisible
    /\ AtStatement \/ kind # "callStmt"
    /\ EnterScope(kind, CallScopeName)
    /\ Create(CallScopeName)
    /\ UNCHANGED thisObj

MethodDepth == Cardinality({i \in DOMAIN frames : frames[i].kind = "method"})

\* A script method: its scope is named after the class and method alone.
CallMethod(o) ==
    /\ MethodDepth < MaxMethodDepth
    /\ EnterScope("method", <<Method>>)
    /\ Create(<<Method>>)
    /\ thisObj' = o

\* enterFunctionCallScope(): fresh by the container's own counter.
ConstructObject(o) ==
    /\ EnterScope("ctor", <<Construct, acts + 1>>)
    /\ Create(<<Construct, acts + 1>>)
    /\ thisObj' = o

\* A loop's scope extends the current one by its source position; a table left
\* by an earlier run of the same loop is entered again as it is.
EnterLoop(site) ==
    LET name == Append(CurrentScope(scopeStack), site)
    IN  /\ AtStatement
        /\ EnterScope("loop", name)
        /\ IF name \in DOMAIN tables THEN UNCHANGED tables ELSE Create(name)
        /\ UNCHANGED thisObj

\* switch, try and the evaluation of property defaults have no scope.
EnterBlock(kind) ==
    /\ Running /\ kind \in BlockKinds \cap Constructs
    /\ AtStatement \/ kind = "propInit"
    /\ Len(frames) < MaxFrames
    /\ PushFrame(kind, <<>>, 0, 0)
    /\ UNCHANGED <<scopeStack, tables, sig, origin, thisObj, acts>>

-----------------------------------------------------------------------------
(* Method calls that open no scope. *)

\* setThisObject() comes first; a wrong argument count is then an exception
\* that leaves it set.
RejectMethodCall(o) ==
    /\ Running /\ "method" \in Constructs /\ "error" \in Raises
    /\ MethodDepth < MaxMethodDepth
    /\ thisObj' = o
    /\ sig' = "error" /\ origin' = "error"
    /\ UNCHANGED <<frames, scopeStack, tables, acts>>

\* MAX_CALL_DEPTH is reached.
MethodTooDeep ==
    /\ Running /\ "method" \in Constructs /\ "error" \in Raises
    /\ MethodDepth = MaxMethodDepth
    /\ sig' = "error" /\ origin' = "error"
    /\ UNCHANGED <<frames, scopeStack, tables, thisObj, acts>>

\* isPositive(), isNegative() and isZero() return before clearThisObject().
CallPredicate(o) ==
    /\ Running /\ "predicate" \in Constructs
    /\ MethodDepth < MaxMethodDepth
    /\ thisObj' = o
    /\ UNCHANGED <<frames, scopeStack, tables, sig, origin, acts>>

\* A native method clears thisObject_ whether it succeeds or fails.
CallNative ==
    /\ Running /\ "native" \in Constructs
    /\ MethodDepth < MaxMethodDepth
    /\ thisObj' = NoObject
    /\ sig' \in {"none"} \cup ({"error"} \cap Raises)
    /\ origin' = sig'
    /\ UNCHANGED <<frames, scopeStack, tables, acts>>

-----------------------------------------------------------------------------
(* Raising an exception. *)

\* The constructs of the function body being run, innermost body included.
BodyIndex == CHOOSE i \in DOMAIN frames :
                /\ frames[i].kind \in BodyKinds
                /\ \A j \in i+1..Len(frames) : frames[j].kind \notin BodyKinds
InBody(kinds) == \E i \in BodyIndex..Len(frames) : frames[i].kind \in kinds

\* The parser's loop_depth_ and switch_depth_ reject a `break' or `continue'
\* elsewhere; a function's body is parsed by a parser of its own, from depth 0.
MayRaise(s) ==
    CASE s = "break"    -> AtStatement /\ InBody({"loop", "switch"})
      [] s = "continue" -> AtStatement /\ InBody({"loop"})
      [] s = "return"   -> /\ AtStatement
                           /\ InBody({"loop"}) => frames[BodyIndex].kind \in LoopReturns
      [] s = "throw"    -> AtStatement
      [] s = "error"    -> TRUE

Raise(s) ==
    /\ Running /\ s \in Raises /\ MayRaise(s)
    /\ sig' = s /\ origin' = s
    /\ UNCHANGED <<frames, scopeStack, tables, thisObj, acts>>

-----------------------------------------------------------------------------
(* Leaving a construct: its end is reached, or an exception it catches. *)

PopScope == scopeStack' = EnterPreviousScope(scopeStack)

\* Leaves the top frame, at its end or on an exception it handles.  The value of
\* a call in an expression may then have the wrong type, which is an error.
Leave(kind, handled) ==
    /\ frames # <<>> /\ TopFrame.kind = kind /\ sig \in {"none"} \cup handled
    /\ frames' = Callers
    /\ sig' \in IF kind = "callExpr" THEN {"none"} \cup ({"error"} \cap Raises) ELSE {"none"}
    /\ origin' = sig'
    /\ UNCHANGED <<tables, acts>>

\* Mutant (BUGS.md #2 before its fix): the statement call lets a return pass.
LeaveCallStatementOnlyAtEnd == Leave("callStmt", {}) /\ PopScope /\ UNCHANGED thisObj

\* A call in statement position: one pop, whatever the body left behind.
LeaveCallStatement ==
    /\ Leave("callStmt", {"return"})
    /\ PopScope
    /\ UNCHANGED thisObj

\* In an expression the scope is validated.
LeaveCallExpression ==
    /\ Leave("callExpr", {"return"})
    /\ scopeStack' = LeaveCallScope(scopeStack, TopFrame.own)
    /\ UNCHANGED thisObj

\* Mutant: the callback pops one scope, as a statement call does.
LeaveCallbackByPop == Leave("callback", {"return"}) /\ PopScope /\ UNCHANGED thisObj

\* callUserFunction(), for array_map and its kin.
LeaveCallback ==
    /\ Leave("callback", {"return"})
    /\ scopeStack' = LeaveCallScope(scopeStack, TopFrame.own)
    /\ UNCHANGED thisObj

\* Mutant: the handler of `return' pops the scope, and the exit pops it again.
LeaveMethodPoppingTwice(kind) ==
    /\ kind \in {"method", "ctor"}
    /\ Leave(kind, {"return"})
    /\ scopeStack' = IF sig = "return"
                     THEN EnterPreviousScope(EnterPreviousScope(scopeStack))
                     ELSE EnterPreviousScope(scopeStack)
    /\ thisObj' = NoObject

\* Mutant: clearThisObject() is forgotten.
LeaveMethodKeepingThis(kind) ==
    kind \in {"method", "ctor"} /\ Leave(kind, {"return"}) /\ PopScope /\ UNCHANGED thisObj

\* Mutant: the method lets a return pass.
LeaveMethodOnlyAtEnd(kind) ==
    kind \in {"method", "ctor"} /\ Leave(kind, {}) /\ PopScope /\ thisObj' = NoObject

\* Methods and constructors: one pop, and thisObject_ is emptied, not restored.
LeaveMethod(kind) ==
    /\ kind \in {"method", "ctor"}
    /\ Leave(kind, {"return"})
    /\ PopScope
    /\ thisObj' = NoObject

\* Mutant: a break jumps over the pop.
LeaveLoopKeepingScope ==
    /\ Leave("loop", {"break"})
    /\ scopeStack' = IF sig = "break" THEN scopeStack ELSE EnterPreviousScope(scopeStack)
    /\ UNCHANGED thisObj

\* The condition is false, the collection exhausted, or a break arrives.
LeaveLoop ==
    /\ Leave("loop", {"break"})
    /\ PopScope
    /\ UNCHANGED thisObj

LeaveBlock ==
    /\ \/ Leave("switch", {"break"})
       \/ Leave("try", {})
       \/ Leave("catch", {})
       \/ Leave("propInit", {"throw", "error"})
    /\ UNCHANGED <<scopeStack, thisObj>>

\* VoidScript::run() returns; the process ends or serves its next request.
LeaveFile ==
    /\ Leave("file", {"return", "throw", "error"})
    /\ UNCHANGED <<scopeStack, thisObj>>

-----------------------------------------------------------------------------
(* An exception that stays in flight, or is caught without leaving. *)

\* The next iteration; a C-style for runs its increment first.
ContinueLoop ==
    /\ Raised /\ TopFrame.kind = "loop" /\ sig = "continue"
    /\ sig' = "none" /\ origin' = "none"
    /\ UNCHANGED <<frames, scopeStack, tables, thisObj, acts>>

\* Mutant (BUGS.md #28 before its fix): the handler takes a break as well.
CatchExceptionOrBreak ==
    /\ Raised /\ TopFrame.kind = "try" /\ sig \in {"throw", "error", "break"}
    /\ frames' = Append(Callers, [TopFrame EXCEPT !.kind = "catch"])
    /\ sig' = "none" /\ origin' = "none"
    /\ UNCHANGED <<scopeStack, tables, thisObj, acts>>

\* Only `throw' and errors are std::exceptions.  The scopes of the constructs
\* they unwound stay as they are.
CatchException ==
    /\ Raised /\ TopFrame.kind = "try" /\ sig \in {"throw", "error"}
    /\ frames' = Append(Callers, [TopFrame EXCEPT !.kind = "catch"])
    /\ sig' = "none" /\ origin' = "none"
    /\ UNCHANGED <<scopeStack, tables, thisObj, acts>>

Pass ==
    /\ Raised
    /\ frames' = Callers
    /\ UNCHANGED <<origin, tables, thisObj, acts>>

\* Neither a switch, a try nor a catch holds up what it does not handle.
PassBlock ==
    /\ Pass /\ UNCHANGED <<sig, scopeStack>>
    /\ \/ TopFrame.kind = "switch" /\ sig # "break"
       \/ TopFrame.kind = "try" /\ sig \notin {"throw", "error"}
       \/ TopFrame.kind = "catch"

\* `return' is not a std::exception, so no handler of the loop pops its scope.
ReturnThroughLoop ==
    /\ Pass /\ UNCHANGED <<sig, scopeStack>>
    /\ TopFrame.kind = "loop" /\ sig = "return"

\* Mutant: an inner and an outer handler both pop.
ThrowThroughScopePoppingTwice ==
    /\ Pass /\ UNCHANGED sig
    /\ scopeStack' = EnterPreviousScope(EnterPreviousScope(scopeStack))
    /\ TopFrame.kind \in {"loop", "method", "ctor"} /\ sig \in {"throw", "error"}

\* Loops, methods and constructors pop their scope and rethrow.
ThrowThroughScope ==
    /\ Pass /\ UNCHANGED sig /\ PopScope
    /\ TopFrame.kind \in {"loop", "method", "ctor"} /\ sig \in {"throw", "error"}

\* A statement call rethrows and leaves its scope behind.
ThrowThroughCallStatement ==
    /\ Pass /\ UNCHANGED <<sig, scopeStack>>
    /\ TopFrame.kind = "callStmt" /\ sig \in {"throw", "error"}

\* So does a call in an expression, but it wraps every exception in an error.
ThrowThroughCallExpression ==
    /\ Pass /\ UNCHANGED scopeStack
    /\ TopFrame.kind = "callExpr" /\ sig \in {"throw", "error"}
    /\ sig' = "error"

\* The native function between a callback and the script was itself called in
\* a statement or in an expression.
ThrowThroughCallback ==
    /\ Pass /\ UNCHANGED scopeStack
    /\ TopFrame.kind = "callback" /\ sig \in {"throw", "error"}
    /\ sig' \in {sig, "error"}

-----------------------------------------------------------------------------
LeaveOrUnwind ==
    \/ LeaveCallStatement \/ LeaveCallExpression \/ LeaveCallback
    \/ \E kind \in {"method", "ctor"} : LeaveMethod(kind)
    \/ LeaveLoop \/ LeaveBlock \/ LeaveFile
    \/ ContinueLoop \/ CatchException
    \/ PassBlock \/ ReturnThroughLoop \/ ThrowThroughScope
    \/ ThrowThroughCallStatement \/ ThrowThroughCallExpression \/ ThrowThroughCallback

Execute ==
    \/ \E kind \in FunctionCalls : CallFunction(kind)
    \/ \E o \in Objects : CallMethod(o) \/ ConstructObject(o) \/ RejectMethodCall(o)
                          \/ CallPredicate(o)
    \/ \E site \in Sites : EnterLoop(site)
    \/ \E kind \in BlockKinds : EnterBlock(kind)
    \/ MethodTooDeep \/ CallNative
    \/ \E s \in Signals : Raise(s)

\* The script is over; what it left in scopeStack and thisObj stays.
Finished == frames = <<>> /\ UNCHANGED vars

Next == Execute \/ LeaveOrUnwind \/ Finished

\* C++ carries an exception to its handler without running anything else; a
\* script need not reach its end.
Spec == Init /\ [][Next]_vars /\ WF_vars(Raised /\ LeaveOrUnwind)

-----------------------------------------------------------------------------
(* Properties. *)

Segments == {File, Method, Construct} \cup Sites \cup Nat
Names    == Seq(Segments)
Frames   == [kind : ScopedKinds \cup BlockKinds \cup {"catch"}, own : Names,
             base : Nat, act : Nat]

\* Every variable has its type, and the values that go together do: an
\* exception in flight was raised by something.
TypeOK ==
    /\ frames \in Seq(Frames)
    /\ scopeStack \in Seq(Names)
    /\ \A n \in DOMAIN tables : n \in Names /\ tables[n] \in Nat
    /\ sig \in Signals \cup {"none"}
    /\ origin \in Signals \cup {"none"}
    /\ (sig = "none") = (origin = "none")
    /\ thisObj \in Objects \cup {NoObject}
    /\ acts \in Nat

\* Whatever unwound in between, no construct ever loses its own scope while it
\* runs: the scope it entered is still where it put it, above those of its
\* callers.  This is what the hand-written pops of all the nodes must add up
\* to: one pop too many anywhere takes a live caller's variables away.
Scoped(i) == i \in DOMAIN frames /\ frames[i].kind \in ScopedKinds
ScopeKept(i) == frames[i].base \in DOMAIN scopeStack
                /\ scopeStack[frames[i].base] = frames[i].own
LiveScopesKept ==
    /\ \A i \in DOMAIN frames : Scoped(i) => ScopeKept(i)
    /\ \A i, j \in DOMAIN frames :
          i < j /\ Scoped(i) /\ Scoped(j) => frames[i].base < frames[j].base

\* A function's or constructor's variables are its own: nobody created a scope
\* of the same name, hence a new table, since the call began.  (A method's
\* scope is named after the method, so recursion does replace its table.)
CallTableIsOwn ==
    \A i \in DOMAIN frames :
        frames[i].kind \in FunctionCalls \cup {"ctor"} =>
            tables[frames[i].own] = frames[i].act

\* The scopes of functions and constructors are told apart by their numbers
\* alone; no number comes back.
IsCallName(name) == Len(name) = 2 /\ name[2] \in Nat
CallNamesFresh ==
    /\ \A n \in DOMAIN tables : IsCallName(n) => n[2] <= acts
    /\ \A i \in DOMAIN scopeStack : IsCallName(scopeStack[i]) => scopeStack[i][2] <= acts
    /\ \A i, j \in DOMAIN scopeStack :
          scopeStack[i] = scopeStack[j] /\ IsCallName(scopeStack[i]) => i = j

\* Every live call has such a name and the table it created; it has a scope
\* below its own to return to.
LiveCallsNamed ==
    \A i \in DOMAIN frames :
        frames[i].kind \in FunctionCalls \cup {"ctor"} =>
            IsCallName(frames[i].own) /\ frames[i].own \in DOMAIN tables
CallersBelow == scopeStack # <<>> /\ \A i \in DOMAIN frames : Scoped(i) => frames[i].base >= 2

\* The invariant that carries the proofs: why the pops add up.
IInv == /\ TypeOK /\ LiveScopesKept /\ CallTableIsOwn
        /\ CallNamesFresh /\ LiveCallsNamed /\ CallersBelow

\* BUGS.md #28: no handler on the way absorbs control flow.  A break ends at a
\* loop or switch, a continue at a loop, a return at the end of the call whose
\* body raised it.
ControlFlowReachesTarget ==
    [][/\ sig = "break" /\ sig' # "break" =>
             frames' = Callers /\ TopFrame.kind \in {"loop", "switch"}
       /\ sig = "continue" /\ sig' # "continue" =>
             frames' = frames /\ TopFrame.kind = "loop"
       /\ sig = "return" /\ sig' # "return" =>
             frames' = Callers /\ TopFrame.kind \in BodyKinds]_vars

\* Calls in expressions and callbacks recover: when one ends, the scope stack
\* is back to what it was when it began, whatever was left behind inside.
RecoveringCallRestores ==
    [][/\ Len(frames') < Len(frames) /\ TopFrame.kind \in {"callExpr", "callback"}
       /\ sig \in {"none", "return"}
       => scopeStack' = SubSeq(scopeStack, 1, TopFrame.base - 1)]_vars

\* The names the program looks up are those of the construct it is in: at rest
\* the scope stack holds the scopes of the live constructs and no other.
ExactScopes ==
    Running => Len(scopeStack) = Cardinality({i \in DOMAIN frames : Scoped(i)}) + 1

\* BUGS.md #2: the scope of a call is not leaked on return.
ReturnLeaksNoScope ==
    [][sig = "return" /\ sig' # "return" /\ frames' # <<>> =>
         Len(scopeStack') < TopFrame.base]_vars

\* BUGS.md #28: a script's throw is still a throw when it reaches its catch.
ThrowIntact ==
    Raised /\ TopFrame.kind = "try" /\ origin = "throw" => sig = "throw"

\* canAccessPrivateMember(): private members are open to whoever finds an
\* object in thisObject_.
PrivateAccess == thisObj # NoObject

\* They are open only while some method or constructor is running.
PrivateOnlyInMethods ==
    Running /\ PrivateAccess => \E i \in DOMAIN frames : frames[i].kind \in {"method", "ctor"}

\* An exception in flight reaches a handler or the end of the script.
UnwindEnds == (sig # "none") ~> (sig = "none")

\* At rest, the scope stack is the stack of activations a script is promised;
\* an uncaught exception drops them all at once.
Aborted == frames = <<>> \/ sig \in {"throw", "error"}
IsLoopScope(name) == Len(name) > 1 /\ name[Len(name)] \in Sites
Kinds(stack) == [i \in 1..Len(stack) |-> IF IsLoopScope(stack[i]) THEN "loop" ELSE "call"]
LiveDepth == Cardinality({i \in DOMAIN frames : Scoped(i)}) + 1

Activation == INSTANCE Activations WITH
    stack <- IF Aborted THEN <<>> ELSE Kinds(scopeStack),
    depth <- IF Aborted THEN 0 ELSE IF sig = "none" THEN LiveDepth ELSE Len(scopeStack)

RefinesActivations == Activation!Spec

=============================================================================
