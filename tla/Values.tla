------------------------------- MODULE Values -------------------------------
(***************************************************************************)
(* Who shares a value with whom.  A ValuePtr is a counted pointer to a     *)
(* Value; variables, array elements and the literals of the program text   *)
(* hold ValuePtrs, and assignment copies the pointer.  What keeps          *)
(* variables apart is that a scalar is replaced and never changed, that a  *)
(* conversion makes a new Value, and that a call in an expression clones   *)
(* its arguments; a call that is a statement does not.                     *)
(***************************************************************************)
EXTENDS Naturals, Sequences, FiniteSets, SequencesExt

CONSTANTS
    TypeOf,     \* variable |-> its declared type
    Globals,    \* the variables that functions use although a caller has them
    Locals,     \* the variables that functions declare
    MaxKey,     \* bound: the array indices a script uses
    MaxValues,  \* bound: the Values alive together
    MaxLinks,   \* bound: the elements of all arrays together
    MaxCalls    \* bound: nested calls

Vars    == DOMAIN TypeOf
Keys    == 0..MaxKey
Ids     == 1..MaxValues
Scalars == {"int", "double"}

ASSUME ValuesAssumption ==
    /\ TypeOf \in [Vars -> Scalars \cup {"array"}] /\ "p" \notin Vars
    /\ Globals \subseteq Vars /\ Locals \subseteq Vars
    /\ MaxKey \in Nat /\ MaxValues \in Nat \ {0, 1} /\ MaxLinks \in Nat
    /\ MaxCalls \in Nat

VARIABLES
    heap,       \* the Values: a type and, for an array, its elements
    frames,     \* a scope per running call: how it was called, its variables,
                \* and where the statement that made the call puts the result
    overflow    \* the C++ stack has overflowed

vars == <<heap, frames, overflow>>

Free         == [type |-> "free", elems |-> <<>>]
Scalar(type) == [type |-> type, elems |-> <<>>]
EmptyArray   == [type |-> "array", elems |-> <<>>]
Top          == Len(frames)

\* The literals of the program text: a LiteralExpressionNode hands out the
\* ValuePtr it holds each time it is executed.
Literal == [int |-> 1, double |-> 2]

Init == /\ heap = [v \in Ids |-> CASE v = 1 -> Scalar("int")
                                   [] v = 2 -> Scalar("double")
                                   [] OTHER -> Free]
        /\ frames = <<[call |-> "file", env |-> <<>>, into |-> <<>>]>>
        /\ overflow = FALSE

-----------------------------------------------------------------------------
(* The heap. *)

FreeIds(h) == {v \in Ids : h[v] = Free}
Elements(h, v) == {h[v].elems[k] : k \in DOMAIN h[v].elems}

\* The Values in a set and what they lead to: what every set has that holds
\* them and the elements of each of its own.
Reach(h, roots) ==
    LET closed == {S \in SUBSET Ids : roots \subseteq S /\ \A v \in S : Elements(h, v) \subseteq S}
    IN  {v \in Ids : \A S \in closed : v \in S}

\* The paths through the elements of v, and where each one leads.
Further(h, at) ==
    LET longer == UNION {{Append(p, k) : k \in DOMAIN h[at[p]].elems} : p \in DOMAIN at}
    IN  [p \in DOMAIN at \cup longer |->
            IF p \in DOMAIN at THEN at[p] ELSE h[at[Front(p)]].elems[Last(p)]]

Paths(h, v) ==
    LET P[n \in 0..MaxValues] ==
            IF n = 0 THEN [p \in {<<>>} |-> v] ELSE Further(h, P[n - 1])
    IN  P[MaxValues]

\* A path through as many elements as there are Values comes back to one.
Knotted(h, v) == \E p \in DOMAIN Paths(h, v) : Len(p) = MaxValues

\* What the scopes hold, and the C++ frames of the statements in progress.
Held(fs) == UNION {{fs[i].env[x] : x \in DOMAIN fs[i].env}
                   \cup (IF fs[i].into # <<>> /\ fs[i].into[1] \in {"element", "append"}
                         THEN {fs[i].into[2]} ELSE {}) : i \in DOMAIN fs}

\* A statement ends with these frames, and a Value goes with its last pointer.
Finish(h, fs) ==
    /\ ~overflow
    /\ frames' = fs
    /\ LET alive == Reach(h, Held(fs) \cup {1, 2})
       IN  /\ MapThenSumSet(LAMBDA v : Cardinality(DOMAIN h[v].elems), alive) <= MaxLinks
           /\ heap' = [v \in Ids |-> IF v \in alive THEN h[v] ELSE Free]
    /\ UNCHANGED overflow

\* A new Value, if the bound allows one more.
Made(h, value) ==
    {[value |-> v, heap |-> [h EXCEPT ![v] = value]] :
        v \in {u \in FreeIds(h) : \A w \in FreeIds(h) : u <= w}}

-----------------------------------------------------------------------------
(* Looking up, evaluating, converting. *)

\* getVariable() searches the scopes from the innermost to the outermost, those
\* of the callers included.
Scopes(fs, x)  == {i \in DOMAIN fs : x \in DOMAIN fs[i].env /\ (i = Len(fs) \/ x \in Globals)}
ScopeOf(fs, x) == CHOOSE i \in Scopes(fs, x) : \A j \in Scopes(fs, x) : j <= i
Visible        == {x \in Vars \cup {"p"} : Scopes(frames, x) # {}}
ValueOf(fs, x) == fs[ScopeOf(fs, x)].env[x]

\* What an expression without a call evaluates to: a literal, a variable, an
\* element, or a new array; and the heap after it.
Named    == {ValueOf(frames, x) : x \in Visible}
Existing == {1, 2} \cup Named \cup UNION {Elements(heap, v) : v \in Named}
Results  == {[value |-> v, heap |-> heap] : v \in Existing} \cup Made(heap, EmptyArray)

\* Mutant: the Value is converted where it is.
ConvertedInPlace(r, type) ==
    CASE r.heap[r.value].type = type -> {r}
      [] r.heap[r.value].type = "int" /\ type = "double" -> {[r EXCEPT !.heap[r.value].type = type]}
      [] OTHER -> {}

\* tryNumericCoerce(): an integer becomes a new double; nothing else converts,
\* and the script that asks for it is stopped by an exception.
Converted(r, type) ==
    CASE r.heap[r.value].type = type -> {r}
      [] r.heap[r.value].type = "int" /\ type = "double" -> Made(r.heap, Scalar(type))
      [] OTHER -> {}

-----------------------------------------------------------------------------
(* Statements that store a value; "into" says where, and was evaluated first. *)

\* The arrays a script can write to: $a and $a[i].
Arrays == {v \in Named \cup UNION {Elements(heap, w) : w \in Named} : heap[v].type = "array"}

\* Mutant: the index of the last element.
LastKey(v) == IF DOMAIN heap[v].elems = {} THEN 0 ELSE Cardinality(DOMAIN heap[v].elems) - 1

\* The index of $a[]: the number of elements.
AppendKey(v) == Cardinality(DOMAIN heap[v].elems)

Bind(fs, i, x, v) ==
    [fs EXCEPT ![i].env = [y \in DOMAIN @ \cup {x} |-> IF y = x THEN v ELSE @[y]]]

\* A declaration converts to the declared type; an assignment to the type of the
\* value it replaces.
StoreInVariable(fs, x, i, type, r) ==
    \E c \in Converted(r, type) : Finish(c.heap, Bind(fs, i, x, c.value))

\* An element is replaced by one of the same type only.
StoreInArray(fs, v, k, r) ==
    /\ k \in Keys
    /\ k \in DOMAIN r.heap[v].elems => r.heap[r.value].type = r.heap[r.heap[v].elems[k]].type
    /\ Finish([r.heap EXCEPT ![v].elems =
                  [j \in DOMAIN @ \cup {k} |-> IF j = k THEN r.value ELSE @[j]]], fs)

Store(fs, into, r) ==
    \/ /\ into[1] = "declare"
       /\ StoreInVariable(fs, into[2], Len(fs), TypeOf[into[2]], r)
    \/ /\ into[1] = "assign"
       /\ StoreInVariable(fs, into[2], ScopeOf(fs, into[2]), r.heap[ValueOf(fs, into[2])].type, r)
    \/ /\ into[1] \in {"element", "append"}
       /\ StoreInArray(fs, into[2], into[3], r)

Declarations == {<<"declare", x>> : x \in (IF Top = 1 THEN Vars ELSE Locals) \ DOMAIN frames[Top].env}
Assignments  == {<<"assign", x>> : x \in Visible}
ElementPuts  == {<<"element", v, k>> : v \in Arrays, k \in Keys}
Appends      == {<<"append", v, AppendKey(v)>> : v \in Arrays}
Targets      == Declarations \cup Assignments \cup ElementPuts \cup Appends

Declare       == \E into \in Declarations, r \in Results : Store(frames, into, r)
Assign        == \E into \in Assignments, r \in Results : Store(frames, into, r)
PutElement    == \E into \in ElementPuts, r \in Results : Store(frames, into, r)
AppendElement == \E into \in Appends, r \in Results : Store(frames, into, r)

-----------------------------------------------------------------------------
(* Calls. *)

Enter(h, how, v, into) ==
    /\ Top <= MaxCalls
    /\ Finish(h, Append(frames, [call |-> how, env |-> [x \in {"p"} |-> v], into |-> into]))

\* f(expr); binds the parameter to the argument itself.
CallStatement == \E r \in Results : Enter(r.heap, "statement", r.value, <<>>)

\* Mutant: a new array with the same elements.
ShallowClone(r) == Made(r.heap, r.heap[r.value])

\* The places that the Values at the ends of some paths could be copied to, and
\* the heap after that.
Places(h, paths) ==
    {f \in IF Cardinality(paths) > Cardinality(FreeIds(h)) THEN {} ELSE [paths -> FreeIds(h)] :
        \A p, q \in paths : f[p] = f[q] => p = q}

Copied(h, at, place) ==
    LET Copy(p) == [type  |-> h[at[p]].type,
                    elems |-> [k \in DOMAIN h[at[p]].elems |-> place[Append(p, k)]]]
    IN  [v \in Ids |-> IF v \in {place[p] : p \in DOMAIN at}
                      THEN Copy(CHOOSE p \in DOMAIN at : place[p] = v) ELSE h[v]]

\* clone(): a new Value for every path, so that what the argument shared within
\* itself is no longer shared.
Clone(r) ==
    LET at    == Paths(r.heap, r.value)
        place == CHOOSE f \in Places(r.heap, DOMAIN at) : TRUE
    IN  IF Places(r.heap, DOMAIN at) = {} THEN {}
        ELSE {[value |-> place[<<>>], heap |-> Copied(r.heap, at, place)]}

\* A statement that stores f(expr): the parameter is bound to a clone.
CallExpression ==
    \E into \in Targets, r \in Results :
        /\ ~Knotted(r.heap, r.value)
        /\ \E c \in Clone(r) : Enter(c.heap, "expression", c.value, into)

\* The clone of an array that contains itself has no end.
CloneWithoutEnd ==
    /\ ~overflow /\ \E v \in Existing : Knotted(heap, v)
    /\ overflow' = TRUE
    /\ UNCHANGED <<heap, frames>>

\* A call that is a statement discards what the function returns.
ReturnFromStatement ==
    /\ frames[Top].call = "statement"
    /\ Finish(heap, Front(frames))

\* Otherwise the Value itself, not a clone, goes where the statement wants it.
ReturnFromExpression ==
    /\ frames[Top].call = "expression"
    /\ \E r \in Results : Store(Front(frames), frames[Top].into, r)

Next ==
    \/ Declare \/ Assign \/ PutElement \/ AppendElement
    \/ CallStatement \/ CallExpression \/ CloneWithoutEnd
    \/ ReturnFromStatement \/ ReturnFromExpression

Spec == Init /\ [][Next]_vars

-----------------------------------------------------------------------------
(* Properties. *)

\* Only arrays have elements.
HeapTyped(h) ==
    /\ h \in [Ids -> [type : Scalars \cup {"array", "free"},
                     elems : UNION {[D -> Ids] : D \in SUBSET Keys}]]
    /\ \A v \in Ids : h[v].type # "array" => DOMAIN h[v].elems = {}

\* No pointer leads to a Value that is gone: what a running call, or a statement
\* waiting for one, will use is still there.
TypeOK ==
    /\ HeapTyped(heap)
    /\ \A v \in Ids : Elements(heap, v) \subseteq Ids \ FreeIds(heap)
    /\ \A i \in 1..Top :
          /\ frames[i].call \in {"file", "statement", "expression"}
          /\ DOMAIN frames[i].env \subseteq Vars \cup {"p"}
    /\ Held(frames) \subseteq Ids \ FreeIds(heap)
    /\ overflow \in BOOLEAN

\* The arrays that the variables of the frames from i to j lead to.
ArraysOf(i, j) == {v \in Reach(heap, Held(SubSeq(frames, i, j))) : heap[v].type = "array"}

\* While a call in an expression runs, and whatever it calls by reference, no
\* array that its callers hold can be changed: the statement that waits for the
\* result aside, no array is held on both sides.
CallsInExpressionsIsolate ==
    \A i \in 2..Top : frames[i].call = "expression" =>
        {v \in ArraysOf(1, i - 1) :
            \E j \in i..Top : \E x \in DOMAIN frames[j].env : v \in Reach(heap, {frames[j].env[x]})} = {}

\* A scalar, once made, is never changed: the variables, elements and literals
\* that share it cannot tell.
ScalarsNeverChange ==
    [][\A v \in Ids : heap[v].type \in Scalars => heap'[v] \in {heap[v], Free}]_vars

\* "$a[] = expr" on an array without gaps adds an element and loses none, also
\* when expr calls a function (IndexedAssignmentStatementNode.hpp: "the next free
\* slot is the current size").
Appending(v) ==
    \/ \E r \in Results : Store(frames, <<"append", v, AppendKey(v)>>, r)
    \/ /\ ReturnFromExpression
       /\ frames[Top].into[1] = "append" /\ frames[Top].into[2] = v

Dense(v) == DOMAIN heap[v].elems = {k \in Keys : k < Cardinality(DOMAIN heap[v].elems)}

AppendAdds ==
    [][\A v \in Ids : heap[v].type = "array" /\ Dense(v) /\ Appending(v) /\ heap'[v] # Free
            => Cardinality(DOMAIN heap'[v].elems) = Cardinality(DOMAIN heap[v].elems) + 1]_vars
=============================================================================
