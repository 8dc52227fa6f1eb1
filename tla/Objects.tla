------------------------------ MODULE Objects ------------------------------
(***************************************************************************)
(* Instances of the classes of a script, and the calls that pass them      *)
(* about.  A variable and a property hold a pointer to an object.  A       *)
(* function called in an expression gets a clone of its argument, any      *)
(* other call the object itself.  Every call has a table of variables      *)
(* under the name of its scope: a function and a constructor under one     *)
(* that is new, a method under one that all its calls share.               *)
(***************************************************************************)
EXTENDS Naturals, Sequences, FiniteSets

CONSTANTS
    Classes,        \* the classes of scripts; each has one property and one
                    \* method, and passes one argument
    Private,        \* the classes whose property is private
    Constructed,    \* the classes with a constructor
    Scripts         \* what each script has: the kinds of its calls and of those
                    \* that declare a variable, and two bounds, on the objects
                    \* alive together and the calls nested, the file among them

Functions == {"statement", "expression"}    \* a call of f, by its position
Methods   == {"method", "constructor"}
Kinds     == {"file"} \cup Functions \cup Methods

ASSUME ObjectsAssumption ==
    /\ Private \subseteq Classes /\ Constructed \subseteq Classes
    /\ {"free", "none", "call"} \cap Classes = {}
    /\ Scripts \subseteq [classes : SUBSET Classes, kinds : SUBSET Kinds, locals : SUBSET Kinds,
                         objects : Nat, depth : Nat \ {0}]

VARIABLES
    script,     \* the one that runs
    heap,       \* the objects: class and what the property holds
    calls,      \* the calls that run
    tables,     \* scopes_: the variables under each name of a running call
    thisObj,    \* thisObject_, or 0
    overflow    \* the C++ stack has overflowed

vars == <<script, heap, calls, tables, thisObj, overflow>>

Ids   == 1..script.objects
Names == {"this", "k", "x"}     \* k is the parameter

\* An object of class "none" is what a class-typed variable or property holds
\* that was never given a value.  Property 0 of an instance is such an object
\* that nothing else has seen; an object of no class has no property then.
Object == [class : Classes \cup {"free", "none"}, p : {0} \cup Ids]
Free   == [class |-> "free", p |-> 0]
Empty  == [class |-> "none", p |-> 0]

\* Where the statement that made a call puts what the call returns: nowhere,
\* into a new variable, into one that it has looked up, or into the property
\* of an object that it has looked up.
Target  == [how : {"drop", "declare", "assign", "put"}, var : Names, of : {0} \cup Ids]
Nowhere == [how |-> "drop", var |-> "x", of |-> 0]

\* reused says that the method has been called again before this call has
\* ended, and called that it has called a method or a constructor itself
\* (both are history).
Call == [kind : Kinds, scope : ({"call"} \cup Classes) \X Nat, self : {0} \cup Ids,
         into : Target,
         reused : BOOLEAN, called : BOOLEAN]

TypeOK ==
    /\ script \in Scripts
    /\ heap \in [Ids -> Object]
    /\ calls \in Seq(Call) /\ Len(calls) \in 1..script.depth
    /\ DOMAIN tables = {calls[i].scope : i \in DOMAIN calls}
    /\ \A s \in DOMAIN tables : /\ DOMAIN tables[s] \subseteq Names
                                /\ \A x \in DOMAIN tables[s] : tables[s][x] \in Ids
    /\ thisObj \in {0} \cup Ids
    /\ overflow \in BOOLEAN

Depth == Len(calls)
Top   == calls[Depth]
Own   == tables[Top.scope]

Init ==
    /\ script \in Scripts
    /\ heap = [a \in Ids |-> Free]
    /\ calls = <<[kind |-> "file", scope |-> <<"call", 1>>, self |-> 0, into |-> Nowhere,
                  reused |-> FALSE, called |-> FALSE]>>
    /\ tables = [s \in {<<"call", 1>>} |-> <<>>]
    /\ thisObj = 0
    /\ overflow = FALSE

-----------------------------------------------------------------------------
(* The heap. *)

\* The objects in a set and what they lead to: what every set has that holds
\* them and the property of each of its own.
Reach(h, roots) ==
    LET closed == {S \in SUBSET Ids : /\ roots \ {0} \subseteq S
                                     /\ \A a \in S : h[a].p \in S \cup {0}}
    IN  {a \in Ids : \A S \in closed : a \in S}

\* It leads to an object that leads back to itself.
Knotted(h, v) == \E a \in Reach(h, {v}) : a \in Reach(h, {h[a].p})

FreeIds(h) == {a \in Ids : h[a] = Free}

\* A new object, if the bound allows one more.
Made(h, object) ==
    {[value |-> a, heap |-> [h EXCEPT ![a] = object]] :
        a \in {b \in FreeIds(h) : \A c \in FreeIds(h) : b <= c}}

Values(table) == {table[x] : x \in DOMAIN table}

Restricted(f, S) == [s \in S |-> f[s]]

\* A statement ends: a table goes that no call uses, for create() makes another
\* before its name is used again, and an object with the last pointer to it.
Finish(h, cs, ts, this) ==
    LET live  == Restricted(ts, {cs[i].scope : i \in DOMAIN cs})
        roots == (UNION {Values(live[s]) : s \in DOMAIN live})
                 \cup {cs[i].self : i \in DOMAIN cs} \cup {cs[i].into.of : i \in DOMAIN cs}
        alive == Reach(h, roots)
    IN  /\ calls' = cs /\ tables' = live /\ thisObj' = this
        /\ heap' = [a \in Ids |-> IF a \in alive THEN h[a] ELSE Free]
        /\ UNCHANGED <<script, overflow>>

-----------------------------------------------------------------------------
(* Expressions without a call, and the statements that store a value. *)

\* canAccessPrivateMember(), for reading; nothing asks it before writing.
Accessible(o) ==
    heap[o].class \in Private => thisObj # 0 /\ heap[thisObj].class = heap[o].class

\* $y, or $y->p: the empty object behind a property comes to light.
Results ==
    {[value |-> v, heap |-> heap] : v \in Values(Own)}
    \cup {[value |-> heap[o].p, heap |-> heap] :
             o \in {a \in Values(Own) : heap[a].p # 0 /\ Accessible(a)}}
    \cup UNION {{[r EXCEPT !.heap[o].p = r.value] : r \in Made(heap, Empty)} :
             o \in {a \in Values(Own) : /\ heap[a].class # "none" /\ heap[a].p = 0
                                        /\ Accessible(a)}}

Declarations == [how : {"declare"}, of : {0},
                 var : IF Top.kind \in script.locals THEN {"x"} \ DOMAIN Own ELSE {}]
Assignments  == [how : {"assign"}, var : DOMAIN Own \cap {"x"}, of : {0}]
Puts         == [how : {"put"}, var : {"x"}, of : Values(Own)]
Targets      == Declarations \cup Assignments \cup Puts

\* The rest of the statement that the innermost call of cs is in.
Store(r, cs, ts, into, this) ==
    LET s == cs[Len(cs)].scope
    IN  \/ into.how = "drop" /\ Finish(r.heap, cs, ts, this)
        \/ /\ into.how = "declare" /\ into.var \notin DOMAIN ts[s]
           /\ Finish(r.heap, cs, [ts EXCEPT ![s] = [y \in DOMAIN @ \cup {into.var} |->
                                        IF y = into.var THEN r.value ELSE @[y]]], this)
        \/ into.how = "assign" /\ Finish(r.heap, cs, [ts EXCEPT ![s][into.var] = r.value], this)
        \/ into.how = "put" /\ Finish([r.heap EXCEPT ![into.of].p = r.value], cs, ts, this)

Assign == \E r \in Results, into \in Targets : Store(r, calls, tables, into, thisObj)

\* A declaration without a value, or `new` of a class without a constructor.
DeclareEmpty ==
    \E into \in Declarations, r \in Made(heap, Empty) :
        Store(r, calls, tables, into, thisObj)

NewPlain ==
    \E c \in script.classes \ Constructed, into \in Targets :
    \E r \in Made(heap, [class |-> c, p |-> 0]) : Store(r, calls, tables, into, thisObj)

-----------------------------------------------------------------------------
(* Calls. *)

\* Mutant: a call's scope is named after the function alone.
ScopeOfFunction(depth) == <<"call", IF depth = 1 THEN 1 ELSE 2>>

\* The names end in the number of the call, which never comes back; among the
\* calls that run, the depth is as good.  A method's scope has no number.
CallScope(depth) == <<"call", depth>>

MethodScope(class) == <<class, 0>>

\* create() puts a new table under the name.  A call that has the name loses its
\* variables, and the assignment that waits for a result there has a variable
\* that is in no table any more.
Orphaned(into, waiting, scope) ==
    IF into.how = "assign" /\ waiting.scope = scope THEN Nowhere ELSE into

Renamed(scope) ==
    [i \in DOMAIN calls |->
        [calls[i] EXCEPT !.reused = @ \/ calls[i].scope = scope,
                         !.into = IF i = 1 THEN @ ELSE Orphaned(@, calls[i - 1], scope)]]

Enter(h, kind, scope, self, table, into) ==
    LET call == [kind |-> kind, scope |-> scope, self |-> self,
                 into |-> Orphaned(into, Top, scope), reused |-> FALSE, called |-> FALSE]
        ts   == [s \in DOMAIN tables \cup {scope} |-> IF s = scope THEN table ELSE tables[s]]
    IN  /\ kind \in script.kinds /\ Depth < script.depth
        /\ Finish(h, Append(Renamed(scope), call), ts,
                  IF kind \in Functions THEN thisObj ELSE self)

Parameter(v)       == [y \in {"k"} |-> v]
WithThis(self, v)  == [y \in {"this", "k"} |-> IF y = "this" THEN self ELSE v]

\* The search for a function goes outwards through the names of scopes, and
\* from a method or a constructor that does not lead to the file.
FindsFunctions == Top.kind \in {"file"} \cup Functions

\* f($y);
CallStatement ==
    /\ FindsFunctions
    /\ \E v \in Values(Own) :
          Enter(heap, "statement", CallScope(Depth + 1), 0, Parameter(v), Nowhere)

\* Mutant: the clone has the same property.
ShallowClone(v) == Made(heap, heap[v])

\* The places that some objects could be copied to, and the heap after that.
Places(old) == {f \in [old -> FreeIds(heap)] : \A a, b \in old : f[a] = f[b] => a = b}

Copied(old, place) ==
    LET Copy(a) == [class |-> heap[a].class,
                    p |-> IF heap[a].p = 0 THEN 0 ELSE place[heap[a].p]]
    IN  [b \in Ids |-> IF b \in {place[a] : a \in old}
                      THEN Copy(CHOOSE a \in old : place[a] = b) ELSE heap[b]]

\* clone(): a new object for every one that v leads to.
Clone(v) ==
    LET old   == Reach(heap, {v})
        place == CHOOSE f \in Places(old) : TRUE
    IN  IF Places(old) = {} THEN {}
        ELSE {[value |-> place[v], heap |-> Copied(old, place)]}

\* A statement that stores f($y).
CallExpression ==
    /\ FindsFunctions
    /\ \E v \in Values(Own), into \in Targets :
          /\ ~Knotted(heap, v)
          /\ \E r \in Clone(v) :
                Enter(r.heap, "expression", CallScope(Depth + 1), 0, Parameter(r.value), into)

\* The clone of an object that leads to itself has no end.
CloneWithoutEnd ==
    /\ "expression" \in script.kinds /\ FindsFunctions
    /\ \E v \in Values(Own) : Knotted(heap, v)
    /\ overflow' = TRUE
    /\ UNCHANGED <<script, heap, calls, tables, thisObj>>

\* $y->m($z); alone or in a statement that stores the result.
CallMethod ==
    \E o \in {a \in Values(Own) : heap[a].class \in Classes}, v \in Values(Own),
       into \in Targets \cup {Nowhere} :
        Enter(heap, "method", MethodScope(heap[o].class), o, WithThis(o, v), into)

\* A statement that stores new C($y).
New ==
    \E c \in script.classes \cap Constructed, v \in Values(Own), into \in Targets :
    \E r \in Made(heap, [class |-> c, p |-> 0]) :
        Enter(r.heap, "constructor", CallScope(Depth + 1), r.value, WithThis(r.value, v), into)

\* Mutant: thisObject_ stays.
KeepThis == thisObj

\* The exit of a method and of a constructor empties thisObject_.
ThisAfter == IF Top.kind \in Functions THEN thisObj ELSE 0

\* What is returned: by a constructor, the object; by a statement, nothing that
\* counts; by a method that has no return, an empty object.
Returned ==
    CASE Top.kind = "constructor" -> {[value |-> Top.self, heap |-> heap]}
      [] Top.kind = "method"      -> Results \cup Made(heap, Empty)
      [] OTHER                    -> Results

Return ==
    LET rest == [i \in 1..(Depth - 1) |->
                    [calls[i] EXCEPT !.called = @ \/ (i = Depth - 1 /\ Top.kind \notin Functions)]]
    IN  /\ Depth > 1
        /\ IF Top.into.how = "drop"
           THEN Finish(heap, rest, tables, ThisAfter)
           ELSE \E r \in Returned : Store(r, rest, tables, Top.into, ThisAfter)

Step == \/ Assign \/ DeclareEmpty \/ NewPlain \/ CallStatement \/ CallExpression
        \/ CloneWithoutEnd \/ CallMethod \/ New \/ Return

Next == ~overflow /\ Step

Spec == Init /\ [][Next]_vars
-----------------------------------------------------------------------------
(* A call changes its own variables and nobody else's: the variables of a  *)
(* call that waits stay, and when it goes on they differ at most in the    *)
(* one that the result was for.  The exception is a method that was called *)
(* again while it ran, directly or through others, which has the variables *)
(* of the later call from then on.                                         *)
KeepsVariables(i) ==
    LET before == tables[calls[i].scope]
        after  == tables'[calls'[i].scope]
    IN  /\ i < Len(calls') => after = before
        /\ i < Len(calls) => \A x \in DOMAIN before :
              after[x] = before[x] \/ (Top.into.how = "assign" /\ Top.into.var = x)

VariablesAreOwn ==
    [][\A i \in DOMAIN calls \cap DOMAIN calls' :
          ~(calls'[i].kind = "method" /\ calls'[i].reused) => KeepsVariables(i)]_vars

(* What private members are open to: a method or a constructor, for its    *)
(* own class, until it has called another; and nothing else.               *)
ThisIsReceiver ==
    thisObj = IF Top.kind \in Methods /\ ~Top.called THEN Top.self ELSE 0

Roots(i) == Values(tables[calls[i].scope]) \cup {calls[i].self}

(* Whatever a function that was called in an expression does with its      *)
(* argument, and whatever methods it calls, it leads to no object that its *)
(* callers have.                                                           *)
ArgumentsAreCopies ==
    \A i \in DOMAIN calls : calls[i].kind = "expression" =>
        LET inside  == (UNION {Roots(j) : j \in i..Depth})
                       \cup {calls[j].into.of : j \in (i + 1)..Depth}
            outside == (UNION {Roots(j) : j \in 1..(i - 1)})
                       \cup {calls[j].into.of : j \in 1..i}
        IN  Reach(heap, inside) \cap Reach(heap, outside) = {}
=============================================================================
