--------------------------- MODULE ObjectsProofs ---------------------------
(***************************************************************************)
(* Variables are a call's own, for any classes, scripts and depth of       *)
(* calls.  Two calls that run together have the same scope only if both    *)
(* are of one method, and then the first is marked when the second begins. *)
(* Private members are open to the innermost call alone because nothing    *)
(* that a method can call is a function: a function never has an object to *)
(* keep or to give back.  And the objects of a function called in an       *)
(* expression are cut off from its callers': what it stores, it stores in  *)
(* variables and objects on its own side of the heap.                      *)
(***************************************************************************)
EXTENDS Objects, SequenceTheorems, TLAPS

\* What the names of scopes and the callers of functions are.
CallIsSound(i) ==
    /\ calls[i].kind = "file" => i = 1
    /\ calls[i].kind = "method" => calls[i].scope[1] \in Classes
    /\ calls[i].kind # "method" => calls[i].scope = CallScope(i)
    /\ calls[i].kind = "constructor" => calls[i].self # 0
    /\ i > 1 /\ calls[i].kind \in Functions => calls[i - 1].kind \notin Methods

CallsAreSound == \A i \in DOMAIN calls : CallIsSound(i)

\* A scope that two running calls share is of a method, and marked.
ScopesApart ==
    \A i, j \in DOMAIN calls :
        i < j /\ calls[i].scope = calls[j].scope => calls[i].kind = "method" /\ calls[i].reused

ObjectsInv == TypeOK /\ CallsAreSound /\ ScopesApart /\ ThisIsReceiver

TablesTyped(ts) ==
    \A s \in DOMAIN ts : /\ DOMAIN ts[s] \subseteq Names
                         /\ \A x \in DOMAIN ts[s] : ts[s][x] \in Ids

IsResult(r) == r.value \in Ids /\ r.heap \in [Ids -> Object]

-----------------------------------------------------------------------------
(* Lemmas about the heap and the results of expressions                    *)

\* The objects that a typed heap has no use for.
LEMMA MadeTyped ==
    ASSUME NEW h \in [Ids -> Object], NEW object \in Object, NEW r \in Made(h, object)
    PROVE  IsResult(r)
  BY DEF Made, FreeIds, IsResult

\* The running call has a table, and what is in it is an object.
LEMMA OwnTyped ==
    ASSUME TypeOK
    PROVE  /\ Depth \in DOMAIN calls /\ Top \in Call /\ Top.scope \in DOMAIN tables
           /\ DOMAIN Own \subseteq Names /\ Values(Own) \subseteq Ids
<1>1. Depth \in DOMAIN calls
  BY DEF TypeOK, Depth
<1>2. Top \in Call /\ Top.scope \in DOMAIN tables
  BY <1>1 DEF TypeOK, Top
<1> QED
  BY <1>1, <1>2 DEF TypeOK, Own, Values

\* The objects with no name of their own are objects.
LEMMA EmptyTyped == Empty \in Object /\ Free \in Object
  BY DEF Empty, Free, Object

\* An expression without a call evaluates to an object.
LEMMA ResultsTyped ==
    ASSUME TypeOK, NEW r \in Results
    PROVE  IsResult(r)
<1>1. heap \in [Ids -> Object]
  BY DEF TypeOK
<1>2. CASE \E v \in Values(Own) : r = [value |-> v, heap |-> heap]
  BY <1>1, <1>2, OwnTyped DEF IsResult
<1>3. CASE \E o \in Values(Own) : heap[o].p # 0 /\ r = [value |-> heap[o].p, heap |-> heap]
  BY <1>1, <1>3, OwnTyped DEF IsResult, Object
<1>4. CASE \E o \in Values(Own), q \in Made(heap, Empty) : r = [q EXCEPT !.heap[o].p = q.value]
  <2>1. PICK o \in Values(Own), q \in Made(heap, Empty) : r = [q EXCEPT !.heap[o].p = q.value]
    BY <1>4
  <2>2. IsResult(q) /\ q = [value |-> q.value, heap |-> q.heap]
    BY <1>1, <2>1, MadeTyped, EmptyTyped DEF Made
  <2>3. r = [value |-> q.value, heap |-> [q.heap EXCEPT ![o].p = q.value]]
    BY <2>1, <2>2
  <2> QED
    BY <2>2, <2>3, OwnTyped DEF IsResult, Object
<1> QED
  BY <1>2, <1>3, <1>4 DEF Results

\* An object is among those it leads to, and so is what its property holds.
LEMMA ReachClosed ==
    ASSUME NEW h \in [Ids -> Object], NEW v \in Ids
    PROVE  /\ v \in Reach(h, {v}) /\ Reach(h, {v}) \subseteq Ids
           /\ \A a \in Reach(h, {v}) : h[a].p \in Reach(h, {v}) \cup {0}
  BY DEF Reach, Object, Ids

\* A clone is made of objects that were free.
LEMMA CopiedTyped ==
    ASSUME TypeOK, NEW old \in SUBSET Ids, NEW place \in [old -> Ids],
           \A a \in old : heap[a].p \in old \cup {0}
    PROVE  Copied(old, place) \in [Ids -> Object]
<1> DEFINE Copy(a) == [class |-> heap[a].class,
                       p |-> IF heap[a].p = 0 THEN 0 ELSE place[heap[a].p]]
<1>1. heap \in [Ids -> Object]
  BY DEF TypeOK
<1>2. \A a \in old : Copy(a) \in Object
  BY <1>1 DEF Object
<1>3. \A b \in {place[a] : a \in old} : (CHOOSE a \in old : place[a] = b) \in old
  OBVIOUS
<1>4. Copied(old, place) =
        [b \in Ids |-> IF b \in {place[a] : a \in old}
                      THEN Copy(CHOOSE a \in old : place[a] = b) ELSE heap[b]]
  BY DEF Copied
<1> HIDE DEF Copy
<1> QED
  BY <1>1, <1>2, <1>3, <1>4

LEMMA CloneTyped ==
    ASSUME TypeOK, NEW v \in Ids, NEW r \in Clone(v)
    PROVE  IsResult(r)
<1> DEFINE old   == Reach(heap, {v})
           place == CHOOSE f \in Places(old) : TRUE
<1>1. heap \in [Ids -> Object]
  BY DEF TypeOK
<1>2. v \in old /\ old \subseteq Ids /\ \A a \in old : heap[a].p \in old \cup {0}
  BY <1>1, ReachClosed
<1>3. Places(old) # {} /\ r = [value |-> place[v], heap |-> Copied(old, place)]
  BY Zenon DEF Clone
<1>4. place \in Places(old)
  BY <1>3
<1>5. place \in [old -> Ids]
  BY <1>4 DEF Places, FreeIds
<1> HIDE DEF old, place
<1>6. Copied(old, place) \in [Ids -> Object]
  BY <1>2, <1>5, CopiedTyped
<1> QED
  BY <1>2, <1>3, <1>5, <1>6 DEF IsResult

-----------------------------------------------------------------------------
(* Lemmas about the end of a statement                                     *)

\* Frames and tables that are typed stay so when nothing else is thrown away
\* than what is of no use.
LEMMA FinishTyped ==
    ASSUME TypeOK, NEW h \in [Ids -> Object], NEW cs \in Seq(Call),
           Len(cs) \in 1..script.depth, NEW ts, TablesTyped(ts),
           \A i \in DOMAIN cs : cs[i].scope \in DOMAIN ts,
           NEW this \in {0} \cup Ids, Finish(h, cs, ts, this)
    PROVE  TypeOK'
<1>1. /\ script' = script /\ overflow' = overflow /\ calls' = cs /\ thisObj' = this
      /\ tables' = [s \in {cs[i].scope : i \in DOMAIN cs} |-> ts[s]]
      /\ heap' \in [Ids -> Object]
  BY EmptyTyped DEF Finish, Restricted
<1>2. Ids' = Ids /\ Object' = Object /\ Call' = Call
  BY <1>1 DEF Ids, Object, Call, Target
<1>3. \A s \in DOMAIN tables' : tables'[s] = ts[s] /\ s \in DOMAIN ts
  BY <1>1
<1> QED
  BY <1>1, <1>2, <1>3 DEF TypeOK, TablesTyped

\* The tables of running calls are the ones the statement made.
Finished(cs, ts, this) ==
    /\ calls' = cs /\ thisObj' = this
    /\ \A i \in DOMAIN cs : tables'[cs[i].scope] = ts[cs[i].scope]

LEMMA FinishTables ==
    ASSUME NEW h, NEW cs, NEW ts, NEW this, Finish(h, cs, ts, this)
    PROVE  Finished(cs, ts, this)
  BY DEF Finish, Restricted, Finished

\* A statement that stores a result.
LEMMA StoreTyped ==
    ASSUME TypeOK, NEW r, IsResult(r), NEW cs \in Seq(Call),
           Len(cs) \in 1..script.depth, NEW ts, TablesTyped(ts),
           \A i \in DOMAIN cs : cs[i].scope \in DOMAIN ts,
           NEW into \in Target, NEW this \in {0} \cup Ids, Store(r, cs, ts, into, this)
    PROVE  TypeOK'
<1> DEFINE s == cs[Len(cs)].scope
<1>1. s \in DOMAIN ts /\ into.var \in Names
  BY DEF Target
<1>2. CASE into.how = "drop" /\ Finish(r.heap, cs, ts, this)
  BY <1>2, FinishTyped DEF IsResult
<1>3. ASSUME NEW table, Finish(r.heap, cs, [ts EXCEPT ![s] = table], this),
             DOMAIN table \subseteq Names, \A x \in DOMAIN table : table[x] \in Ids
      PROVE  TypeOK'
  <2>1. TablesTyped([ts EXCEPT ![s] = table])
    BY <1>3 DEF TablesTyped
  <2> QED
    BY <1>3, <2>1, FinishTyped DEF IsResult
<1>4. CASE into.how = "declare" /\ Finish(r.heap, cs, [ts EXCEPT ![s] =
             [y \in DOMAIN @ \cup {into.var} |-> IF y = into.var THEN r.value ELSE @[y]]], this)
  BY <1>1, <1>3, <1>4 DEF IsResult, TablesTyped
<1>5. CASE into.how = "assign" /\ Finish(r.heap, cs, [ts EXCEPT ![s][into.var] = r.value], this)
  BY <1>1, <1>3, <1>5 DEF IsResult, TablesTyped
<1>6. CASE into.how = "put" /\ Finish([r.heap EXCEPT ![into.of].p = r.value], cs, ts, this)
  <2>1. [r.heap EXCEPT ![into.of].p = r.value] \in [Ids -> Object]
    BY DEF IsResult, Object
  <2> QED
    BY <1>6, <2>1, FinishTyped
<1> QED
  BY <1>2, <1>4, <1>5, <1>6 DEF Store

\* What it changes: in the table of the innermost call, the target.
Stored(cs, ts, into, this) ==
    LET s == cs[Len(cs)].scope
    IN  /\ calls' = cs /\ thisObj' = this
        /\ \A i \in DOMAIN cs : cs[i].scope # s => tables'[cs[i].scope] = ts[cs[i].scope]
        /\ \A x \in DOMAIN ts[s] :
              tables'[s][x] = ts[s][x] \/ (into.how = "assign" /\ into.var = x)

LEMMA StoreTables ==
    ASSUME NEW r, NEW cs, Len(cs) \in DOMAIN cs, NEW ts, cs[Len(cs)].scope \in DOMAIN ts,
           NEW into, NEW this, Store(r, cs, ts, into, this)
    PROVE  Stored(cs, ts, into, this)
<1> DEFINE s == cs[Len(cs)].scope
<1>1. ASSUME Finished(cs, ts, this) PROVE Stored(cs, ts, into, this)
  BY <1>1 DEF Finished, Stored
<1>2. ASSUME NEW table, Finished(cs, [ts EXCEPT ![s] = table], this),
             \A x \in DOMAIN ts[s] :
                 table[x] = ts[s][x] \/ (into.how = "assign" /\ into.var = x)
      PROVE  Stored(cs, ts, into, this)
  <2>1. /\ calls' = cs /\ thisObj' = this
        /\ \A i \in DOMAIN cs : tables'[cs[i].scope] = [ts EXCEPT ![s] = table][cs[i].scope]
    BY <1>2 DEF Finished
  <2>2. tables'[s] = table
    BY <2>1
  <2>3. \A i \in DOMAIN cs : cs[i].scope # s => tables'[cs[i].scope] = ts[cs[i].scope]
    BY <2>1
  <2> QED
    BY <1>2, <2>1, <2>2, <2>3 DEF Stored
<1>3. CASE into.how = "drop" /\ Finish(r.heap, cs, ts, this)
  BY <1>1, <1>3, FinishTables
<1>4. CASE into.how = "declare" /\ into.var \notin DOMAIN ts[s]
           /\ Finish(r.heap, cs, [ts EXCEPT ![s] =
                 [y \in DOMAIN @ \cup {into.var} |-> IF y = into.var THEN r.value ELSE @[y]]], this)
  BY <1>2, <1>4, FinishTables
<1>5. CASE into.how = "assign" /\ Finish(r.heap, cs, [ts EXCEPT ![s][into.var] = r.value], this)
  BY <1>2, <1>5, FinishTables
<1>6. CASE into.how = "put" /\ Finish([r.heap EXCEPT ![into.of].p = r.value], cs, ts, this)
  BY <1>1, <1>6, FinishTables
<1> QED
  BY <1>3, <1>4, <1>5, <1>6 DEF Store

-----------------------------------------------------------------------------
(* The steps                                                               *)

\* What VariablesAreOwn says of a step.
OwnStep ==
    \A i \in DOMAIN calls \cap DOMAIN calls' :
        ~(calls'[i].kind = "method" /\ calls'[i].reused) => KeepsVariables(i)

\* The running calls.
LEMMA CallsTyped ==
    ASSUME TypeOK
    PROVE  /\ calls \in Seq(Call) /\ Len(calls) \in 1..script.depth
           /\ Len(calls) \in Nat \ {0} /\ DOMAIN calls = 1..Len(calls)
           /\ Depth = Len(calls) /\ Depth \in DOMAIN calls /\ Top = calls[Depth]
           /\ script.depth \in Nat /\ thisObj \in {0} \cup Ids /\ TablesTyped(tables)
           /\ \A i \in DOMAIN calls : calls[i] \in Call /\ calls[i].scope \in DOMAIN tables
<1>1. script.depth \in Nat
  BY ObjectsAssumption DEF TypeOK
<1>2. calls \in Seq(Call) /\ Len(calls) \in 1..script.depth
  BY DEF TypeOK
<1>3. /\ Len(calls) \in Nat \ {0} /\ DOMAIN calls = 1..Len(calls)
      /\ \A i \in DOMAIN calls : calls[i] \in Call
  BY <1>1, <1>2
<1> QED
  BY <1>1, <1>2, <1>3 DEF TypeOK, Depth, Top, TablesTyped

\* A statement without a call.
LEMMA StatementKeeps ==
    ASSUME ObjectsInv, NEW r, IsResult(r), NEW into \in Target,
           Store(r, calls, tables, into, thisObj)
    PROVE  ObjectsInv' /\ OwnStep
<1>1. TypeOK /\ Depth \in DOMAIN calls
  BY CallsTyped DEF ObjectsInv
<1>2. TypeOK'
  BY <1>1, CallsTyped, StoreTyped DEF TypeOK
<1>3. /\ calls' = calls /\ thisObj' = thisObj
      /\ \A i \in DOMAIN calls : calls[i].scope # Top.scope =>
            tables'[calls[i].scope] = tables[calls[i].scope]
  <2>1. Len(calls) \in DOMAIN calls /\ calls[Len(calls)].scope \in DOMAIN tables
    BY <1>1, CallsTyped
  <2>2. Stored(calls, tables, into, thisObj)
    BY <2>1, StoreTables
  <2> QED
    BY <2>2 DEF Stored, Top, Depth
<1>4. CallsAreSound' /\ ScopesApart' /\ ThisIsReceiver'
  BY <1>3 DEF ObjectsInv, CallsAreSound, CallIsSound, ScopesApart, ThisIsReceiver, Top, Depth
<1>5. OwnStep
  <2> SUFFICES ASSUME NEW i \in DOMAIN calls, i < Len(calls),
                      ~(calls[i].kind = "method" /\ calls[i].reused)
               PROVE  tables'[calls[i].scope] = tables[calls[i].scope]
    BY <1>3 DEF OwnStep, KeepsVariables
  <2>1. calls[i].scope # Top.scope
    BY <1>1, CallsTyped DEF ObjectsInv, ScopesApart, Top, Depth
  <2> QED
    BY <1>3, <2>1
<1> QED
  BY <1>2, <1>4, <1>5 DEF ObjectsInv

\* create() changes nothing of the calls but the marks and what they wait for.
LEMMA RenamedCalls ==
    ASSUME TypeOK, NEW scope
    PROVE  /\ Renamed(scope) \in Seq(Call) /\ Len(Renamed(scope)) = Len(calls)
           /\ \A i \in DOMAIN calls :
                 /\ Renamed(scope)[i].kind = calls[i].kind
                 /\ Renamed(scope)[i].scope = calls[i].scope
                 /\ Renamed(scope)[i].self = calls[i].self
                 /\ Renamed(scope)[i].reused = (calls[i].reused \/ calls[i].scope = scope)
<1>1. calls \in Seq(Call) /\ DOMAIN calls = 1..Len(calls) /\ Len(calls) \in Nat
  BY DEF TypeOK
<1>2. ASSUME NEW i \in DOMAIN calls
      PROVE  /\ Renamed(scope)[i] \in Call
             /\ Renamed(scope)[i].kind = calls[i].kind
             /\ Renamed(scope)[i].scope = calls[i].scope
             /\ Renamed(scope)[i].self = calls[i].self
             /\ Renamed(scope)[i].reused = (calls[i].reused \/ calls[i].scope = scope)
  <2> DEFINE into == IF i = 1 THEN calls[i].into
                     ELSE Orphaned(calls[i].into, calls[i - 1], scope)
  <2>1. calls[i] \in Call
    BY <1>1
  <2>2. into \in Target
    BY <2>1 DEF Orphaned, Nowhere, Target, Names, Call
  <2>3. Renamed(scope)[i] =
          [calls[i] EXCEPT !.reused = calls[i].reused \/ calls[i].scope = scope, !.into = into]
    BY DEF Renamed
  <2> HIDE DEF into
  <2> QED
    BY <2>1, <2>2, <2>3 DEF Call
<1>3. DOMAIN Renamed(scope) = 1..Len(calls)
  BY <1>1 DEF Renamed
<1>4. Renamed(scope) = [i \in 1..Len(calls) |-> Renamed(scope)[i]]
  BY <1>1 DEF Renamed
<1>5. Renamed(scope) \in [1..Len(calls) -> Call]
  BY <1>1, <1>2, <1>4
<1> QED
  BY <1>1, <1>2, <1>3, <1>5

\* A call begins.
LEMMA EnterKeeps ==
    ASSUME ObjectsInv, NEW h \in [Ids -> Object], NEW kind \in Functions \cup Methods,
           NEW scope \in ({"call"} \cup Classes) \X Nat, NEW self \in {0} \cup Ids,
           NEW table, DOMAIN table \subseteq Names, \A x \in DOMAIN table : table[x] \in Ids,
           NEW into \in Target, Enter(h, kind, scope, self, table, into),
           kind = "method" => scope[1] \in Classes,
           kind # "method" => scope = CallScope(Depth + 1),
           kind \in Functions => FindsFunctions, kind = "constructor" => self # 0
    PROVE  ObjectsInv' /\ OwnStep
<1> DEFINE call == [kind |-> kind, scope |-> scope, self |-> self,
                    into |-> Orphaned(into, Top, scope), reused |-> FALSE, called |-> FALSE]
           ts   == [s \in DOMAIN tables \cup {scope} |-> IF s = scope THEN table ELSE tables[s]]
           this == IF kind \in Functions THEN thisObj ELSE self
           cs   == Append(Renamed(scope), call)
<1>1. /\ TypeOK /\ calls \in Seq(Call) /\ Depth = Len(calls) /\ Depth \in Nat \ {0}
      /\ DOMAIN calls = 1..Depth /\ Depth \in DOMAIN calls /\ Top = calls[Depth]
      /\ thisObj \in {0} \cup Ids /\ script.depth \in Nat /\ TablesTyped(tables)
      /\ \A i \in DOMAIN calls : calls[i] \in Call /\ calls[i].scope \in DOMAIN tables
  BY CallsTyped DEF ObjectsInv
<1>2. Depth < script.depth /\ Finish(h, cs, ts, this)
  BY DEF Enter
<1>3. call \in Call
  <2>1. Orphaned(into, Top, scope) \in Target
    BY DEF Orphaned, Nowhere, Target, Names
  <2> QED
    BY <2>1 DEF Call, Kinds
<1>4. /\ Renamed(scope) \in Seq(Call) /\ Len(Renamed(scope)) = Depth
      /\ \A i \in DOMAIN calls :
            /\ Renamed(scope)[i].kind = calls[i].kind
            /\ Renamed(scope)[i].scope = calls[i].scope
            /\ Renamed(scope)[i].self = calls[i].self
            /\ Renamed(scope)[i].reused = (calls[i].reused \/ calls[i].scope = scope)
  BY <1>1, RenamedCalls
<1> HIDE DEF call
<1>5. /\ cs \in Seq(Call) /\ Len(cs) = Depth + 1 /\ DOMAIN cs = 1..(Depth + 1)
      /\ cs[Depth + 1] = call /\ \A i \in 1..Depth : cs[i] = Renamed(scope)[i]
  BY <1>1, <1>3, <1>4
<1> HIDE DEF cs
<1>6. call.kind = kind /\ call.scope = scope /\ call.self = self /\ ~call.called
  BY DEF call
<1>7. /\ DOMAIN ts = DOMAIN tables \cup {scope} /\ ts[scope] = table
      /\ \A s \in DOMAIN tables : s # scope => ts[s] = tables[s]
      /\ this \in {0} \cup Ids
      /\ kind \in Functions => this = thisObj
      /\ kind \notin Functions => this = self
  BY <1>1
<1> HIDE DEF ts, this
<1>8. /\ \A i \in 1..Depth : cs[i].scope = calls[i].scope /\ cs[i].kind = calls[i].kind
      /\ \A i \in 1..Depth : cs[i].reused = (calls[i].reused \/ calls[i].scope = scope)
      /\ \A i \in 1..Depth : cs[i].self = calls[i].self
      /\ cs[Depth + 1].scope = scope /\ cs[Depth + 1].kind = kind /\ cs[Depth + 1].self = self
      /\ \A i \in 1..(Depth + 1) : i = Depth + 1 \/ i \in 1..Depth
  <2>1. \A i \in 1..Depth : i \in DOMAIN calls /\ cs[i] = Renamed(scope)[i]
    BY <1>1, <1>5
  <2>2. \A i \in 1..(Depth + 1) : i = Depth + 1 \/ i \in 1..Depth
    BY <1>1
  <2> QED
    BY <1>4, <1>5, <1>6, <2>1, <2>2, Zenon
<1>9. TypeOK'
  <2>1. \A i \in DOMAIN cs : cs[i].scope \in DOMAIN ts
    BY <1>1, <1>5, <1>7, <1>8
  <2>2. TablesTyped(ts)
    BY <1>1, <1>7 DEF TablesTyped
  <2>3. Len(cs) \in 1..script.depth
    BY <1>1, <1>2, <1>5
  <2> QED
    BY <1>1, <1>2, <1>5, <1>7, <2>1, <2>2, <2>3, FinishTyped
<1>10. calls' = cs /\ thisObj' = this
      /\ \A i \in DOMAIN cs : tables'[cs[i].scope] = ts[cs[i].scope]
  BY <1>2, FinishTables DEF Finished
<1>11. CallsAreSound'
  <2>1. ASSUME NEW i \in 1..Depth
        PROVE  /\ cs[i].kind = "file" => i = 1
               /\ cs[i].kind = "method" => cs[i].scope[1] \in Classes
               /\ cs[i].kind # "method" => cs[i].scope = <<"call", i>>
               /\ cs[i].kind = "constructor" => cs[i].self # 0
               /\ i > 1 /\ cs[i].kind \in Functions => cs[i - 1].kind \notin Methods
    <3>1. CallIsSound(i)
      BY <1>1 DEF ObjectsInv, CallsAreSound
    <3>2. i > 1 => cs[i - 1].kind = calls[i - 1].kind
      BY <1>1, <1>8
    <3> QED
      BY <1>8, <3>1, <3>2 DEF CallIsSound, CallScope
  <2>2. /\ cs[Depth + 1].kind # "file"
        /\ cs[Depth + 1].kind = "method" => cs[Depth + 1].scope[1] \in Classes
        /\ cs[Depth + 1].kind # "method" => cs[Depth + 1].scope = <<"call", Depth + 1>>
        /\ cs[Depth + 1].kind = "constructor" => cs[Depth + 1].self # 0
        /\ cs[Depth + 1].kind \in Functions => cs[Depth].kind \notin Methods
    BY <1>1, <1>8 DEF CallScope, FindsFunctions, Functions, Methods
  <2>3. ASSUME NEW i \in 1..(Depth + 1)
        PROVE  /\ cs[i].kind = "file" => i = 1
               /\ cs[i].kind = "method" => cs[i].scope[1] \in Classes
               /\ cs[i].kind # "method" => cs[i].scope = <<"call", i>>
               /\ cs[i].kind = "constructor" => cs[i].self # 0
               /\ i > 1 /\ cs[i].kind \in Functions => cs[i - 1].kind \notin Methods
    <3>1. CASE i \in 1..Depth
      BY <2>1, <3>1
    <3>2. CASE i = Depth + 1
      <4>1. i - 1 = Depth
        BY <1>1, <3>2
      <4> QED
        BY <2>2, <3>2, <4>1
    <3> QED
      BY <1>8, <3>1, <3>2
  <2> QED
    BY <1>5, <1>10, <2>3 DEF CallsAreSound, CallIsSound, CallScope
\* A name that is taken is a method's.
<1>12. ASSUME NEW i \in 1..Depth, calls[i].scope = scope PROVE calls[i].kind = "method"
  <2>1. calls[i].kind # "method" => calls[i].scope = <<"call", i>>
    BY <1>1 DEF ObjectsInv, CallsAreSound, CallIsSound, CallScope
  <2>2. scope = <<"call", Depth + 1>> \/ scope[1] \in Classes
    BY DEF CallScope
  <2> QED
    BY <1>1, <1>12, <2>1, <2>2, ObjectsAssumption
<1>13. ScopesApart'
  <2>1. ASSUME NEW i \in 1..(Depth + 1), NEW j \in 1..(Depth + 1), i < j, cs[i].scope = cs[j].scope
        PROVE  cs[i].kind = "method" /\ cs[i].reused
    <3>1. i \in 1..Depth
      BY <1>1, <2>1
    <3>2. CASE j \in 1..Depth
      <4>1. calls[i].kind = "method" /\ calls[i].reused
        BY <1>1, <1>8, <2>1, <3>1, <3>2 DEF ObjectsInv, ScopesApart
      <4> QED
        BY <1>8, <3>1, <4>1
    <3>3. CASE j = Depth + 1
      <4>1. calls[i].scope = scope
        BY <1>8, <2>1, <3>1, <3>3
      <4> QED
        BY <1>8, <1>12, <3>1, <4>1
    <3> QED
      BY <1>8, <3>2, <3>3
  <2> QED
    BY <1>5, <1>10, <2>1 DEF ScopesApart
<1>14. ThisIsReceiver'
  <2>1. Top' = cs[Depth + 1] /\ thisObj' = this
    BY <1>5, <1>10 DEF Top, Depth
  <2>2. Top' = call
    BY <1>5, <2>1
  <2>3. CASE kind \in Methods
    <3>1. kind \notin Functions
      BY <2>3 DEF Functions, Methods
    <3> QED
      BY <1>6, <1>7, <2>1, <2>2, <2>3, <3>1 DEF ThisIsReceiver
  <2>4. CASE kind \in Functions
    <3>1. kind \notin Methods /\ thisObj = 0
      BY <2>4 DEF ObjectsInv, ThisIsReceiver, FindsFunctions, Functions, Methods
    <3> QED
      BY <1>6, <1>7, <2>1, <2>2, <2>4, <3>1 DEF ThisIsReceiver
  <2> QED
    BY <2>3, <2>4
<1>15. OwnStep
  <2>1. ASSUME NEW i \in 1..Depth, ~(cs[i].kind = "method" /\ cs[i].reused)
        PROVE  cs[i].scope = calls[i].scope /\ tables'[cs[i].scope] = tables[calls[i].scope]
    <3>1. calls[i].scope # scope
      <4> SUFFICES ASSUME calls[i].scope = scope PROVE FALSE
        OBVIOUS
      <4>1. calls[i].kind = "method"
        BY <1>12
      <4> QED
        BY <1>8, <2>1, <4>1
    <3>2. ts[calls[i].scope] = tables[calls[i].scope]
      BY <1>1, <1>7, <3>1
    <3>3. i \in DOMAIN cs
      BY <1>1, <1>5
    <3> QED
      BY <1>8, <1>10, <3>2, <3>3
  <2> QED
    BY <1>1, <1>5, <1>10, <2>1 DEF OwnStep, KeepsVariables
<1> QED
  BY <1>9, <1>11, <1>13, <1>14, <1>15 DEF ObjectsInv

\* The innermost call takes nothing with it but what it waits for.
Rest == [i \in 1..(Depth - 1) |->
            [calls[i] EXCEPT !.called = @ \/ (i = Depth - 1 /\ Top.kind \notin Functions)]]

LEMMA RestCalls ==
    ASSUME TypeOK, Depth > 1
    PROVE  /\ Rest \in Seq(Call) /\ Len(Rest) = Depth - 1 /\ DOMAIN Rest = 1..(Depth - 1)
           /\ \A i \in 1..(Depth - 1) :
                 /\ Rest[i].kind = calls[i].kind /\ Rest[i].scope = calls[i].scope
                 /\ Rest[i].self = calls[i].self /\ Rest[i].reused = calls[i].reused
           /\ Rest[Depth - 1].called = (calls[Depth - 1].called \/ Top.kind \notin Functions)
<1>1. /\ Depth \in Nat \ {0} /\ DOMAIN calls = 1..Depth
      /\ \A i \in DOMAIN calls : calls[i] \in Call
  BY CallsTyped
<1>2. \A i \in 1..(Depth - 1) : calls[i] \in Call
  BY <1>1
<1>3. ASSUME NEW i \in 1..(Depth - 1)
      PROVE  /\ Rest[i] \in Call
             /\ Rest[i].kind = calls[i].kind /\ Rest[i].scope = calls[i].scope
             /\ Rest[i].self = calls[i].self /\ Rest[i].reused = calls[i].reused
             /\ Rest[i].called =
                   (calls[i].called \/ (i = Depth - 1 /\ Top.kind \notin Functions))
  BY <1>2 DEF Rest, Call
<1>4. Rest \in [1..(Depth - 1) -> Call]
  BY <1>3 DEF Rest
<1>5. Depth - 1 \in Nat /\ Depth - 1 \in 1..(Depth - 1)
  BY <1>1
<1> QED
  BY <1>3, <1>4, <1>5

\* What a call returns is an object.
LEMMA ReturnedTyped ==
    ASSUME ObjectsInv, NEW r \in Returned
    PROVE  IsResult(r)
<1>1. TypeOK /\ heap \in [Ids -> Object] /\ Top \in Call /\ Depth \in DOMAIN calls
  BY OwnTyped DEF ObjectsInv, TypeOK
<1>2. CASE Top.kind = "constructor"
  <2>1. Top.self # 0 /\ Top.self \in {0} \cup Ids
    BY <1>1, <1>2 DEF ObjectsInv, CallsAreSound, CallIsSound, Top, Call
  <2>2. r = [value |-> Top.self, heap |-> heap]
    BY <1>2 DEF Returned
  <2> QED
    BY <1>1, <2>1, <2>2 DEF IsResult
<1>3. CASE Top.kind # "constructor"
  <2>1. r \in Results \/ r \in Made(heap, Empty)
    BY <1>3 DEF Returned
  <2> QED
    BY <1>1, <2>1, ResultsTyped, MadeTyped, EmptyTyped
<1> QED
  BY <1>2, <1>3

\* A call ends.
LEMMA ReturnKeeps ==
    ASSUME ObjectsInv, Return
    PROVE  ObjectsInv' /\ OwnStep
<1>1. /\ TypeOK /\ Depth = Len(calls) /\ Depth \in Nat \ {0} /\ Depth > 1
      /\ Depth - 1 \in 1..(Depth - 1) /\ DOMAIN calls = 1..Depth
      /\ Top = calls[Depth] /\ Top \in Call /\ script.depth \in Nat /\ Depth <= script.depth
      /\ thisObj \in {0} \cup Ids /\ heap \in [Ids -> Object] /\ TablesTyped(tables)
      /\ \A i \in DOMAIN calls : calls[i].scope \in DOMAIN tables
  <2>1. Depth > 1
    BY DEF Return
  <2> QED
    BY <2>1, CallsTyped DEF ObjectsInv, TypeOK
<1>2. /\ Rest \in Seq(Call) /\ Len(Rest) = Depth - 1 /\ DOMAIN Rest = 1..(Depth - 1)
      /\ \A i \in 1..(Depth - 1) :
            /\ Rest[i].kind = calls[i].kind /\ Rest[i].scope = calls[i].scope
            /\ Rest[i].self = calls[i].self /\ Rest[i].reused = calls[i].reused
      /\ Rest[Depth - 1].called = (calls[Depth - 1].called \/ Top.kind \notin Functions)
  BY <1>1, RestCalls
<1>3. \/ Finish(heap, Rest, tables, ThisAfter)
      \/ \E r \in Returned : Store(r, Rest, tables, Top.into, ThisAfter)
  BY DEF Return, Rest
<1>4. /\ Top.into \in Target /\ ThisAfter \in {0} \cup Ids
      /\ \A i \in DOMAIN Rest : Rest[i].scope \in DOMAIN tables
      /\ Len(Rest) \in 1..script.depth /\ Len(Rest) \in DOMAIN Rest
  BY <1>1, <1>2 DEF Call, ThisAfter
<1>5. TypeOK'
  <2>1. CASE Finish(heap, Rest, tables, ThisAfter)
    BY <1>1, <1>2, <1>4, <2>1, FinishTyped
  <2>2. ASSUME NEW r \in Returned, Store(r, Rest, tables, Top.into, ThisAfter)
        PROVE  TypeOK'
    <3>1. IsResult(r)
      BY ReturnedTyped
    <3> QED
      BY <1>1, <1>2, <1>4, <2>2, <3>1, StoreTyped
  <2> QED
    BY <1>3, <2>1, <2>2
<1>6. Stored(Rest, tables, Top.into, ThisAfter)
  <2>1. Rest[Len(Rest)].scope \in DOMAIN tables
    BY <1>4
  <2>2. CASE Finish(heap, Rest, tables, ThisAfter)
    BY <1>4, <2>2, FinishTables DEF Finished, Stored
  <2>3. CASE \E r \in Returned : Store(r, Rest, tables, Top.into, ThisAfter)
    BY <1>4, <2>1, <2>3, StoreTables
  <2> QED
    BY <1>3, <2>2, <2>3
<1>7. /\ calls' = Rest /\ thisObj' = ThisAfter
      /\ \A i \in DOMAIN Rest : Rest[i].scope # Rest[Depth - 1].scope =>
            tables'[Rest[i].scope] = tables[Rest[i].scope]
      /\ \A x \in DOMAIN tables[Rest[Depth - 1].scope] :
            \/ tables'[Rest[Depth - 1].scope][x] = tables[Rest[Depth - 1].scope][x]
            \/ Top.into.how = "assign" /\ Top.into.var = x
  BY <1>2, <1>6 DEF Stored
<1>8. CallsAreSound'
  <2>1. ASSUME NEW i \in 1..(Depth - 1)
        PROVE  /\ Rest[i].kind = "file" => i = 1
               /\ Rest[i].kind = "method" => Rest[i].scope[1] \in Classes
               /\ Rest[i].kind # "method" => Rest[i].scope = <<"call", i>>
               /\ Rest[i].kind = "constructor" => Rest[i].self # 0
               /\ i > 1 /\ Rest[i].kind \in Functions => Rest[i - 1].kind \notin Methods
    <3>1. CallIsSound(i)
      BY <1>1 DEF ObjectsInv, CallsAreSound
    <3>2. i > 1 => Rest[i - 1].kind = calls[i - 1].kind
      BY <1>1, <1>2
    <3> QED
      BY <1>2, <3>1, <3>2 DEF CallIsSound, CallScope
  <2> QED
    BY <1>2, <1>7, <2>1 DEF CallsAreSound, CallIsSound, CallScope
<1>9. ScopesApart'
  <2>1. ASSUME NEW i \in 1..(Depth - 1), NEW j \in 1..(Depth - 1), i < j,
               Rest[i].scope = Rest[j].scope
        PROVE  Rest[i].kind = "method" /\ Rest[i].reused
    <3>1. i \in DOMAIN calls /\ j \in DOMAIN calls /\ calls[i].scope = calls[j].scope
      BY <1>1, <1>2, <2>1
    <3>2. calls[i].kind = "method" /\ calls[i].reused
      BY <2>1, <3>1 DEF ObjectsInv, ScopesApart
    <3> QED
      BY <1>2, <3>2
  <2> QED
    BY <1>2, <1>7, <2>1 DEF ScopesApart
<1>10. ThisIsReceiver'
  <2>1. Top' = Rest[Depth - 1] /\ thisObj' = ThisAfter
    BY <1>2, <1>7 DEF Top, Depth
  <2>2. CASE Top.kind \in Functions
    <3>1. calls[Depth - 1].kind \notin Methods
      BY <1>1, <2>2 DEF ObjectsInv, CallsAreSound, CallIsSound
    <3>2. ThisAfter = 0
      BY <2>2 DEF ObjectsInv, ThisIsReceiver, ThisAfter, Functions, Methods
    <3> QED
      BY <1>1, <1>2, <2>1, <3>1, <3>2 DEF ThisIsReceiver
  <2>3. CASE Top.kind \notin Functions
    <3>1. Rest[Depth - 1].called /\ ThisAfter = 0
      BY <1>2, <2>3 DEF ThisAfter
    <3> QED
      BY <2>1, <3>1 DEF ThisIsReceiver
  <2> QED
    BY <2>2, <2>3
<1>11. OwnStep
  <2>1. ASSUME NEW i \in 1..(Depth - 1), ~(Rest[i].kind = "method" /\ Rest[i].reused)
        PROVE  KeepsVariables(i)
    <3>1. Rest[i].scope = calls[i].scope /\ i \in DOMAIN Rest /\ i \in DOMAIN calls
      BY <1>1, <1>2
    <3>2. CASE i < Depth - 1
      <4>1. calls[i].scope # calls[Depth - 1].scope
        <5>1. ~(calls[i].kind = "method" /\ calls[i].reused)
          BY <1>2, <2>1
        <5>2. Depth - 1 \in DOMAIN calls /\ i < Depth - 1
          BY <1>1, <3>2
        <5> QED
          BY <3>1, <5>1, <5>2 DEF ObjectsInv, ScopesApart
      <4>2. tables'[Rest[i].scope] = tables[calls[i].scope]
        BY <1>1, <1>2, <1>7, <3>1, <4>1
      <4> QED
        BY <1>7, <4>2 DEF KeepsVariables
    <3>3. CASE i = Depth - 1
      <4>1. ~(i < Len(calls'))
        BY <1>1, <1>2, <1>7, <3>3
      <4> QED
        BY <1>7, <3>1, <3>3, <4>1 DEF KeepsVariables
    <3> QED
      BY <1>1, <3>2, <3>3
  <2> QED
    BY <1>1, <1>2, <1>7, <2>1 DEF OwnStep
<1> QED
  BY <1>5, <1>8, <1>9, <1>10, <1>11 DEF ObjectsInv
\* Where a statement puts a result is a variable or an object.
LEMMA TargetsTyped ==
    ASSUME TypeOK
    PROVE  Targets \cup {Nowhere} \subseteq Target
  BY OwnTyped DEF Targets, Declarations, Assignments, Puts, Nowhere, Target, Names

\* The table that a call begins with.
LEMMA ParametersTyped ==
    ASSUME NEW v \in Ids, NEW self \in Ids
    PROVE  /\ DOMAIN Parameter(v) \subseteq Names
           /\ \A x \in DOMAIN Parameter(v) : Parameter(v)[x] \in Ids
           /\ DOMAIN WithThis(self, v) \subseteq Names
           /\ \A x \in DOMAIN WithThis(self, v) : WithThis(self, v)[x] \in Ids
  BY DEF Parameter, WithThis, Names

\* Every step keeps the invariant, and what it says of the variables of calls.
LEMMA StepKeeps ==
    ASSUME ObjectsInv, [Next]_vars
    PROVE  ObjectsInv' /\ OwnStep
<1>1. /\ TypeOK /\ heap \in [Ids -> Object] /\ Depth \in Nat /\ Targets \cup {Nowhere} \subseteq Target
      /\ Values(Own) \subseteq Ids
  BY CallsTyped, OwnTyped, TargetsTyped DEF ObjectsInv, TypeOK
<1>2. CASE Assign
  BY <1>1, <1>2, ResultsTyped, StatementKeeps DEF Assign
<1>3. CASE DeclareEmpty
  BY <1>1, <1>3, MadeTyped, EmptyTyped, StatementKeeps DEF DeclareEmpty, Targets
<1>4. CASE NewPlain
  <2>1. PICK c \in script.classes \ Constructed, into \in Targets :
          \E r \in Made(heap, [class |-> c, p |-> 0]) : Store(r, calls, tables, into, thisObj)
    BY <1>4 DEF NewPlain
  <2>2. [class |-> c, p |-> 0] \in Object
    BY <1>1, <2>1, ObjectsAssumption DEF TypeOK, Object
  <2> QED
    BY <1>1, <2>1, <2>2, MadeTyped, StatementKeeps
<1>5. CASE CallStatement
  <2>1. PICK v \in Values(Own) :
          Enter(heap, "statement", CallScope(Depth + 1), 0, Parameter(v), Nowhere)
    BY <1>5 DEF CallStatement
  <2>2. FindsFunctions /\ CallScope(Depth + 1) \in ({"call"} \cup Classes) \X Nat
    BY <1>1, <1>5 DEF CallStatement, CallScope
  <2> QED
    BY <1>1, <2>1, <2>2, ParametersTyped, EnterKeeps DEF Functions
<1>6. CASE CallExpression
  <2>1. PICK v \in Values(Own), into \in Targets : \E r \in Clone(v) :
          Enter(r.heap, "expression", CallScope(Depth + 1), 0, Parameter(r.value), into)
    BY <1>6 DEF CallExpression
  <2>2. PICK r \in Clone(v) :
          Enter(r.heap, "expression", CallScope(Depth + 1), 0, Parameter(r.value), into)
    BY <2>1
  <2>3. r.value \in Ids /\ r.heap \in [Ids -> Object]
    BY <1>1, <2>1, <2>2, CloneTyped DEF IsResult
  <2>4. FindsFunctions /\ CallScope(Depth + 1) \in ({"call"} \cup Classes) \X Nat
    BY <1>1, <1>6 DEF CallExpression, CallScope
  <2>5. into \in Target
    BY <1>1
  <2> QED
    BY <2>2, <2>3, <2>4, <2>5, ParametersTyped, EnterKeeps DEF Functions
<1>7. CASE CloneWithoutEnd
  <2>1. UNCHANGED <<script, heap, calls, tables, thisObj>> /\ overflow' = TRUE
    BY <1>7 DEF CloneWithoutEnd
  <2> QED
    BY <2>1 DEF ObjectsInv, TypeOK, CallsAreSound, CallIsSound, ScopesApart, ThisIsReceiver,
                OwnStep, KeepsVariables, Ids, Object, Call, Target, Top, Depth
<1>8. CASE CallMethod
  <2>1. PICK o \in {a \in Values(Own) : heap[a].class \in Classes}, v \in Values(Own),
             into \in Targets \cup {Nowhere} :
          Enter(heap, "method", MethodScope(heap[o].class), o, WithThis(o, v), into)
    BY <1>8 DEF CallMethod
  <2>2. /\ MethodScope(heap[o].class) \in ({"call"} \cup Classes) \X Nat
        /\ MethodScope(heap[o].class)[1] \in Classes
    BY <2>1 DEF MethodScope
  <2> QED
    BY <1>1, <2>1, <2>2, ParametersTyped, EnterKeeps DEF Methods, Functions
<1>9. CASE New
  <2>5. PICK c \in script.classes \cap Constructed, v \in Values(Own), into \in Targets :
          \E r \in Made(heap, [class |-> c, p |-> 0]) : Enter(r.heap, "constructor",
              CallScope(Depth + 1), r.value, WithThis(r.value, v), into)
    BY <1>9 DEF New
  <2>1. PICK r \in Made(heap, [class |-> c, p |-> 0]) : Enter(r.heap, "constructor",
              CallScope(Depth + 1), r.value, WithThis(r.value, v), into)
    BY <2>5
  <2>2. [class |-> c, p |-> 0] \in Object
    BY <1>1, <2>5, ObjectsAssumption DEF TypeOK, Object
  <2>3. r.value \in Ids /\ r.heap \in [Ids -> Object] /\ r.value # 0
    BY <1>1, <2>1, <2>2, MadeTyped DEF IsResult, Ids
  <2>4. CallScope(Depth + 1) \in ({"call"} \cup Classes) \X Nat
    BY <1>1 DEF CallScope
  <2> QED
    BY <1>1, <2>5, <2>1, <2>3, <2>4, ParametersTyped, EnterKeeps DEF Methods, Functions
<1>10. CASE Return
  BY <1>10, ReturnKeeps
<1>11. CASE UNCHANGED vars
  BY <1>11 DEF ObjectsInv, TypeOK, CallsAreSound, CallIsSound, ScopesApart, ThisIsReceiver,
               OwnStep, KeepsVariables, Ids, Object, Call, Target, Top, Depth, vars
<1> QED
  BY <1>2, <1>3, <1>4, <1>5, <1>6, <1>7, <1>8, <1>9, <1>10, <1>11 DEF Next, Step

\* The file runs alone.
LEMMA InitSound == Init => ObjectsInv
<1> SUFFICES ASSUME Init PROVE ObjectsInv
  OBVIOUS
<1> DEFINE file == [kind |-> "file", scope |-> <<"call", 1>>, self |-> 0, into |-> Nowhere,
                    reused |-> FALSE, called |-> FALSE]
<1>1. script \in Scripts /\ script.depth \in Nat \ {0} /\ calls = <<file>>
  BY ObjectsAssumption DEF Init
<1>2. file \in Call
  BY DEF Call, Kinds, Nowhere, Target, Names
<1> HIDE DEF file
<1>3. calls \in Seq(Call) /\ Len(calls) = 1 /\ DOMAIN calls = {1} /\ calls[1] = file
  BY <1>1, <1>2
<1>4. file.scope = <<"call", 1>> /\ file.kind = "file"
  BY DEF file
<1>5. TypeOK
  <2>1. heap \in [Ids -> Object] /\ thisObj = 0 /\ overflow = FALSE
    BY EmptyTyped DEF Init
  <2>2. DOMAIN tables = {<<"call", 1>>} /\ tables[<<"call", 1>>] = <<>>
    BY DEF Init
  <2>3. DOMAIN tables = {calls[i].scope : i \in DOMAIN calls}
    BY <1>3, <1>4, <2>2
  <2>4. \A x \in DOMAIN <<>> : x \in {}
    OBVIOUS
  <2>5. Len(calls) \in 1..script.depth
    BY <1>1, <1>3
  <2>6. \A s \in DOMAIN tables : tables[s] = <<>>
    BY <2>2
  <2> QED
    BY <1>1, <1>3, <2>1, <2>3, <2>4, <2>5, <2>6 DEF TypeOK
<1>6. CallsAreSound
  BY <1>3, <1>4 DEF CallsAreSound, CallIsSound, CallScope
<1>7. ScopesApart
  BY <1>3 DEF ScopesApart
<1>8. ThisIsReceiver
  BY <1>3, <1>4 DEF ThisIsReceiver, Init, Top, Depth, Methods
<1> QED
  BY <1>5, <1>6, <1>7, <1>8 DEF ObjectsInv

LEMMA ObjectsSound == Spec => []ObjectsInv
<1>1. ObjectsInv /\ [Next]_vars => ObjectsInv'
  BY StepKeeps
<1> QED
  BY InitSound, <1>1, PTL DEF Spec

-----------------------------------------------------------------------------
(* Variables, properties and waiting assignments hold objects that exist,  *)
(* and every running call has its table.                                   *)
THEOREM ObjectsTyped == Spec => []TypeOK
<1>1. ObjectsInv => TypeOK
  BY DEF ObjectsInv
<1> QED
  BY ObjectsSound, <1>1, PTL

(* Private members are open to a method or a constructor on its own        *)
(* object, until it has called another, and to nothing else: neither to    *)
(* the functions it would call nor to those that called it.                *)
THEOREM PrivateToReceiver == Spec => []ThisIsReceiver
<1>1. ObjectsInv => ThisIsReceiver
  BY DEF ObjectsInv
<1> QED
  BY ObjectsSound, <1>1, PTL

(* No call changes the variables of another that has not been entered a    *)
(* second time, whatever it is passed and returns.                         *)
THEOREM CallsOwnVariables == Spec => VariablesAreOwn
<1>1. ObjectsInv /\ [Next]_vars =>
        [\A i \in DOMAIN calls \cap DOMAIN calls' :
            ~(calls'[i].kind = "method" /\ calls'[i].reused) => KeepsVariables(i)]_vars
  BY StepKeeps DEF OwnStep
<1> QED
  BY ObjectsSound, <1>1, PTL DEF Spec, VariablesAreOwn
-----------------------------------------------------------------------------
(* The heap, divided                                                       *)

\* Objects that lead to no others, and none of them is free.
Kept(h, S) == \A a \in S : h[a] # Free /\ h[a].p \in S \cup {0}

\* What the calls from the i-th on have, and what those before it have: the
\* object that a call stores its result in is its caller's.
RootsOf(cs, ts, j) == Values(ts[cs[j].scope]) \cup {cs[j].self}

Inside(cs, ts, i)  == (UNION {RootsOf(cs, ts, j) : j \in i..Len(cs)})
                      \cup {cs[j].into.of : j \in (i + 1)..Len(cs)}
Outside(cs, ts, i) == (UNION {RootsOf(cs, ts, j) : j \in 1..(i - 1)})
                      \cup {cs[j].into.of : j \in 1..i}

\* Two halves of a heap with nothing between them.
Halves(h, S, T, cs, ts, i) ==
    /\ S \subseteq Ids /\ T \subseteq Ids /\ S \cap T = {} /\ Kept(h, S) /\ Kept(h, T)
    /\ Inside(cs, ts, i) \subseteq S \cup {0} /\ Outside(cs, ts, i) \subseteq T \cup {0}

Divided(i) == \E S, T \in SUBSET Ids : Halves(heap, S, T, calls, tables, i)

\* A function is called by functions and the file, all the way out.
FunctionsBelow ==
    \A i \in DOMAIN calls : calls[i].kind \in Functions =>
        \A j \in 1..(i - 1) : calls[j].kind \notin Methods

\* The first call, the file, divides what exists from nothing.
Divides(i) == i = 1 \/ calls[i].kind = "expression"

CopiesInv ==
    /\ ObjectsInv /\ FunctionsBelow
    /\ \A i \in DOMAIN calls : Divides(i) => Divided(i)

\* The objects in a set, what they lead to, and nothing that a closed set with
\* them has not.
LEMMA ReachLeast ==
    ASSUME NEW h \in [Ids -> Object], NEW R, R \subseteq Ids \cup {0}
    PROVE  /\ R \subseteq Reach(h, R) \cup {0} /\ Reach(h, R) \subseteq Ids
           /\ \A a \in Reach(h, R) : h[a].p \in Reach(h, R) \cup {0}
           /\ \A S \in SUBSET Ids :
                 R \subseteq S \cup {0} /\ (\A a \in S : h[a].p \in S \cup {0}) =>
                     Reach(h, R) \subseteq S
<1> DEFINE closed == {S \in SUBSET Ids : R \ {0} \subseteq S /\ \A a \in S : h[a].p \in S \cup {0}}
<1>1. Reach(h, R) = {a \in Ids : \A S \in closed : a \in S}
  BY DEF Reach
<1>2. ASSUME NEW a \in Reach(h, R), h[a].p # 0 PROVE h[a].p \in Reach(h, R)
  <2>1. h[a].p \in Ids /\ \A S \in closed : a \in S
    BY <1>1, <1>2 DEF Object
  <2>2. \A S \in closed : h[a].p \in S
    BY <1>2, <2>1
  <2> QED
    BY <1>1, <2>1, <2>2
<1>3. \A S \in closed : Reach(h, R) \subseteq S
  BY <1>1
<1>4. ASSUME NEW a \in R, a # 0 PROVE a \in Reach(h, R)
  BY <1>1, <1>4
<1>5. ASSUME NEW S \in SUBSET Ids, R \subseteq S \cup {0}, \A a \in S : h[a].p \in S \cup {0}
      PROVE  Reach(h, R) \subseteq S
  <2>1. S \in closed
    BY <1>5
  <2> QED
    BY <1>3, <2>1
<1> QED
  BY <1>1, <1>2, <1>4, <1>5

\* The end of a statement takes no object from either half that is in use.
LEMMA FinishDivides ==
    ASSUME NEW h \in [Ids -> Object], NEW cs, NEW ts, NEW this, Finish(h, cs, ts, this),
           NEW S, NEW T, NEW i \in DOMAIN cs, Halves(h, S, T, cs, ts, i),
           DOMAIN cs = 1..Len(cs), Len(cs) \in Nat
    PROVE  Divided(i)'
<1> DEFINE live  == Restricted(ts, {cs[j].scope : j \in DOMAIN cs})
           roots == (UNION {Values(live[s]) : s \in DOMAIN live})
                    \cup {cs[j].self : j \in DOMAIN cs} \cup {cs[j].into.of : j \in DOMAIN cs}
           alive == Reach(h, roots)
<1>1. /\ calls' = cs /\ tables' = live /\ script' = script
      /\ heap' = [a \in Ids |-> IF a \in alive THEN h[a] ELSE Free]
  BY DEF Finish
<1>2. \A j \in DOMAIN cs : cs[j].scope \in DOMAIN live /\ live[cs[j].scope] = ts[cs[j].scope]
  BY DEF Restricted
<1>3. \A s \in DOMAIN live : \E j \in DOMAIN cs : s = cs[j].scope
  BY DEF Restricted
<1>4. /\ Inside(cs, live, i) = Inside(cs, ts, i) /\ Outside(cs, live, i) = Outside(cs, ts, i)
  <2>1. \A j \in DOMAIN cs : RootsOf(cs, live, j) = RootsOf(cs, ts, j)
    BY <1>2 DEF RootsOf
  <2>2. i..Len(cs) \subseteq DOMAIN cs /\ 1..(i - 1) \subseteq DOMAIN cs
    OBVIOUS
  <2> HIDE DEF live
  <2>3. UNION {RootsOf(cs, live, j) : j \in i..Len(cs)} = UNION {RootsOf(cs, ts, j) : j \in i..Len(cs)}
    BY <2>1, <2>2
  <2>4. UNION {RootsOf(cs, live, j) : j \in 1..(i - 1)} = UNION {RootsOf(cs, ts, j) : j \in 1..(i - 1)}
    BY <2>1, <2>2
  <2> QED
    BY <2>3, <2>4 DEF Inside, Outside
<1> HIDE DEF live
<1>5. \A j \in DOMAIN cs : RootsOf(cs, live, j) \subseteq roots /\ cs[j].into.of \in roots
  BY <1>2 DEF RootsOf
<1>6. roots \subseteq Inside(cs, live, i) \cup Outside(cs, live, i)
  <2>1. ASSUME NEW j \in DOMAIN cs
        PROVE  /\ RootsOf(cs, live, j) \subseteq Inside(cs, live, i) \cup Outside(cs, live, i)
               /\ cs[j].into.of \in Inside(cs, live, i) \cup Outside(cs, live, i)
    <3>1. (j \in i..Len(cs) \/ j \in 1..(i - 1)) /\ (j \in (i + 1)..Len(cs) \/ j \in 1..i)
      OBVIOUS
    <3> QED
      BY <3>1 DEF Inside, Outside
  <2>2. ASSUME NEW s \in DOMAIN live
        PROVE  Values(live[s]) \subseteq Inside(cs, live, i) \cup Outside(cs, live, i)
    <3>1. PICK j \in DOMAIN cs : s = cs[j].scope
      BY <1>3
    <3>2. Values(live[s]) \subseteq RootsOf(cs, live, j)
      BY <3>1 DEF RootsOf
    <3> QED
      BY <2>1, <3>2
  <2>3. \A j \in DOMAIN cs : cs[j].self \in RootsOf(cs, live, j)
    BY DEF RootsOf
  <2> QED
    BY <2>1, <2>2, <2>3
<1>7. roots \subseteq Ids \cup {0}
  BY <1>4, <1>6 DEF Halves
<1> HIDE DEF roots
<1>8. /\ roots \subseteq alive \cup {0} /\ alive \subseteq Ids
      /\ \A a \in alive : h[a].p \in alive \cup {0}
  BY <1>7, ReachLeast
<1> HIDE DEF alive
<1>9. Inside(cs, live, i) \subseteq roots /\ Outside(cs, live, i) \subseteq roots
  <2>1. /\ i..Len(cs) \subseteq DOMAIN cs /\ 1..(i - 1) \subseteq DOMAIN cs
        /\ (i + 1)..Len(cs) \subseteq DOMAIN cs /\ 1..i \subseteq DOMAIN cs
    OBVIOUS
  <2> QED
    BY <1>5, <2>1 DEF Inside, Outside
<1>10. Ids' = Ids
  BY <1>1 DEF Ids
<1>11. ASSUME NEW U, U \subseteq Ids, Kept(h, U) PROVE Kept(heap', U \cap alive)
  BY <1>1, <1>8, <1>11 DEF Kept
<1>12. Halves(heap', S \cap alive, T \cap alive, cs, live, i)
  BY <1>4, <1>8, <1>9, <1>11 DEF Halves
<1>13. Divided(i)' = \E S2, T2 \in SUBSET Ids : Halves(heap', S2, T2, cs, live, i)
  BY <1>1, <1>10 DEF Divided, Halves, Kept, Inside, Outside, RootsOf
<1> QED
  BY <1>12, <1>13 DEF Halves

\* A result for the half S: it is in S, or new, and of S made larger by what is
\* new; the other half stays what it is.
Serves(r, S, T) ==
    \E S2 \in SUBSET Ids : /\ S \subseteq S2 /\ S2 \cap T = {} /\ r.value \in S2
                           /\ Kept(r.heap, S2) /\ Kept(r.heap, T)

LEMMA MadeServes ==
    ASSUME NEW h \in [Ids -> Object], NEW class \in Classes \cup {"none"}, NEW S, NEW T,
           S \subseteq Ids, T \subseteq Ids, S \cap T = {}, Kept(h, S), Kept(h, T),
           NEW r \in Made(h, [class |-> class, p |-> 0])
    PROVE  Serves(r, S, T)
<1> DEFINE new == [class |-> class, p |-> 0]
<1>1. PICK a \in FreeIds(h) : r = [value |-> a, heap |-> [h EXCEPT ![a] = new]]
  BY DEF Made
<1>2. a \in Ids /\ h[a] = Free /\ a \notin S /\ a \notin T
  BY <1>1 DEF FreeIds, Kept
<1>3. new # Free /\ new.p = 0
  BY ObjectsAssumption DEF Free
<1>4. r.value = a /\ r.heap = [h EXCEPT ![a] = new]
  BY <1>1
<1> HIDE DEF new
<1>5. r.heap[a] = new /\ \A b \in Ids \ {a} : r.heap[b] = h[b]
  BY <1>2, <1>4
<1>6. Kept(r.heap, S \cup {a}) /\ Kept(r.heap, T)
  BY <1>2, <1>3, <1>5 DEF Kept
<1> QED
  BY <1>2, <1>4, <1>6 DEF Serves

\* An expression without a call, of a call inside.
LEMMA ResultsServe ==
    ASSUME TypeOK, NEW S, NEW T,
           S \subseteq Ids, T \subseteq Ids, S \cap T = {}, Kept(heap, S), Kept(heap, T),
           Values(Own) \subseteq S, NEW r \in Results
    PROVE  Serves(r, S, T)
<1>1. heap \in [Ids -> Object]
  BY DEF TypeOK
<1>2. CASE \E v \in Values(Own) : r = [value |-> v, heap |-> heap]
  BY <1>2 DEF Serves
<1>3. CASE \E o \in Values(Own) : heap[o].p # 0 /\ r = [value |-> heap[o].p, heap |-> heap]
  BY <1>3 DEF Serves, Kept
<1>4. CASE \E o \in Values(Own), q \in Made(heap, Empty) : r = [q EXCEPT !.heap[o].p = q.value]
  <2>1. PICK o \in Values(Own), q \in Made(heap, Empty) : r = [q EXCEPT !.heap[o].p = q.value]
    BY <1>4
  <2>2. IsResult(q) /\ q = [value |-> q.value, heap |-> q.heap] /\ Serves(q, S, T)
    BY <1>1, <2>1, MadeTyped, MadeServes, EmptyTyped DEF Made, Empty
  <2>3. r = [value |-> q.value, heap |-> [q.heap EXCEPT ![o].p = q.value]]
    BY <2>1, <2>2
  <2>4. PICK S2 \in SUBSET Ids : /\ S \subseteq S2 /\ S2 \cap T = {} /\ q.value \in S2
                                 /\ Kept(q.heap, S2) /\ Kept(q.heap, T)
    BY <2>2 DEF Serves
  <2>5. o \in S2 /\ o \notin T /\ q.heap \in [Ids -> Object] /\ q.value \in Ids
    BY <2>1, <2>2, <2>4 DEF IsResult
  <2>6. /\ r.value = q.value /\ r.heap[o].p = q.value
        /\ \A b \in Ids \ {o} : r.heap[b] = q.heap[b]
    BY <2>3, <2>5 DEF Object
  <2>7. r.heap[o] # Free
    BY <2>5, <2>6 DEF Free, Ids
  <2>8. Kept(r.heap, S2) /\ Kept(r.heap, T)
    BY <2>4, <2>5, <2>6, <2>7 DEF Kept
  <2> QED
    BY <2>4, <2>6, <2>8 DEF Serves
<1> QED
  BY <1>2, <1>3, <1>4 DEF Results

\* A clone is made of what was free, and leads to nothing else.
LEMMA CloneServes ==
    ASSUME TypeOK, NEW v \in Ids, NEW r \in Clone(v), NEW U, U \subseteq Ids, Kept(heap, U), v \in U
    PROVE  \E new \in SUBSET Ids :
              /\ r.value \in new /\ Kept(r.heap, new)
              /\ \A S \in SUBSET Ids : Kept(heap, S) => Kept(r.heap, S) /\ S \cap new = {}
<1> DEFINE old   == Reach(heap, {v})
           place == CHOOSE f \in Places(old) : TRUE
           new   == {place[a] : a \in old}
           Copy(a) == [class |-> heap[a].class,
                       p |-> IF heap[a].p = 0 THEN 0 ELSE place[heap[a].p]]
<1>1. heap \in [Ids -> Object]
  BY DEF TypeOK
<1>2. /\ v \in old /\ old \subseteq U /\ old \subseteq Ids
      /\ \A a \in old : heap[a].p \in old \cup {0}
  <2>1. 0 \notin Ids
    BY DEF Ids
  <2> QED
    BY <1>1, <2>1, ReachLeast DEF Kept
<1>3. Places(old) # {} /\ r = [value |-> place[v], heap |-> Copied(old, place)]
  BY Zenon DEF Clone
<1>4. place \in Places(old)
  BY <1>3
<1>5. place \in [old -> FreeIds(heap)] /\ \A a, b \in old : place[a] = place[b] => a = b
  BY <1>4 DEF Places
<1> HIDE DEF old, place
<1>6. new \subseteq FreeIds(heap) /\ new \subseteq Ids /\ place[v] \in new
  BY <1>2, <1>5 DEF FreeIds
<1>7. r.heap = [b \in Ids |-> IF b \in new THEN Copy(CHOOSE a \in old : place[a] = b) ELSE heap[b]]
  BY <1>3 DEF Copied
<1>8. ASSUME NEW b \in new PROVE \E a \in old : r.heap[b] = Copy(a)
  <2>1. (CHOOSE a \in old : place[a] = b) \in old
    OBVIOUS
  <2> HIDE DEF Copy
  <2>2. r.heap[b] = Copy(CHOOSE a \in old : place[a] = b)
    BY <1>6, <1>7
  <2> QED
    BY <2>1, <2>2
<1>9. ASSUME NEW a \in old PROVE Copy(a) # Free /\ Copy(a).p \in new \cup {0}
  <2>1. heap[a] # Free /\ heap[a] \in Object /\ heap[a].p \in old \cup {0}
    BY <1>1, <1>2 DEF Kept
  <2>2. Copy(a).p \in new \cup {0}
    BY <2>1
  <2>3. Copy(a) = Free => heap[a].class = "free" /\ (heap[a].p = 0 \/ Copy(a).p \in new)
    BY <2>1 DEF Free
  <2>4. 0 \notin new
    BY <1>6 DEF Ids
  <2>5. Copy(a) = Free => heap[a] = Free
    BY <2>1, <2>3, <2>4 DEF Free, Object
  <2> QED
    BY <2>1, <2>2, <2>5
<1>10. Kept(r.heap, new)
  <2>1. ASSUME NEW b \in new PROVE r.heap[b] # Free /\ r.heap[b].p \in new \cup {0}
    <3>1. PICK a \in old : r.heap[b] = Copy(a)
      BY <1>8
    <3> HIDE DEF Copy, new
    <3> QED
      BY <1>9, <3>1
  <2> QED
    BY <2>1 DEF Kept
<1>11. ASSUME NEW S \in SUBSET Ids, Kept(heap, S) PROVE Kept(r.heap, S) /\ S \cap new = {}
  <2>1. S \cap new = {}
    BY <1>6, <1>11 DEF Kept, FreeIds
  <2>2. \A a \in S : r.heap[a] = heap[a]
    BY <1>7, <2>1
  <2> QED
    BY <1>11, <2>1, <2>2 DEF Kept
<1> QED
  BY <1>3, <1>6, <1>10, <1>11

\* A result for every half that has the variables of the running call.
ServesOwn(r) ==
    \A S, T \in SUBSET Ids :
        S \cap T = {} /\ Kept(heap, S) /\ Kept(heap, T) /\ Values(Own) \subseteq S => Serves(r, S, T)

LEMMA OwnServed ==
    ASSUME TypeOK
    PROVE  /\ \A r \in Results : ServesOwn(r)
           /\ \A class \in Classes \cup {"none"} :
                 \A r \in Made(heap, [class |-> class, p |-> 0]) : ServesOwn(r)
           /\ \A v \in Values(Own) : ServesOwn([value |-> v, heap |-> heap])
<1>1. heap \in [Ids -> Object]
  BY DEF TypeOK
<1>2. ASSUME NEW r \in Results PROVE ServesOwn(r)
  BY ResultsServe DEF ServesOwn
<1>3. ASSUME NEW class \in Classes \cup {"none"}, NEW r \in Made(heap, [class |-> class, p |-> 0])
      PROVE  ServesOwn(r)
  BY <1>1, MadeServes DEF ServesOwn
<1>4. ASSUME NEW v \in Values(Own) PROVE ServesOwn([value |-> v, heap |-> heap])
  BY DEF ServesOwn, Serves
<1> QED
  BY <1>2, <1>3, <1>4

-----------------------------------------------------------------------------
(* The steps keep the halves apart                                         *)

\* A statement of a call inside stores a result inside.
LEMMA StoreDivides ==
    ASSUME NEW r, IsResult(r), NEW cs, Len(cs) \in Nat, DOMAIN cs = 1..Len(cs), NEW ts,
           \A j \in DOMAIN cs : cs[j].scope \in DOMAIN ts,
           NEW into, NEW this, Store(r, cs, ts, into, this),
           NEW S, NEW T, NEW i \in DOMAIN cs, Halves(r.heap, S, T, cs, ts, i),
           r.value \in S, into.of \in S \cup {0},
           \A j \in 1..(i - 1) : cs[j].scope # cs[Len(cs)].scope
    PROVE  Divided(i)'
<1> DEFINE s == cs[Len(cs)].scope
<1>1. /\ r.heap \in [Ids -> Object] /\ r.value \in Ids /\ Len(cs) \in DOMAIN cs /\ s \in DOMAIN ts
      /\ S \subseteq Ids /\ T \subseteq Ids /\ S \cap T = {} /\ Kept(r.heap, S) /\ Kept(r.heap, T)
  BY DEF IsResult, Halves
<1>2. CASE into.how = "drop" /\ Finish(r.heap, cs, ts, this)
  BY <1>1, <1>2, FinishDivides
<1>3. ASSUME NEW table, Finish(r.heap, cs, [ts EXCEPT ![s] = table], this),
             Values(table) \subseteq Values(ts[s]) \cup {r.value}
      PROVE  Divided(i)'
  <2> DEFINE ts2 == [ts EXCEPT ![s] = table]
  <2>1. ASSUME NEW j \in DOMAIN cs
        PROVE  RootsOf(cs, ts2, j) \subseteq RootsOf(cs, ts, j) \cup {r.value}
    <3>1. cs[j].scope \in DOMAIN ts
      OBVIOUS
    <3>2. CASE cs[j].scope = s
      <4>1. ts2[cs[j].scope] = table
        BY <1>1, <3>2
      <4> QED
        BY <1>3, <3>2, <4>1 DEF RootsOf
    <3>3. CASE cs[j].scope # s
      BY <3>1, <3>3 DEF RootsOf
    <3> QED
      BY <3>2, <3>3
  <2>2. ASSUME NEW j \in 1..(i - 1) PROVE RootsOf(cs, ts2, j) = RootsOf(cs, ts, j)
    <3>1. j \in DOMAIN cs /\ cs[j].scope # s
      OBVIOUS
    <3>2. ts2[cs[j].scope] = ts[cs[j].scope]
      BY <3>1
    <3> QED
      BY <3>2 DEF RootsOf
  <2> HIDE DEF ts2
  <2>3. Inside(cs, ts2, i) \subseteq Inside(cs, ts, i) \cup {r.value}
    <3>1. i..Len(cs) \subseteq DOMAIN cs
      OBVIOUS
    <3> QED
      BY <2>1, <3>1 DEF Inside
  <2>4. Outside(cs, ts2, i) = Outside(cs, ts, i)
    <3>1. (UNION {RootsOf(cs, ts2, j) : j \in 1..(i - 1)}) = UNION {RootsOf(cs, ts, j) : j \in 1..(i - 1)}
      BY <2>2
    <3> QED
      BY <3>1 DEF Outside
  <2>5. Halves(r.heap, S, T, cs, ts2, i)
    BY <2>3, <2>4 DEF Halves
  <2> QED
    BY <1>1, <1>3, <2>5, FinishDivides DEF ts2
<1>4. CASE into.how = "declare" /\ Finish(r.heap, cs, [ts EXCEPT ![s] =
             [y \in DOMAIN @ \cup {into.var} |-> IF y = into.var THEN r.value ELSE @[y]]], this)
  <2> DEFINE table == [y \in DOMAIN ts[s] \cup {into.var} |-> IF y = into.var THEN r.value ELSE ts[s][y]]
  <2>1. Values(table) \subseteq Values(ts[s]) \cup {r.value}
    BY DEF Values
  <2>2. Finish(r.heap, cs, [ts EXCEPT ![s] = table], this)
    BY <1>1, <1>4
  <2> QED
    BY <1>3, <2>1, <2>2
<1>5. CASE into.how = "assign" /\ Finish(r.heap, cs, [ts EXCEPT ![s][into.var] = r.value], this)
  <2> DEFINE table == [ts[s] EXCEPT ![into.var] = r.value]
  <2>1. Values(table) \subseteq Values(ts[s]) \cup {r.value}
    BY DEF Values
  <2>2. Finish(r.heap, cs, [ts EXCEPT ![s] = table], this)
    BY <1>1, <1>5
  <2> QED
    BY <1>3, <2>1, <2>2
<1>6. CASE into.how = "put" /\ Finish([r.heap EXCEPT ![into.of].p = r.value], cs, ts, this)
  <2> DEFINE h2 == [r.heap EXCEPT ![into.of].p = r.value]
  <2>1. h2 \in [Ids -> Object]
    <3>1. \A o \in Object : [o EXCEPT !.p = r.value] \in Object
      BY <1>1 DEF Object
    <3> QED
      BY <1>1, <3>1
  <2>2. \A a \in Ids : a # into.of => h2[a] = r.heap[a]
    BY <1>1
  <2>3. into.of \in Ids => h2[into.of].p = r.value
    BY <1>1 DEF Object
  <2>4. r.value # Free.p
    BY <1>1 DEF Free, Ids
  <2> HIDE DEF h2
  <2>5. Kept(h2, S)
    <3>1. ASSUME NEW a \in S PROVE h2[a] # Free /\ h2[a].p \in S \cup {0}
      <4>1. CASE a = into.of
        BY <1>1, <2>3, <2>4, <4>1
      <4>2. CASE a # into.of
        BY <1>1, <2>2, <4>2 DEF Kept
      <4> QED
        BY <4>1, <4>2
    <3> QED
      BY <3>1 DEF Kept
  <2>6. Kept(h2, T)
    <3>1. 0 \notin T
      BY <1>1 DEF Ids
    <3> QED
      BY <1>1, <2>2, <3>1 DEF Kept
  <2>7. Halves(h2, S, T, cs, ts, i)
    BY <2>5, <2>6 DEF Halves
  <2> QED
    BY <1>6, <2>1, <2>7, FinishDivides DEF h2
<1> QED
  BY <1>2, <1>4, <1>5, <1>6 DEF Store

\* What is in a half stays there when the half grows.
LEMMA HalvesGrow ==
    ASSUME NEW S, NEW T, NEW S2 \in SUBSET Ids, NEW i, NEW cs, NEW ts,
           Halves(heap, S, T, cs, ts, i), NEW h,
           S \subseteq S2, S2 \cap T = {}, Kept(h, S2), Kept(h, T)
    PROVE  Halves(h, S2, T, cs, ts, i)
  BY DEF Halves

\* The calls outside have names of their own, which no call inside has.
LEMMA NamesOutside ==
    ASSUME ObjectsInv, FunctionsBelow, NEW i \in DOMAIN calls, Divides(i)
    PROVE  /\ \A j \in 1..(i - 1) : calls[j].scope = <<"call", j>>
           /\ \A j \in 1..(i - 1), k \in i..Len(calls) : calls[j].scope # calls[k].scope
<1>1. DOMAIN calls = 1..Len(calls) /\ Len(calls) \in Nat
  BY CallsTyped DEF ObjectsInv
<1>2. ASSUME NEW j \in 1..(i - 1) PROVE calls[j].kind # "method"
  BY <1>1, <1>2 DEF Divides, FunctionsBelow, Functions, Methods
<1>3. \A k \in DOMAIN calls : CallIsSound(k)
  BY DEF ObjectsInv, CallsAreSound
<1>4. \A j \in 1..(i - 1) : j \in DOMAIN calls
  BY <1>1
<1>5. \A j \in 1..(i - 1) : calls[j].scope = <<"call", j>>
  BY <1>2, <1>3, <1>4 DEF CallIsSound, CallScope
<1>6. ASSUME NEW j \in 1..(i - 1), NEW k \in i..Len(calls) PROVE calls[j].scope # calls[k].scope
  <2>1. k \in DOMAIN calls /\ CallIsSound(k) /\ j # k
    BY <1>1, <1>3
  <2>2. calls[k].kind = "method" => calls[k].scope[1] \in Classes
    BY <2>1 DEF CallIsSound
  <2>3. calls[k].kind # "method" => calls[k].scope = <<"call", k>>
    BY <2>1 DEF CallIsSound, CallScope
  <2> QED
    BY <1>5, <2>1, <2>2, <2>3, ObjectsAssumption
<1> QED
  BY <1>5, <1>6

\* The innermost call is inside.
LEMMA TopInside ==
    ASSUME ObjectsInv, NEW i \in DOMAIN calls, NEW S, NEW T, Halves(heap, S, T, calls, tables, i)
    PROVE  /\ Values(Own) \subseteq S /\ Top.self \in S \cup {0}
           /\ i < Depth => Top.into.of \in S \cup {0}
<1>1. Depth \in i..Len(calls) /\ Depth = Len(calls) /\ (i < Depth => Depth \in (i + 1)..Len(calls))
  BY CallsTyped DEF ObjectsInv
<1>2. RootsOf(calls, tables, Depth) \subseteq S \cup {0} /\ (i < Depth => Top.into.of \in S \cup {0})
  BY <1>1 DEF Halves, Inside, Top
<1>3. 0 \notin Values(Own)
  BY OwnTyped DEF ObjectsInv, Ids
<1> QED
  BY <1>2, <1>3 DEF RootsOf, Own, Top

\* What a statement without a call leaves divided.
LEMMA StatementDivides ==
    ASSUME CopiesInv, NEW r, IsResult(r), NEW into, into.of \in Values(Own) \cup {0},
           Store(r, calls, tables, into, thisObj),
           ServesOwn(r),
           NEW i \in DOMAIN calls, Divides(i)
    PROVE  Divided(i)'
<1>1. /\ ObjectsInv /\ FunctionsBelow /\ Divided(i) /\ Len(calls) \in Nat
      /\ DOMAIN calls = 1..Len(calls) /\ \A j \in DOMAIN calls : calls[j].scope \in DOMAIN tables
      /\ Len(calls) \in i..Len(calls)
  BY CallsTyped DEF CopiesInv, ObjectsInv
<1>2. PICK S, T \in SUBSET Ids : Halves(heap, S, T, calls, tables, i)
  BY <1>1 DEF Divided
<1>3. Values(Own) \subseteq S
  BY <1>1, <1>2, TopInside
<1>4. Serves(r, S, T)
  BY <1>2, <1>3 DEF Halves, ServesOwn
<1>5. PICK S2 \in SUBSET Ids : /\ S \subseteq S2 /\ S2 \cap T = {} /\ r.value \in S2
                               /\ Kept(r.heap, S2) /\ Kept(r.heap, T)
  BY <1>4 DEF Serves
<1>6. Halves(r.heap, S2, T, calls, tables, i)
  BY <1>2, <1>5, HalvesGrow
<1>7. into.of \in S2 \cup {0}
  BY <1>3, <1>5
<1>8. \A j \in 1..(i - 1) : calls[j].scope # calls[Len(calls)].scope
  BY <1>1, NamesOutside
<1> QED
  BY <1>1, <1>5, <1>6, <1>7, <1>8, StoreDivides

\* The calls after one has begun.
Entered(kind, scope, self, into) ==
    Append(Renamed(scope), [kind |-> kind, scope |-> scope, self |-> self,
                            into |-> Orphaned(into, Top, scope), reused |-> FALSE, called |-> FALSE])

TablesWith(scope, table) ==
    [s \in DOMAIN tables \cup {scope} |-> IF s = scope THEN table ELSE tables[s]]

LEMMA EnteredCalls ==
    ASSUME TypeOK, NEW kind, NEW scope, NEW self, NEW into,
           NEW cs, cs = Entered(kind, scope, self, into)
    PROVE  /\ Len(cs) = Depth + 1 /\ DOMAIN cs = 1..(Depth + 1)
           /\ cs[Depth + 1].kind = kind /\ cs[Depth + 1].scope = scope /\ cs[Depth + 1].self = self
           /\ cs[Depth + 1].into.of \in {into.of, 0}
           /\ \A j \in 1..Depth :
                 /\ cs[j].kind = calls[j].kind /\ cs[j].scope = calls[j].scope
                 /\ cs[j].self = calls[j].self /\ cs[j].into.of \in {calls[j].into.of, 0}
<1> DEFINE call == [kind |-> kind, scope |-> scope, self |-> self,
                    into |-> Orphaned(into, Top, scope), reused |-> FALSE, called |-> FALSE]
<1>1. /\ Depth = Len(calls) /\ Depth \in Nat /\ DOMAIN calls = 1..Depth
      /\ \A j \in DOMAIN calls : calls[j] \in Call
  BY CallsTyped
<1>2. /\ Renamed(scope) \in Seq(Call) /\ Len(Renamed(scope)) = Depth
      /\ \A j \in DOMAIN calls :
            /\ Renamed(scope)[j].kind = calls[j].kind
            /\ Renamed(scope)[j].scope = calls[j].scope
            /\ Renamed(scope)[j].self = calls[j].self
  BY <1>1, RenamedCalls
<1>3. \A t, waiting : Orphaned(t, waiting, scope).of \in {t.of, 0}
  BY DEF Orphaned, Nowhere
<1>4. ASSUME NEW j \in DOMAIN calls PROVE Renamed(scope)[j].into.of \in {calls[j].into.of, 0}
  <2> DEFINE t == IF j = 1 THEN calls[j].into ELSE Orphaned(calls[j].into, calls[j - 1], scope)
  <2>1. t.of \in {calls[j].into.of, 0}
    BY <1>3
  <2>2. Renamed(scope)[j] =
          [calls[j] EXCEPT !.reused = calls[j].reused \/ calls[j].scope = scope, !.into = t]
    BY DEF Renamed
  <2> HIDE DEF t
  <2> QED
    BY <1>1, <2>1, <2>2 DEF Call
<1>5. call.kind = kind /\ call.scope = scope /\ call.self = self /\ call.into.of \in {into.of, 0}
  BY <1>3
<1> HIDE DEF call
<1>6. cs = Append(Renamed(scope), call)
  BY DEF Entered, call
<1>7. /\ Len(cs) = Depth + 1 /\ DOMAIN cs = 1..(Depth + 1) /\ cs[Depth + 1] = call
      /\ \A j \in 1..Depth : cs[j] = Renamed(scope)[j]
  <2>1. DOMAIN Renamed(scope) = 1..Depth
    BY <1>2
  <2> QED
    BY <1>1, <1>2, <1>6, <2>1
<1> QED
  BY <1>1, <1>2, <1>4, <1>5, <1>7

\* A call that begins has what its caller has, or what is new.
LEMMA EnterDivides ==
    ASSUME CopiesInv, NEW h \in [Ids -> Object], NEW kind, NEW scope, NEW self, NEW table, NEW into,
           Enter(h, kind, scope, self, table, into),
           scope[1] \in Classes \/ scope = CallScope(Depth + 1),
           NEW i \in DOMAIN calls, Divides(i),
           NEW S, NEW T, Halves(heap, S, T, calls, tables, i), NEW S2 \in SUBSET Ids,
           S \subseteq S2, S2 \cap T = {}, Kept(h, S2), Kept(h, T),
           Values(table) \subseteq S2, self \in S2 \cup {0}, into.of \in S2 \cup {0}
    PROVE  Divided(i)'
<1>1. PICK cs : cs = Entered(kind, scope, self, into)
  OBVIOUS
<1>2. PICK ts : ts = TablesWith(scope, table)
  OBVIOUS
<1>3. /\ ObjectsInv /\ TypeOK /\ FunctionsBelow /\ Depth = Len(calls) /\ Depth \in Nat
      /\ DOMAIN calls = 1..Depth /\ \A j \in DOMAIN calls : calls[j].scope \in DOMAIN tables
  BY CallsTyped DEF CopiesInv, ObjectsInv
<1>4. /\ Len(cs) = Depth + 1 /\ DOMAIN cs = 1..(Depth + 1)
      /\ cs[Depth + 1].kind = kind /\ cs[Depth + 1].scope = scope /\ cs[Depth + 1].self = self
      /\ cs[Depth + 1].into.of \in {into.of, 0}
      /\ \A j \in 1..Depth :
            /\ cs[j].kind = calls[j].kind /\ cs[j].scope = calls[j].scope
            /\ cs[j].self = calls[j].self /\ cs[j].into.of \in {calls[j].into.of, 0}
  BY <1>1, <1>3, EnteredCalls
<1>5. PICK this : Finish(h, cs, ts, this)
  BY <1>1, <1>2 DEF Enter, Entered, TablesWith
<1>6. ts[scope] = table /\ \A s \in DOMAIN tables : s # scope => ts[s] = tables[s]
  BY <1>2 DEF TablesWith
<1>7. ASSUME NEW j \in 1..Depth
      PROVE  /\ calls[j].scope # scope => RootsOf(cs, ts, j) = RootsOf(calls, tables, j)
             /\ RootsOf(cs, ts, j) \subseteq RootsOf(calls, tables, j) \cup S2
  <2>1. CASE calls[j].scope = scope
    BY <1>4, <1>6, <2>1 DEF RootsOf
  <2>2. CASE calls[j].scope # scope
    <3>1. ts[cs[j].scope] = tables[calls[j].scope]
      BY <1>3, <1>4, <1>6, <2>2
    <3> QED
      BY <1>4, <3>1 DEF RootsOf
  <2> QED
    BY <2>1, <2>2
<1>8. RootsOf(cs, ts, Depth + 1) \subseteq S2 \cup {0}
  BY <1>4, <1>6 DEF RootsOf
<1>9. ASSUME NEW j \in 1..(i - 1) PROVE RootsOf(cs, ts, j) = RootsOf(calls, tables, j)
  <2>1. calls[j].scope = <<"call", j>> /\ j \in 1..Depth
    BY <1>3, NamesOutside
  <2>2. calls[j].scope # scope
    BY <1>3, <2>1, ObjectsAssumption DEF CallScope
  <2> QED
    BY <1>7, <2>1, <2>2
<1>10. Inside(cs, ts, i) \subseteq S2 \cup {0}
  <2>1. ASSUME NEW j \in i..(Depth + 1) PROVE RootsOf(cs, ts, j) \subseteq S2 \cup {0}
    <3>1. CASE j = Depth + 1
      BY <1>8, <3>1
    <3>2. CASE j # Depth + 1
      <4>1. j \in i..Len(calls) /\ j \in 1..Depth
        BY <1>3, <3>2
      <4>2. RootsOf(calls, tables, j) \subseteq Inside(calls, tables, i)
        BY <4>1 DEF Inside
      <4> QED
        BY <1>7, <4>1, <4>2 DEF Halves
    <3> QED
      BY <3>1, <3>2
  <2>2. ASSUME NEW j \in (i + 1)..(Depth + 1) PROVE cs[j].into.of \in S2 \cup {0}
    <3>1. CASE j = Depth + 1
      BY <1>4, <3>1
    <3>2. CASE j # Depth + 1
      <4>1. j \in (i + 1)..Len(calls) /\ j \in 1..Depth
        BY <1>3, <3>2
      <4>2. calls[j].into.of \in Inside(calls, tables, i)
        BY <4>1 DEF Inside
      <4> QED
        BY <1>4, <4>1, <4>2 DEF Halves
    <3> QED
      BY <3>1, <3>2
  <2> QED
    BY <1>4, <2>1, <2>2 DEF Inside
<1>11. Outside(cs, ts, i) \subseteq T \cup {0}
  <2>1. ASSUME NEW j \in 1..(i - 1) PROVE RootsOf(cs, ts, j) \subseteq T \cup {0}
    BY <1>9 DEF Halves, Outside
  <2>2. ASSUME NEW j \in 1..i PROVE cs[j].into.of \in T \cup {0}
    <3>1. j \in 1..Depth
      BY <1>3
    <3>2. calls[j].into.of \in T \cup {0}
      BY DEF Halves, Outside
    <3> QED
      BY <1>4, <3>1, <3>2
  <2> QED
    BY <2>1, <2>2 DEF Outside
<1>12. Halves(h, S2, T, cs, ts, i)
  BY <1>10, <1>11 DEF Halves
<1> QED
  BY <1>3, <1>4, <1>5, <1>12, FinishDivides

\* A function called in an expression begins with what is new.
LEMMA EnterBegins ==
    ASSUME CopiesInv, NEW h \in [Ids -> Object], NEW table, NEW into,
           Enter(h, "expression", CallScope(Depth + 1), 0, table, into), into.of \in Values(Own) \cup {0},
           NEW n, n = Depth + 1, NEW new \in SUBSET Ids, Values(table) \subseteq new, Kept(h, new),
           \A S \in SUBSET Ids : Kept(heap, S) => Kept(h, S) /\ S \cap new = {}
    PROVE  Divided(n)'
<1>1. PICK cs : cs = Entered("expression", CallScope(Depth + 1), 0, into)
  OBVIOUS
<1>2. PICK ts : ts = TablesWith(CallScope(Depth + 1), table)
  OBVIOUS
<1>3. /\ ObjectsInv /\ TypeOK /\ FunctionsBelow /\ Depth = Len(calls) /\ Depth \in Nat \ {0}
      /\ DOMAIN calls = 1..Depth /\ \A j \in DOMAIN calls : calls[j].scope \in DOMAIN tables
  BY CallsTyped DEF CopiesInv, ObjectsInv
<1>4. /\ Len(cs) = Depth + 1 /\ DOMAIN cs = 1..(Depth + 1)
      /\ cs[Depth + 1].scope = CallScope(Depth + 1) /\ cs[Depth + 1].self = 0
      /\ cs[Depth + 1].into.of \in {into.of, 0}
      /\ \A j \in 1..Depth :
            /\ cs[j].kind = calls[j].kind /\ cs[j].scope = calls[j].scope
            /\ cs[j].self = calls[j].self /\ cs[j].into.of \in {calls[j].into.of, 0}
  BY <1>1, <1>3, EnteredCalls
<1>5. PICK this : Finish(h, cs, ts, this)
  BY <1>1, <1>2 DEF Enter, Entered, TablesWith
<1>6. /\ ts[CallScope(Depth + 1)] = table
      /\ \A s \in DOMAIN tables : s # CallScope(Depth + 1) => ts[s] = tables[s]
  BY <1>2 DEF TablesWith
\* Everything that exists is on one side or the other of the file.
<1>7. PICK S, T \in SUBSET Ids : Halves(heap, S, T, calls, tables, 1)
  <2>1. 1 \in DOMAIN calls
    BY <1>3
  <2> QED
    BY <2>1 DEF CopiesInv, Divides, Divided
<1>8. Kept(heap, S \cup T)
  BY <1>7 DEF Halves, Kept
<1>9. ASSUME NEW j \in 1..Depth
      PROVE  RootsOf(cs, ts, j) \subseteq S \cup T \cup {0} /\ cs[j].into.of \in S \cup T \cup {0}
  <2>1. calls[j].scope # CallScope(Depth + 1)
    <3>1. CallIsSound(j)
      BY <1>3 DEF ObjectsInv, CallsAreSound
    <3> QED
      BY <1>3, <3>1, ObjectsAssumption DEF CallIsSound, CallScope
  <2>2. ts[cs[j].scope] = tables[calls[j].scope]
    BY <1>3, <1>4, <1>6, <2>1
  <2>3. RootsOf(cs, ts, j) = RootsOf(calls, tables, j)
    BY <1>4, <2>2 DEF RootsOf
  <2>4. j \in 1..Len(calls) /\ (j \in 2..Len(calls) \/ j \in 1..1)
    BY <1>3
  <2>5. RootsOf(calls, tables, j) \subseteq Inside(calls, tables, 1)
    BY <2>4 DEF Inside
  <2>6. calls[j].into.of \in Inside(calls, tables, 1) \cup Outside(calls, tables, 1)
    BY <2>4 DEF Inside, Outside
  <2> QED
    BY <1>4, <1>7, <2>3, <2>5, <2>6 DEF Halves
<1>10. into.of \in S \cup {0}
  <2>1. 1 \in DOMAIN calls
    BY <1>3
  <2> QED
    BY <1>3, <1>7, <2>1, TopInside
<1>11. Inside(cs, ts, Depth + 1) \subseteq new \cup {0}
  <2>1. \A j \in (Depth + 1)..Len(cs) : j = Depth + 1
    BY <1>3, <1>4
  <2>2. (Depth + 1 + 1)..Len(cs) = {}
    BY <1>3, <1>4
  <2>3. RootsOf(cs, ts, Depth + 1) \subseteq new \cup {0}
    BY <1>4, <1>6 DEF RootsOf
  <2> QED
    BY <2>1, <2>2, <2>3 DEF Inside
<1>12. Outside(cs, ts, Depth + 1) \subseteq S \cup T \cup {0}
  <2>1. (Depth + 1) - 1 = Depth /\ \A j \in 1..(Depth + 1) : j = Depth + 1 \/ j \in 1..Depth
    BY <1>3
  <2>2. \A j \in 1..(Depth + 1) : cs[j].into.of \in S \cup T \cup {0}
    BY <1>4, <1>9, <1>10, <2>1
  <2> QED
    BY <1>9, <2>1, <2>2 DEF Outside
<1>13. Halves(h, new, S \cup T, cs, ts, Depth + 1)
  BY <1>7, <1>8, <1>11, <1>12 DEF Halves
<1>14. n \in DOMAIN cs /\ DOMAIN cs = 1..Len(cs) /\ Len(cs) \in Nat
  BY <1>3, <1>4
<1> QED
  BY <1>5, <1>13, <1>14, FinishDivides

\* What has become of the calls and of what they are called from.
LEMMA EnterBelow ==
    ASSUME CopiesInv, NEW h, NEW kind, NEW scope, NEW self, NEW table, NEW into,
           Enter(h, kind, scope, self, table, into), kind \in Functions => FindsFunctions
    PROVE  /\ FunctionsBelow' /\ DOMAIN calls' = 1..(Depth + 1)
           /\ calls'[Depth + 1].kind = kind
           /\ \A j \in 1..Depth : calls'[j].kind = calls[j].kind
<1>1. PICK cs : cs = Entered(kind, scope, self, into)
  OBVIOUS
<1>2. /\ ObjectsInv /\ TypeOK /\ FunctionsBelow /\ Depth = Len(calls) /\ Depth \in Nat \ {0}
      /\ DOMAIN calls = 1..Depth /\ Depth \in DOMAIN calls
  BY CallsTyped DEF CopiesInv, ObjectsInv
<1>3. /\ DOMAIN cs = 1..(Depth + 1) /\ cs[Depth + 1].kind = kind
      /\ \A j \in 1..Depth : cs[j].kind = calls[j].kind
  BY <1>1, <1>2, EnteredCalls
<1>4. calls' = cs
  BY <1>1 DEF Enter, Entered, Finish
<1>5. ASSUME NEW i \in 1..(Depth + 1), cs[i].kind \in Functions, NEW j \in 1..(i - 1)
      PROVE  cs[j].kind \notin Methods
  <2>1. j \in 1..Depth /\ (i = Depth + 1 \/ i \in 1..Depth)
    BY <1>2
  <2>2. CASE i \in 1..Depth
    BY <1>2, <1>3, <1>5, <2>1, <2>2 DEF FunctionsBelow
  <2>3. CASE i = Depth + 1
    <3>1. Top.kind \in {"file"} \cup Functions
      BY <1>3, <1>5, <2>3 DEF FindsFunctions
    <3>2. Top = calls[Depth] /\ Top.kind \notin Methods
      BY <3>1 DEF Top, Functions, Methods
    <3>3. Top.kind = "file" => Depth = 1
      BY <1>2, <3>2 DEF ObjectsInv, CallsAreSound, CallIsSound
    <3>4. Top.kind \in Functions => \A k \in 1..(Depth - 1) : calls[k].kind \notin Methods
      BY <1>2, <3>2 DEF FunctionsBelow
    <3>5. j = Depth \/ (Depth # 1 /\ j \in 1..(Depth - 1))
      BY <1>2, <2>1
    <3> QED
      BY <1>3, <2>1, <3>1, <3>2, <3>3, <3>4, <3>5
  <2> QED
    BY <2>1, <2>2, <2>3
<1> QED
  BY <1>3, <1>4, <1>5 DEF FunctionsBelow

\* A call that is not of a function in an expression.
LEMMA EnterKeepsDivided ==
    ASSUME CopiesInv, NEW r, IsResult(r), NEW kind \in {"statement", "method", "constructor"},
           NEW scope, NEW self, NEW table, NEW into,
           Enter(r.heap, kind, scope, self, table, into),
           scope[1] \in Classes \/ scope = CallScope(Depth + 1),
           kind \in Functions => FindsFunctions,
           Values(table) \subseteq Values(Own) \cup {r.value},
           self \in Values(Own) \cup {r.value, 0}, into.of \in Values(Own) \cup {0},
           ServesOwn(r),
           ObjectsInv'
    PROVE  CopiesInv'
<1>1. /\ FunctionsBelow' /\ DOMAIN calls' = 1..(Depth + 1)
      /\ calls'[Depth + 1].kind = kind /\ \A j \in 1..Depth : calls'[j].kind = calls[j].kind
  BY EnterBelow
<1>2. /\ ObjectsInv /\ Depth \in Nat \ {0} /\ DOMAIN calls = 1..Depth /\ r.heap \in [Ids -> Object]
  BY CallsTyped DEF CopiesInv, ObjectsInv, IsResult
<1>3. ASSUME NEW i \in DOMAIN calls', i = 1 \/ calls'[i].kind = "expression"
      PROVE  Divided(i)'
  <2>1. i \in DOMAIN calls /\ Divides(i)
    BY <1>1, <1>2, <1>3 DEF Divides
  <2>2. PICK S, T \in SUBSET Ids : Halves(heap, S, T, calls, tables, i)
    BY <2>1 DEF CopiesInv, Divided
  <2>3. Values(Own) \subseteq S
    BY <1>2, <2>1, <2>2, TopInside
  <2>4. Serves(r, S, T)
    BY <2>2, <2>3 DEF Halves, ServesOwn
  <2>5. PICK S2 \in SUBSET Ids : /\ S \subseteq S2 /\ S2 \cap T = {} /\ r.value \in S2
                                 /\ Kept(r.heap, S2) /\ Kept(r.heap, T)
    BY <2>4 DEF Serves
  <2>6. Values(table) \subseteq S2 /\ self \in S2 \cup {0} /\ into.of \in S2 \cup {0}
    BY <2>3, <2>5
  <2> QED
    BY <1>2, <2>1, <2>2, <2>5, <2>6, EnterDivides
<1> QED
  BY <1>1, <1>3 DEF CopiesInv, Divides

\* A function called in an expression.
LEMMA ExpressionKeepsDivided ==
    ASSUME CopiesInv, CallExpression, ObjectsInv'
    PROVE  CopiesInv'
<1>1. PICK v \in Values(Own), into \in Targets : \E r \in Clone(v) :
        Enter(r.heap, "expression", CallScope(Depth + 1), 0, Parameter(r.value), into)
  BY DEF CallExpression
<1>2. PICK r \in Clone(v) :
        Enter(r.heap, "expression", CallScope(Depth + 1), 0, Parameter(r.value), into)
  BY <1>1
<1>3. /\ ObjectsInv /\ TypeOK /\ Depth \in Nat \ {0} /\ DOMAIN calls = 1..Depth /\ Depth = Len(calls)
      /\ Values(Own) \subseteq Ids
  BY CallsTyped, OwnTyped DEF CopiesInv, ObjectsInv
<1>4. IsResult(r) /\ r.heap \in [Ids -> Object] /\ r.value \in Ids
  BY <1>1, <1>3, CloneTyped DEF IsResult
<1>5. into.of \in Values(Own) \cup {0}
  BY <1>1 DEF Targets, Declarations, Assignments, Puts
<1>6. /\ FunctionsBelow' /\ DOMAIN calls' = 1..(Depth + 1)
      /\ \A j \in 1..Depth : calls'[j].kind = calls[j].kind
  BY <1>2, EnterBelow DEF CallExpression
<1>7. PICK S1, T1 \in SUBSET Ids : Halves(heap, S1, T1, calls, tables, 1)
  <2>1. 1 \in DOMAIN calls
    BY <1>3
  <2> QED
    BY <2>1 DEF CopiesInv, Divides, Divided
<1>8. Kept(heap, S1) /\ S1 \subseteq Ids /\ Values(Own) \subseteq S1
  <2>1. 1 \in DOMAIN calls
    BY <1>3
  <2> QED
    BY <1>3, <1>7, <2>1, TopInside DEF Halves
<1>9. PICK new \in SUBSET Ids :
              /\ r.value \in new /\ Kept(r.heap, new)
              /\ \A S \in SUBSET Ids : Kept(heap, S) => Kept(r.heap, S) /\ S \cap new = {}
  <2>1. v \in Ids /\ v \in S1
    BY <1>1, <1>8
  <2> QED
    BY <1>2, <1>3, <1>8, <2>1, CloneServes
<1>10. Values(Parameter(r.value)) = {r.value}
  BY DEF Values, Parameter
<1>11. PICK n : n = Depth + 1
  OBVIOUS
<1>12. Divided(n)'
  BY <1>2, <1>4, <1>5, <1>9, <1>10, <1>11, EnterBegins
<1>13. ASSUME NEW i \in DOMAIN calls, Divides(i) PROVE Divided(i)'
  <2>1. PICK S, T \in SUBSET Ids : Halves(heap, S, T, calls, tables, i)
    BY <1>13 DEF CopiesInv, Divided
  <2>2. Kept(heap, S) /\ Kept(heap, T) /\ S \cap T = {}
    BY <2>1 DEF Halves
  <2>3. /\ Kept(r.heap, S) /\ Kept(r.heap, T) /\ S \cap new = {} /\ T \cap new = {}
    BY <1>9, <2>2
  <2>4. /\ S \subseteq S \cup new /\ (S \cup new) \cap T = {} /\ Kept(r.heap, S \cup new)
        /\ Values(Parameter(r.value)) \subseteq S \cup new /\ S \cup new \in SUBSET Ids
    BY <1>9, <1>10, <2>2, <2>3 DEF Kept
  <2>5. into.of \in S \cup new \cup {0}
    BY <1>3, <1>5, <2>1, TopInside
  <2>6. CallScope(Depth + 1)[1] \in Classes \/ CallScope(Depth + 1) = CallScope(Depth + 1)
    OBVIOUS
  <2> QED
    BY <1>2, <1>4, <1>13, <2>1, <2>3, <2>4, <2>5, EnterDivides
<1>14. ASSUME NEW i \in DOMAIN calls', i = 1 \/ calls'[i].kind = "expression"
      PROVE  Divided(i)'
  <2>1. CASE i = n
    BY <1>12, <2>1
  <2>2. CASE i # n
    <3>1. i \in DOMAIN calls /\ Divides(i)
      BY <1>3, <1>6, <1>11, <1>14, <2>2 DEF Divides
    <3> QED
      BY <1>13, <3>1
  <2> QED
    BY <2>1, <2>2
<1> QED
  BY <1>6, <1>14 DEF CopiesInv, Divides

\* What a call returns is of the half that the call is in.
LEMMA ReturnedServes ==
    ASSUME ObjectsInv, NEW S, NEW T, NEW i \in DOMAIN calls, Halves(heap, S, T, calls, tables, i),
           NEW r \in Returned
    PROVE  Serves(r, S, T)
<1>1. /\ TypeOK /\ heap \in [Ids -> Object] /\ Depth \in DOMAIN calls /\ Top = calls[Depth]
      /\ S \subseteq Ids /\ T \subseteq Ids /\ S \cap T = {} /\ Kept(heap, S) /\ Kept(heap, T)
      /\ Values(Own) \subseteq S /\ Top.self \in S \cup {0}
  BY OwnTyped, TopInside DEF ObjectsInv, TypeOK, Halves, Top
<1>2. CASE Top.kind = "constructor"
  <2>1. Top.self # 0
    BY <1>1, <1>2 DEF ObjectsInv, CallsAreSound, CallIsSound
  <2>2. r = [value |-> Top.self, heap |-> heap]
    BY <1>2 DEF Returned
  <2> QED
    BY <1>1, <2>1, <2>2 DEF Serves
<1>3. CASE Top.kind # "constructor"
  <2>1. r \in Results \/ r \in Made(heap, Empty)
    BY <1>3 DEF Returned
  <2>2. r \in Made(heap, Empty) => Serves(r, S, T)
    BY <1>1, MadeServes DEF Empty
  <2> QED
    BY <1>1, <2>1, <2>2, ResultsServe
<1> QED
  BY <1>2, <1>3

\* A call ends, and its caller goes on with what it returned.
LEMMA ReturnKeepsDivided ==
    ASSUME CopiesInv, Return, ObjectsInv'
    PROVE  CopiesInv'
<1>1. PICK cs : cs = Rest
  OBVIOUS
<1>2. /\ ObjectsInv /\ TypeOK /\ FunctionsBelow /\ Depth = Len(calls) /\ Depth \in Nat \ {0} /\ Depth > 1
      /\ DOMAIN calls = 1..Depth /\ \A j \in DOMAIN calls : calls[j].scope \in DOMAIN tables
      /\ \A j \in DOMAIN calls : calls[j] \in Call
  <2>1. Depth > 1
    BY DEF Return
  <2> QED
    BY <2>1, CallsTyped DEF CopiesInv, ObjectsInv
<1>3. /\ Len(cs) = Depth - 1 /\ DOMAIN cs = 1..(Depth - 1)
      /\ \A j \in 1..(Depth - 1) :
            cs[j].kind = calls[j].kind /\ cs[j].scope = calls[j].scope /\ cs[j].self = calls[j].self
  BY <1>1, <1>2, RestCalls
<1>4. \A j \in 1..(Depth - 1) : cs[j].into = calls[j].into
  BY <1>1, <1>2 DEF Rest, Call
<1>5. \/ Finish(heap, cs, tables, ThisAfter)
      \/ \E r \in Returned : Store(r, cs, tables, Top.into, ThisAfter)
  BY <1>1 DEF Return, Rest
<1>6. calls' = cs
  BY <1>5 DEF Store, Finish
<1>7. FunctionsBelow'
  <2>1. ASSUME NEW i \in 1..(Depth - 1), cs[i].kind \in Functions, NEW j \in 1..(i - 1)
        PROVE  cs[j].kind \notin Methods
    <3>1. i \in DOMAIN calls /\ i \in 1..(Depth - 1) /\ j \in 1..(Depth - 1)
      BY <1>2
    <3>2. cs[i].kind = calls[i].kind /\ cs[j].kind = calls[j].kind
      BY <1>3, <3>1
    <3>3. calls[j].kind \notin Methods
      BY <1>2, <2>1, <3>1, <3>2 DEF FunctionsBelow
    <3> QED
      BY <3>2, <3>3
  <2> QED
    BY <1>3, <1>6, <2>1 DEF FunctionsBelow
<1>8. ASSUME NEW i \in 1..(Depth - 1), Divides(i) PROVE Divided(i)'
  <2>1. i \in DOMAIN calls /\ i \in DOMAIN cs /\ i < Depth
    BY <1>2, <1>3
  <2>2. PICK S, T \in SUBSET Ids : Halves(heap, S, T, calls, tables, i)
    BY <1>8, <2>1 DEF CopiesInv, Divided
  <2>3. ASSUME NEW h, NEW S2 \in SUBSET Ids, S \subseteq S2, S2 \cap T = {}, Kept(h, S2), Kept(h, T)
        PROVE  Halves(h, S2, T, cs, tables, i)
    <3>1. \A j \in 1..(Depth - 1) : RootsOf(cs, tables, j) = RootsOf(calls, tables, j)
      BY <1>3 DEF RootsOf
    <3>2. /\ i..Len(cs) \subseteq i..Len(calls) /\ (i + 1)..Len(cs) \subseteq (i + 1)..Len(calls)
          /\ i..Len(cs) \subseteq 1..(Depth - 1) /\ (i + 1)..Len(cs) \subseteq 1..(Depth - 1)
          /\ 1..(i - 1) \subseteq 1..(Depth - 1) /\ 1..i \subseteq 1..(Depth - 1)
      BY <1>2, <1>3
    <3>3. Inside(cs, tables, i) \subseteq Inside(calls, tables, i)
      BY <1>4, <3>1, <3>2 DEF Inside
    <3>4. Outside(cs, tables, i) \subseteq Outside(calls, tables, i)
      BY <1>4, <3>1, <3>2 DEF Outside
    <3> QED
      BY <2>2, <2>3, <3>3, <3>4 DEF Halves
  <2>4. CASE Finish(heap, cs, tables, ThisAfter)
    <3>1. Halves(heap, S, T, cs, tables, i)
      BY <2>2, <2>3 DEF Halves
    <3>2. heap \in [Ids -> Object] /\ Len(cs) \in Nat /\ DOMAIN cs = 1..Len(cs)
      BY <1>2, <1>3 DEF TypeOK
    <3> QED
      BY <2>1, <2>4, <3>1, <3>2, FinishDivides
  <2>5. ASSUME NEW r \in Returned, Store(r, cs, tables, Top.into, ThisAfter) PROVE Divided(i)'
    <3>1. IsResult(r) /\ Serves(r, S, T)
      BY <1>2, <2>1, <2>2, ReturnedTyped, ReturnedServes
    <3>2. PICK S2 \in SUBSET Ids : /\ S \subseteq S2 /\ S2 \cap T = {} /\ r.value \in S2
                                   /\ Kept(r.heap, S2) /\ Kept(r.heap, T)
      BY <3>1 DEF Serves
    <3>3. Halves(r.heap, S2, T, cs, tables, i)
      BY <2>3, <3>2
    <3>4. Top.into.of \in S2 \cup {0}
      BY <1>2, <2>1, <2>2, <3>2, TopInside
    <3>5. \A j \in DOMAIN cs : cs[j].scope \in DOMAIN tables
      BY <1>2, <1>3
    <3>6. \A j \in 1..(i - 1) : cs[j].scope # cs[Len(cs)].scope
      <4>1. Depth - 1 \in i..Len(calls) /\ Depth - 1 \in 1..(Depth - 1)
        BY <1>2, <2>1
      <4>2. \A j \in 1..(i - 1) : calls[j].scope # calls[Depth - 1].scope
        BY <1>2, <1>8, <2>1, <4>1, NamesOutside
      <4>3. 1..(i - 1) \subseteq 1..(Depth - 1)
        BY <1>2
      <4> QED
        BY <1>3, <4>1, <4>2, <4>3
    <3>7. Len(cs) \in Nat /\ DOMAIN cs = 1..Len(cs)
      BY <1>2, <1>3
    <3> QED
      BY <2>1, <2>5, <3>1, <3>2, <3>3, <3>4, <3>5, <3>6, <3>7, StoreDivides
  <2> QED
    BY <1>5, <2>4, <2>5
<1> QED
  BY <1>3, <1>6, <1>7, <1>8 DEF CopiesInv, Divides

\* A statement without a call.
LEMMA StatementKeepsDivided ==
    ASSUME CopiesInv, NEW r, IsResult(r), NEW into \in Targets,
           Store(r, calls, tables, into, thisObj),
           ServesOwn(r),
           ObjectsInv'
    PROVE  CopiesInv'
<1>1. into.of \in Values(Own) \cup {0}
  BY DEF Targets, Declarations, Assignments, Puts
<1>2. calls' = calls
  BY DEF Store, Finish
<1>3. FunctionsBelow'
  BY <1>2 DEF CopiesInv, FunctionsBelow
<1> QED
  BY <1>1, <1>2, <1>3, StatementDivides DEF CopiesInv, Divides

LEMMA SameDivided ==
    ASSUME CopiesInv, UNCHANGED <<script, heap, calls, tables>>, ObjectsInv'
    PROVE  CopiesInv'
<1>1. FunctionsBelow'
  BY DEF CopiesInv, FunctionsBelow
<1>2. ASSUME NEW i, Divided(i) PROVE Divided(i)'
  <2>1. Ids' = Ids
    BY DEF Ids
  <2>2. /\ heap' = heap /\ calls' = calls /\ tables' = tables
    OBVIOUS
  <2>3. \A S, T : Halves(heap, S, T, calls, tables, i)' <=> Halves(heap, S, T, calls, tables, i)
    BY <2>1, <2>2 DEF Halves, Kept, Inside, Outside, RootsOf
  <2> QED
    BY <1>2, <2>1, <2>3 DEF Divided
<1> QED
  BY <1>1, <1>2 DEF CopiesInv, Divides

LEMMA StepDivides ==
    ASSUME CopiesInv, [Next]_vars
    PROVE  CopiesInv'
<1>1. /\ ObjectsInv /\ ObjectsInv' /\ TypeOK /\ heap \in [Ids -> Object]
      /\ Depth \in Nat /\ Values(Own) \subseteq Ids
  BY StepKeeps, CallsTyped, OwnTyped DEF CopiesInv, ObjectsInv, TypeOK
<1>2. CASE Assign
  <2>1. PICK r \in Results, into \in Targets : Store(r, calls, tables, into, thisObj)
    BY <1>2 DEF Assign
  <2>2. ServesOwn(r)
    BY <1>1, <2>1, OwnServed
  <2> QED
    BY <1>1, <2>1, <2>2, ResultsTyped, StatementKeepsDivided
<1>3. CASE DeclareEmpty
  <2>1. PICK into \in Declarations, r \in Made(heap, Empty) : Store(r, calls, tables, into, thisObj)
    BY <1>3 DEF DeclareEmpty
  <2>2. ServesOwn(r)
    BY <1>1, <2>1, OwnServed DEF Empty
  <2>3. into \in Targets /\ IsResult(r)
    BY <1>1, <2>1, MadeTyped, EmptyTyped DEF Targets
  <2> QED
    BY <1>1, <2>1, <2>2, <2>3, StatementKeepsDivided
<1>4. CASE NewPlain
  <2>1. PICK c \in script.classes \ Constructed, into \in Targets :
          \E r \in Made(heap, [class |-> c, p |-> 0]) : Store(r, calls, tables, into, thisObj)
    BY <1>4 DEF NewPlain
  <2>2. PICK r \in Made(heap, [class |-> c, p |-> 0]) : Store(r, calls, tables, into, thisObj)
    BY <2>1
  <2>3. c \in Classes /\ [class |-> c, p |-> 0] \in Object
    BY <1>1, <2>1, ObjectsAssumption DEF TypeOK, Object
  <2>4. ServesOwn(r)
    BY <1>1, <2>2, <2>3, OwnServed
  <2> QED
    BY <1>1, <2>1, <2>2, <2>3, <2>4, MadeTyped, StatementKeepsDivided
<1>5. ASSUME NEW v \in Values(Own), NEW r, r = [value |-> v, heap |-> heap]
      PROVE  /\ r.heap = heap /\ r.value = v /\ IsResult(r)
             /\ ServesOwn(r)
  BY <1>1, <1>5, OwnServed DEF IsResult
<1>6. CASE CallStatement
  <2>1. PICK v \in Values(Own) :
          Enter(heap, "statement", CallScope(Depth + 1), 0, Parameter(v), Nowhere)
    BY <1>6 DEF CallStatement
  <2>2. PICK r : r = [value |-> v, heap |-> heap]
    OBVIOUS
  <2>3. Values(Parameter(v)) \subseteq Values(Own) \cup {v} /\ Nowhere.of = 0
    BY DEF Values, Parameter, Nowhere
  <2>4. FindsFunctions
    BY <1>6 DEF CallStatement
  <2>5. CallScope(Depth + 1)[1] \in Classes \/ CallScope(Depth + 1) = CallScope(Depth + 1)
    OBVIOUS
  <2> QED
    BY <1>1, <1>5, <2>1, <2>2, <2>3, <2>4, <2>5, EnterKeepsDivided
<1>7. CASE CallExpression
  BY <1>1, <1>7, ExpressionKeepsDivided
<1>8. CASE CloneWithoutEnd
  <2>1. UNCHANGED <<script, heap, calls, tables, thisObj>>
    BY <1>8 DEF CloneWithoutEnd
  <2> QED
    BY <1>1, <2>1, SameDivided
<1>9. CASE CallMethod
  <2>1. PICK o \in {a \in Values(Own) : heap[a].class \in Classes}, v \in Values(Own),
             into \in Targets \cup {Nowhere} :
          Enter(heap, "method", MethodScope(heap[o].class), o, WithThis(o, v), into)
    BY <1>9 DEF CallMethod
  <2>2. PICK r : r = [value |-> v, heap |-> heap]
    OBVIOUS
  <2>3. MethodScope(heap[o].class)[1] \in Classes
    BY <2>1 DEF MethodScope
  <2>4. Values(WithThis(o, v)) \subseteq Values(Own) \cup {v}
    BY <2>1 DEF Values, WithThis
  <2>5. into.of \in Values(Own) \cup {0} /\ "method" \notin Functions
    BY DEF Targets, Declarations, Assignments, Puts, Nowhere, Functions
  <2> QED
    BY <1>1, <1>5, <2>1, <2>2, <2>3, <2>4, <2>5, EnterKeepsDivided
<1>10. CASE New
  <2>1. PICK c \in script.classes \cap Constructed, v \in Values(Own), into \in Targets :
          \E r \in Made(heap, [class |-> c, p |-> 0]) : Enter(r.heap, "constructor",
              CallScope(Depth + 1), r.value, WithThis(r.value, v), into)
    BY <1>10 DEF New
  <2>2. PICK r \in Made(heap, [class |-> c, p |-> 0]) : Enter(r.heap, "constructor",
              CallScope(Depth + 1), r.value, WithThis(r.value, v), into)
    BY <2>1
  <2>3. c \in Classes /\ [class |-> c, p |-> 0] \in Object
    BY <1>1, <2>1, ObjectsAssumption DEF TypeOK, Object
  <2>4. IsResult(r)
    BY <1>1, <2>2, <2>3, MadeTyped
  <2>5. ServesOwn(r)
    BY <1>1, <2>2, <2>3, OwnServed
  <2>6. Values(WithThis(r.value, v)) \subseteq Values(Own) \cup {r.value}
    BY <2>1 DEF Values, WithThis
  <2>7. into.of \in Values(Own) \cup {0} /\ "constructor" \notin Functions
    BY DEF Targets, Declarations, Assignments, Puts, Functions
  <2>8. CallScope(Depth + 1)[1] \in Classes \/ CallScope(Depth + 1) = CallScope(Depth + 1)
    OBVIOUS
  <2> QED
    BY <1>1, <2>2, <2>4, <2>5, <2>6, <2>7, <2>8, EnterKeepsDivided
<1>11. CASE Return
  BY <1>1, <1>11, ReturnKeepsDivided
<1>12. CASE UNCHANGED vars
  <2>1. UNCHANGED <<script, heap, calls, tables, thisObj>>
    BY <1>12 DEF vars
  <2> QED
    BY <1>1, <2>1, SameDivided
<1> QED
  BY <1>2, <1>3, <1>4, <1>6, <1>7, <1>8, <1>9, <1>10, <1>11, <1>12 DEF Next, Step

LEMMA InitDivided == Init => CopiesInv
<1> SUFFICES ASSUME Init PROVE CopiesInv
  OBVIOUS
<1>1. ObjectsInv
  BY InitSound
<1>2. PICK file : calls = <<file>> /\ file.self = 0 /\ file.into.of = 0 /\ file.scope = <<"call", 1>>
      /\ file.kind = "file"
  BY DEF Init, Nowhere
<1>3. DOMAIN calls = {1} /\ calls[1] = file /\ Len(calls) = 1
  BY <1>2
<1>4. Values(tables[file.scope]) = {}
  <2>1. tables[file.scope] = <<>>
    BY <1>2 DEF Init
  <2> QED
    BY <2>1 DEF Values
<1>5. Inside(calls, tables, 1) \subseteq {0} /\ Outside(calls, tables, 1) \subseteq {0}
  <2>1. (1 + 1)..Len(calls) = {} /\ 1..(1 - 1) = {} /\ 1..Len(calls) = {1} /\ 1..1 = {1}
    BY <1>3
  <2> QED
    BY <1>2, <1>3, <1>4, <2>1 DEF Inside, Outside, RootsOf
<1>6. Halves(heap, {}, {}, calls, tables, 1)
  BY <1>5 DEF Halves, Kept
<1>7. Divided(1)
  BY <1>6 DEF Divided
<1>8. FunctionsBelow
  BY <1>2, <1>3 DEF FunctionsBelow, Functions
<1> QED
  BY <1>1, <1>3, <1>7, <1>8 DEF CopiesInv

(* For every function called in an expression there are two sets of        *)
(* objects with no property that leads from one to the other: what it and  *)
(* the calls inside have, and what its callers have, the object included   *)
(* that its result is to be stored in.  The file comes first: what all     *)
(* have exists, and leads to no object that is gone.                       *)
THEOREM CopiesInductive == Spec => []CopiesInv
<1>1. CopiesInv /\ [Next]_vars => CopiesInv'
  BY StepDivides
<1> QED
  BY InitDivided, <1>1, PTL DEF Spec

(* What a function called in an expression has, and what its calls have,   *)
(* never leads to an object that its callers have, for any classes,        *)
(* scripts, depth of calls and shape of the heap.                          *)
THEOREM ArgumentsCopied == Spec => []ArgumentsAreCopies
<1>1. ASSUME CopiesInv PROVE ArgumentsAreCopies
  <2> SUFFICES ASSUME NEW i \in DOMAIN calls, calls[i].kind = "expression"
               PROVE  LET inside  == (UNION {Roots(j) : j \in i..Depth})
                                     \cup {calls[j].into.of : j \in (i + 1)..Depth}
                          outside == (UNION {Roots(j) : j \in 1..(i - 1)})
                                     \cup {calls[j].into.of : j \in 1..i}
                      IN  Reach(heap, inside) \cap Reach(heap, outside) = {}
    BY DEF ArgumentsAreCopies
  <2>1. Divided(i)
    BY <1>1 DEF CopiesInv, Divides
  <2>2. PICK S, T \in SUBSET Ids : Halves(heap, S, T, calls, tables, i)
    BY <2>1 DEF Divided
  <2>3. heap \in [Ids -> Object]
    BY <1>1 DEF CopiesInv, ObjectsInv, TypeOK
  <2>4. ASSUME NEW U \in SUBSET Ids, Kept(heap, U), NEW R, R \subseteq U \cup {0}
        PROVE  Reach(heap, R) \subseteq U
    <3>1. R \subseteq Ids \cup {0} /\ \A a \in U : heap[a].p \in U \cup {0}
      BY <2>4 DEF Kept
    <3> QED
      BY <2>3, <2>4, <3>1, ReachLeast
  <2>5. /\ Reach(heap, Inside(calls, tables, i)) \subseteq S
        /\ Reach(heap, Outside(calls, tables, i)) \subseteq T /\ S \cap T = {}
    BY <2>2, <2>4 DEF Halves
  <2>6. \A j : Roots(j) = RootsOf(calls, tables, j)
    BY DEF Roots, RootsOf
  <2>7. Reach(heap, Inside(calls, tables, i)) \cap Reach(heap, Outside(calls, tables, i)) = {}
    BY <2>5
  <2> QED
    BY <2>6, <2>7 DEF Inside, Outside, Depth
<1> QED
  BY CopiesInductive, <1>1, PTL
=============================================================================
