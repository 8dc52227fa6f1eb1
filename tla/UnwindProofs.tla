---------------------------- MODULE UnwindProofs ----------------------------
(***************************************************************************)
(* Proofs about Unwind, for scripts of any constructs, any nesting and any *)
(* length.  Every step either appends a scope that is new (GrowKeeps) or   *)
(* cuts the scope stack above the scopes of the constructs that stay       *)
(* (CutKeeps); the actions are sorted into these two and those that leave  *)
(* both stacks alone.                                                      *)
(*                                                                         *)
(* The second part is about scripts that leave no scope behind: there the  *)
(* live constructs account for every entry of the scope stack (ExactInv),  *)
(* which makes it the stack of activations that a script is promised.      *)
(***************************************************************************)
EXTENDS Unwind, SequenceTheorems, FiniteSetTheorems, FunctionTheorems, TLAPS

\* The conjuncts of IInv about the two stacks, and those about the exception.
StackInv == /\ frames \in Seq(Frames)
            /\ scopeStack \in Seq(Names)
            /\ \A n \in DOMAIN tables : n \in Names /\ tables[n] \in Nat
            /\ acts \in Nat
            /\ LiveScopesKept /\ CallTableIsOwn
            /\ CallNamesFresh /\ LiveCallsNamed /\ CallersBelow
SignalInv == /\ sig \in Signals \cup {"none"}
             /\ origin \in Signals \cup {"none"}
             /\ (sig = "none") = (origin = "none")
             /\ thisObj \in Objects \cup {NoObject}

LEMMA Split == IInv <=> StackInv /\ SignalInv
BY DEF IInv, StackInv, SignalInv, TypeOK

\* A prefix of a sequence agrees with it.
LEMMA Prefix ==
    ASSUME NEW S, NEW s \in Seq(S), NEW m \in 0..Len(s)
    PROVE  /\ SubSeq(s, 1, m) \in Seq(S)
           /\ Len(SubSeq(s, 1, m)) = m
           /\ DOMAIN SubSeq(s, 1, m) = 1..m
           /\ \A i \in 1..m : SubSeq(s, 1, m)[i] = s[i]
<1>1. \A i \in 1..m : s[i] \in S
  BY ElementOfSeq
<1>2. m \in Int /\ 1 \in Int /\ Len(s) \in Nat
  OBVIOUS
<1>3. /\ SubSeq(s, 1, m) \in Seq(S)
      /\ Len(SubSeq(s, 1, m)) = IF 1 <= m THEN m - 1 + 1 ELSE 0
      /\ \A i \in 1..m - 1 + 1 : SubSeq(s, 1, m)[i] = s[1 + i - 1]
  BY <1>1, <1>2, SubSeqProperties
<1> QED BY <1>2, <1>3

\* Whatever is appended to a sequence, it grows by one.
LEMMA LenOfAppend ==
    ASSUME NEW S, NEW s \in Seq(S), NEW e
    PROVE  Len(Append(s, e)) = Len(s) + 1
<1>1. s \in Seq(S \cup {e}) /\ e \in S \cup {e}
  <2>1. \A i \in 1..Len(s) : s[i] \in S \cup {e}
    BY ElementOfSeq
  <2> QED BY <2>1, SeqDef
<1> QED BY <1>1, AppendProperties

\* Appending adds one element and moves none.
LEMMA Appended ==
    ASSUME NEW S, NEW s \in Seq(S), NEW e \in S
    PROVE  /\ Append(s, e) \in Seq(S)
           /\ Len(Append(s, e)) = Len(s) + 1
           /\ DOMAIN Append(s, e) = 1..Len(s) + 1
           /\ Append(s, e)[Len(s) + 1] = e
           /\ \A i \in 1..Len(s) : Append(s, e)[i] = s[i]
BY AppendProperties

\* The plain pop cuts the stack by at most one, and never to nothing.
LEMMA PopIsCut ==
    ASSUME NEW s \in Seq(Names), s # <<>>
    PROVE  \E m \in 1..Len(s) : /\ EnterPreviousScope(s) = SubSeq(s, 1, m)
                                /\ m >= Len(s) - 1
<1>1. Len(s) \in Nat \ {0}
  BY EmptySeq
<1>2. SubSeq(s, 1, Len(s)) = s
  BY SubSeqFull
<1>3. ASSUME Len(s) > 1
      PROVE  /\ EnterPreviousScope(s) = SubSeq(s, 1, Len(s) - 1)
             /\ Len(s) - 1 \in 1..Len(s)
  BY <1>1, <1>3 DEF EnterPreviousScope
<1>4. ASSUME ~(Len(s) > 1)
      PROVE  /\ EnterPreviousScope(s) = SubSeq(s, 1, Len(s))
             /\ Len(s) \in 1..Len(s)
  BY <1>1, <1>2, <1>4 DEF EnterPreviousScope
<1> QED BY <1>1, <1>3, <1>4

\* Leaving a call whose name occurs once, at b, cuts the stack right below b.
LEMMA ValidatedLeave ==
    ASSUME NEW s \in Seq(Names), NEW b \in DOMAIN s, b >= 2,
           \A i \in DOMAIN s : s[i] = s[b] => i = b
    PROVE  LeaveCallScope(s, s[b]) = SubSeq(s, 1, b - 1)
<1>1. Len(s) \in Nat /\ DOMAIN s = 1..Len(s)
  OBVIOUS
<1>2. Occurrences(s, s[b]) = {b}
  BY <1>1 DEF Occurrences
<1>3. Topmost(s, s[b]) = b
  BY <1>1, <1>2 DEF Topmost
<1>4. CASE CurrentScope(s) = s[b]
  <2>1. b = Len(s)
    BY <1>1, <1>4 DEF CurrentScope
  <2> QED BY <1>1, <1>4, <2>1 DEF LeaveCallScope, EnterPreviousScope
<1>5. CASE CurrentScope(s) # s[b]
  BY <1>2, <1>3, <1>5 DEF LeaveCallScope, ValidateAndCleanup
<1> QED BY <1>4, <1>5

-----------------------------------------------------------------------------
\* Leaving a construct keeps the stacks in order, whatever the cut, as long as
\* it spares the scopes of the callers.
CutTo(m) == /\ frames # <<>> /\ frames' = Callers
            /\ scopeStack' = SubSeq(scopeStack, 1, m)
            /\ \A i \in 1..Len(frames) - 1 : Scoped(i) => frames[i].base <= m
            /\ UNCHANGED <<tables, acts>>

LEMMA CutKeeps ==
    ASSUME StackInv, NEW m \in 1..Len(scopeStack), CutTo(m)
    PROVE  StackInv'
<1> DEFINE n == Len(frames) - 1
<1>1. Len(frames) \in Nat \ {0} /\ DOMAIN frames = 1..Len(frames)
  BY EmptySeq DEF StackInv, CutTo
<1>2. /\ frames' \in Seq(Frames) /\ Len(frames') = n /\ DOMAIN frames' = 1..n
      /\ \A i \in 1..n : frames'[i] = frames[i]
  <2>1. n \in 0..Len(frames)
    BY <1>1
  <2> QED BY <2>1, Prefix DEF StackInv, CutTo, Callers
<1>3. /\ scopeStack' \in Seq(Names) /\ Len(scopeStack') = m
      /\ DOMAIN scopeStack' = 1..m
      /\ \A i \in 1..m : scopeStack'[i] = scopeStack[i]
  <2>1. m \in 0..Len(scopeStack)
    BY DEF StackInv
  <2> QED BY <2>1, Prefix DEF StackInv, CutTo
<1>4. DOMAIN scopeStack = 1..Len(scopeStack) /\ Len(scopeStack) \in Nat
  BY DEF StackInv
<1>5. \A i \in DOMAIN frames' : Scoped(i)' => Scoped(i) /\ frames'[i] = frames[i]
                                              /\ frames[i].base \in 1..m
  <2> SUFFICES ASSUME NEW i \in DOMAIN frames', Scoped(i)'
               PROVE  Scoped(i) /\ frames'[i] = frames[i] /\ frames[i].base \in 1..m
    OBVIOUS
  <2>1. i \in 1..n /\ i \in DOMAIN frames /\ frames'[i] = frames[i]
    BY <1>1, <1>2
  <2>2. Scoped(i)
    BY <2>1 DEF Scoped
  <2>3. frames[i].base <= m
    BY <2>1, <2>2 DEF CutTo
  <2>4. frames[i].base \in DOMAIN scopeStack
    BY <2>1, <2>2 DEF StackInv, LiveScopesKept, ScopeKept
  <2> QED BY <1>4, <2>1, <2>2, <2>3, <2>4
<1>6. LiveScopesKept'
  <2>1. ASSUME NEW i \in DOMAIN frames', Scoped(i)' PROVE ScopeKept(i)'
    <3>1. ScopeKept(i)
      BY <1>1, <1>2, <1>5, <2>1 DEF StackInv, LiveScopesKept
    <3> QED BY <1>3, <1>5, <2>1, <3>1 DEF ScopeKept
  <2>2. ASSUME NEW i \in DOMAIN frames', NEW j \in DOMAIN frames',
               i < j, Scoped(i)', Scoped(j)'
        PROVE  frames'[i].base < frames'[j].base
    BY <1>1, <1>2, <1>5, <2>2 DEF StackInv, LiveScopesKept
  <2> QED BY <2>1, <2>2 DEF LiveScopesKept
<1>7. CallTableIsOwn' /\ LiveCallsNamed'
  <2>1. \A i \in DOMAIN frames' : i \in DOMAIN frames /\ frames'[i] = frames[i]
    BY <1>1, <1>2
  <2>2. tables' = tables
    BY DEF CutTo
  <2>3. CallTableIsOwn'
    BY <2>1, <2>2 DEF StackInv, CallTableIsOwn
  <2>4. LiveCallsNamed'
    BY <2>1, <2>2 DEF StackInv, LiveCallsNamed
  <2> QED BY <2>3, <2>4
<1>8. CallNamesFresh'
  <2>1. \A k \in DOMAIN tables' : IsCallName(k) => k[2] <= acts'
    BY DEF StackInv, CutTo, CallNamesFresh
  <2>2. \A i \in 1..m : i \in DOMAIN scopeStack
    BY <1>4
  <2> QED BY <1>3, <2>1, <2>2 DEF StackInv, CutTo, CallNamesFresh
<1>9. CallersBelow'
  <2>1. scopeStack' # <<>>
    BY <1>3
  <2> QED BY <1>1, <1>2, <1>5, <2>1 DEF StackInv, CallersBelow
<1>10. \A k \in DOMAIN tables' : k \in Names /\ tables'[k] \in Nat
  BY DEF StackInv, CutTo
<1>11. acts' \in Nat
  BY DEF StackInv, CutTo
<1> QED BY <1>2, <1>3, <1>6, <1>7, <1>8, <1>9, <1>10, <1>11 DEF StackInv

-----------------------------------------------------------------------------
\* Entering a construct keeps them in order too: a scope goes on top of all
\* others, and a table it brings replaces none that a live call owns.
LEMMA GrowKeeps ==
    ASSUME StackInv, NEW f \in Frames, NEW name \in Names,
           f.own = name, f.base = Len(scopeStack) + 1, f.kind \in ScopedKinds,
           frames' = Append(frames, f),
           scopeStack' = Append(scopeStack, name),
           acts' = acts + 1,
           \/ tables' = tables
           \/ /\ DOMAIN tables' = DOMAIN tables \cup {name}
              /\ tables'[name] = acts + 1
              /\ \A k \in DOMAIN tables : k # name => tables'[k] = tables[k],
           IsCallName(name) => name[2] = acts + 1,
           f.kind \in FunctionCalls \cup {"ctor"} =>
              IsCallName(name) /\ name \in DOMAIN tables' /\ tables'[name] = f.act
    PROVE  StackInv'
<1> DEFINE n == Len(frames)
           d == Len(scopeStack)
<1>1. /\ n \in Nat /\ d \in Nat /\ acts \in Nat
      /\ DOMAIN frames = 1..n /\ DOMAIN scopeStack = 1..d
  BY DEF StackInv
<1>2. /\ frames' \in Seq(Frames) /\ DOMAIN frames' = 1..n+1
      /\ frames'[n+1] = f /\ \A i \in 1..n : frames'[i] = frames[i]
  BY <1>1 DEF StackInv
<1>3. /\ scopeStack' \in Seq(Names) /\ DOMAIN scopeStack' = 1..d+1
      /\ scopeStack'[d+1] = name /\ \A i \in 1..d : scopeStack'[i] = scopeStack[i]
  BY <1>1 DEF StackInv
<1>4. \A i \in DOMAIN frames' : i # n+1 /\ Scoped(i)' =>
            i \in 1..n /\ Scoped(i) /\ ScopeKept(i) /\ frames[i].base \in 1..d
  BY <1>1, <1>2 DEF Scoped, StackInv, LiveScopesKept, ScopeKept
<1>5. LiveScopesKept'
  <2>1. ASSUME NEW i \in DOMAIN frames', Scoped(i)' PROVE ScopeKept(i)'
    <3>1. CASE i = n+1
      BY <1>1, <1>2, <1>3, <3>1 DEF ScopeKept
    <3>2. CASE i # n+1
      BY <1>1, <1>2, <1>3, <1>4, <2>1, <3>2 DEF ScopeKept
    <3> QED BY <3>1, <3>2
  <2>2. ASSUME NEW i \in DOMAIN frames', NEW j \in DOMAIN frames',
               i < j, Scoped(i)', Scoped(j)'
        PROVE  frames'[i].base < frames'[j].base
    <3>1. i \in 1..n
      BY <1>1, <1>2, <2>2
    <3>2. CASE j = n+1
      BY <1>1, <1>2, <1>4, <2>2, <3>1, <3>2
    <3>3. CASE j # n+1
      BY <1>1, <1>2, <1>4, <2>2, <3>1, <3>3 DEF StackInv, LiveScopesKept
    <3> QED BY <3>2, <3>3
  <2> QED BY <2>1, <2>2 DEF LiveScopesKept
<1>6. \A i \in 1..n : frames[i].kind \in FunctionCalls \cup {"ctor"} =>
            /\ IsCallName(frames[i].own) /\ frames[i].own \in DOMAIN tables'
            /\ frames[i].own # name
            /\ tables'[frames[i].own] = frames[i].act
  <2> SUFFICES ASSUME NEW i \in 1..n, frames[i].kind \in FunctionCalls \cup {"ctor"}
               PROVE  /\ IsCallName(frames[i].own) /\ frames[i].own \in DOMAIN tables'
                      /\ frames[i].own # name
                      /\ tables'[frames[i].own] = frames[i].act
    OBVIOUS
  <2> DEFINE own == frames[i].own
  <2>1. IsCallName(own) /\ own \in DOMAIN tables /\ tables[own] = frames[i].act
    BY <1>1 DEF StackInv, LiveCallsNamed, CallTableIsOwn
  <2>2. own[2] \in Nat /\ own[2] <= acts
    BY <2>1 DEF StackInv, CallNamesFresh, IsCallName
  <2>3. own # name
    BY <1>1, <2>1, <2>2
  <2> QED BY <2>1, <2>3
<1>7. CallTableIsOwn' /\ LiveCallsNamed'
  <2>1. ASSUME NEW i \in DOMAIN frames', frames'[i].kind \in FunctionCalls \cup {"ctor"}
        PROVE  /\ IsCallName(frames'[i].own) /\ frames'[i].own \in DOMAIN tables'
               /\ tables'[frames'[i].own] = frames'[i].act
    <3>1. CASE i = n+1
      BY <1>2, <2>1, <3>1
    <3>2. CASE i # n+1
      BY <1>1, <1>2, <1>6, <2>1, <3>2
    <3> QED BY <3>1, <3>2
  <2> QED BY <2>1 DEF CallTableIsOwn, LiveCallsNamed
<1>8. CallNamesFresh'
  <2>1. \A k \in DOMAIN tables' : IsCallName(k) => k[2] <= acts + 1
    <3> SUFFICES ASSUME NEW k \in DOMAIN tables', IsCallName(k) PROVE k[2] <= acts + 1
      OBVIOUS
    <3>1. CASE k = name
      BY <1>1, <3>1
    <3>2. CASE k # name
      <4>1. k \in DOMAIN tables /\ k[2] \in Nat
        BY <3>2 DEF IsCallName
      <4> QED BY <1>1, <4>1 DEF StackInv, CallNamesFresh
    <3> QED BY <3>1, <3>2
  <2>2. \A i \in 1..d : IsCallName(scopeStack[i]) =>
              scopeStack[i][2] \in Nat /\ scopeStack[i][2] <= acts
    BY <1>1 DEF StackInv, CallNamesFresh, IsCallName
  <2>3. \A i \in DOMAIN scopeStack' : IsCallName(scopeStack'[i]) =>
              scopeStack'[i][2] <= acts + 1
    BY <1>1, <1>3, <2>2
  <2>4. ASSUME NEW i \in DOMAIN scopeStack', NEW j \in DOMAIN scopeStack',
               scopeStack'[i] = scopeStack'[j], IsCallName(scopeStack'[i])
        PROVE  i = j
    <3>1. CASE i \in 1..d /\ j \in 1..d
      BY <1>1, <1>3, <2>4, <3>1 DEF StackInv, CallNamesFresh
    <3>2. CASE i = d+1 /\ j = d+1
      BY <3>2
    <3>3. CASE i = d+1 /\ j \in 1..d
      BY <1>1, <1>3, <2>2, <2>4, <3>3
    <3>4. CASE i \in 1..d /\ j = d+1
      BY <1>1, <1>3, <2>2, <2>4, <3>4
    <3> QED BY <1>1, <1>3, <3>1, <3>2, <3>3, <3>4
  <2> QED BY <2>1, <2>3, <2>4 DEF CallNamesFresh
<1>9. CallersBelow'
  <2>1. d >= 1
    BY <1>1 DEF StackInv, CallersBelow
  <2>2. scopeStack' # <<>>
    BY <1>1, <1>3
  <2>3. ASSUME NEW i \in DOMAIN frames', Scoped(i)' PROVE frames'[i].base >= 2
    <3>1. CASE i = n+1
      BY <1>1, <1>2, <2>1, <3>1
    <3>2. CASE i # n+1
      BY <1>1, <1>2, <1>4, <2>3, <3>2 DEF StackInv, CallersBelow
    <3> QED BY <3>1, <3>2
  <2> QED BY <2>2, <2>3 DEF CallersBelow
<1>10. \A k \in DOMAIN tables' : k \in Names /\ tables'[k] \in Nat
  BY <1>1 DEF StackInv
<1>11. acts' \in Nat
  BY <1>1
<1> QED BY <1>2, <1>3, <1>5, <1>7, <1>8, <1>9, <1>10, <1>11 DEF StackInv

-----------------------------------------------------------------------------
\* What has no scope may come and go.
LEMMA BlocksKeep ==
    ASSUME StackInv, UNCHANGED <<scopeStack, tables, acts>>,
           frames' \in Seq(Frames),
           \A i \in DOMAIN frames' : frames'[i].kind \in ScopedKinds =>
              i \in DOMAIN frames /\ frames'[i] = frames[i]
    PROVE  StackInv'
<1>1. \A i \in DOMAIN frames' : Scoped(i)' => Scoped(i) /\ frames'[i] = frames[i]
  BY DEF Scoped
<1>2. LiveScopesKept'
  <2>1. ASSUME NEW i \in DOMAIN frames', Scoped(i)' PROVE ScopeKept(i)'
    <3>1. ScopeKept(i)
      BY <1>1, <2>1 DEF StackInv, LiveScopesKept, Scoped
    <3> QED BY <1>1, <2>1, <3>1 DEF ScopeKept
  <2>2. ASSUME NEW i \in DOMAIN frames', NEW j \in DOMAIN frames',
               i < j, Scoped(i)', Scoped(j)'
        PROVE  frames'[i].base < frames'[j].base
    BY <1>1, <2>2 DEF StackInv, LiveScopesKept, Scoped
  <2> QED BY <2>1, <2>2 DEF LiveScopesKept
<1>3. CallTableIsOwn' /\ LiveCallsNamed'
  <2>1. \A i \in DOMAIN frames' : frames'[i].kind \in FunctionCalls \cup {"ctor"} =>
              i \in DOMAIN frames /\ frames'[i] = frames[i]
    BY DEF ScopedKinds, BodyKinds
  <2>2. tables' = tables
    OBVIOUS
  <2>3. CallTableIsOwn'
    BY <2>1, <2>2 DEF StackInv, CallTableIsOwn
  <2>4. LiveCallsNamed'
    BY <2>1, <2>2 DEF StackInv, LiveCallsNamed
  <2> QED BY <2>3, <2>4
<1>4. CallNamesFresh'
  BY DEF StackInv, CallNamesFresh
<1>5. CallersBelow'
  <2>1. scopeStack' # <<>>
    BY DEF StackInv, CallersBelow
  <2>2. \A i \in DOMAIN frames' : Scoped(i)' => frames'[i].base >= 2
    BY <1>1 DEF StackInv, CallersBelow, Scoped
  <2> QED BY <2>1, <2>2 DEF CallersBelow
<1> QED BY <1>2, <1>3, <1>4, <1>5 DEF StackInv

\* In particular a step that touches neither stack keeps the invariant.
LEMMA StillKeeps ==
    ASSUME StackInv, UNCHANGED <<frames, scopeStack, tables, acts>>
    PROVE  StackInv'
BY BlocksKeep DEF StackInv

-----------------------------------------------------------------------------
\* The constructs that enter a scope.
LEMMA EnterKeeps ==
    ASSUME StackInv, NEW kind \in ScopedKinds, NEW name \in Names,
           EnterScope(kind, name),
           tables' = tables \/ Create(name),
           IsCallName(name) => name[2] = acts + 1,
           kind \in FunctionCalls \cup {"ctor"} => IsCallName(name) /\ Create(name)
    PROVE  StackInv'
<1> DEFINE f == [kind |-> kind, own |-> name, base |-> Len(scopeStack) + 1, act |-> acts + 1]
<1>1. acts \in Nat /\ Len(scopeStack) \in Nat
  BY DEF StackInv
<1>2. f \in Frames
  BY <1>1 DEF Frames
<1>3. /\ frames' = Append(frames, f) /\ scopeStack' = Append(scopeStack, name)
      /\ acts' = acts + 1
  BY DEF EnterScope, PushFrame
<1>4. ASSUME Create(name)
      PROVE  /\ DOMAIN tables' = DOMAIN tables \cup {name}
             /\ tables'[name] = acts + 1
             /\ \A k \in DOMAIN tables : k # name => tables'[k] = tables[k]
  BY <1>4 DEF Create
<1>5. f.own = name /\ f.base = Len(scopeStack) + 1 /\ f.kind = kind /\ f.act = acts + 1
  OBVIOUS
<1>6. \/ tables' = tables
      \/ /\ DOMAIN tables' = DOMAIN tables \cup {name}
         /\ tables'[name] = acts + 1
         /\ \A k \in DOMAIN tables : k # name => tables'[k] = tables[k]
  BY <1>4
<1>7. kind \in FunctionCalls \cup {"ctor"} =>
          IsCallName(name) /\ name \in DOMAIN tables' /\ tables'[name] = f.act
  BY <1>4, <1>5
<1> HIDE DEF f
<1> QED BY <1>2, <1>3, <1>5, <1>6, <1>7, GrowKeeps

LEMMA ExecuteKeeps ==
    ASSUME StackInv, Execute
    PROVE  StackInv'
<1>0. acts \in Nat
  BY DEF StackInv
<1>1. ASSUME NEW kind \in FunctionCalls, CallFunction(kind) PROVE StackInv'
  <2>1. CallScopeName \in Names /\ IsCallName(CallScopeName) /\ CallScopeName[2] = acts + 1
    BY <1>0 DEF CallScopeName, Names, Segments, IsCallName
  <2>2. kind \in ScopedKinds
    BY DEF ScopedKinds, BodyKinds
  <2> QED BY <1>1, <2>1, <2>2, EnterKeeps DEF CallFunction
<1>2. ASSUME NEW o \in Objects, CallMethod(o) PROVE StackInv'
  <2>1. <<Method>> \in Names /\ ~IsCallName(<<Method>>)
    BY DEF Names, Segments, IsCallName
  <2>2. "method" \in ScopedKinds /\ "method" \notin FunctionCalls \cup {"ctor"}
    BY DEF ScopedKinds, BodyKinds, FunctionCalls
  <2> QED BY <1>2, <2>1, <2>2, EnterKeeps DEF CallMethod
<1>3. ASSUME NEW o \in Objects, ConstructObject(o) PROVE StackInv'
  <2> DEFINE name == <<Construct, acts + 1>>
  <2>1. name \in Names /\ IsCallName(name) /\ name[2] = acts + 1
    BY <1>0 DEF Names, Segments, IsCallName
  <2>2. "ctor" \in ScopedKinds
    BY DEF ScopedKinds, BodyKinds
  <2>3. EnterScope("ctor", name) /\ Create(name)
    BY <1>3 DEF ConstructObject
  <2> HIDE DEF name
  <2> QED BY <2>1, <2>2, <2>3, EnterKeeps
<1>4. ASSUME NEW site \in Sites, EnterLoop(site) PROVE StackInv'
  <2> DEFINE name == Append(CurrentScope(scopeStack), site)
  <2>1. CurrentScope(scopeStack) \in Names
    <3>1. Len(scopeStack) \in 1..Len(scopeStack)
      BY EmptySeq DEF StackInv, CallersBelow
    <3> QED BY <3>1, ElementOfSeq DEF StackInv, CurrentScope
  <2>2. name \in Names /\ name[Len(name)] = site
    BY <2>1 DEF Names, Segments
  <2>3. ~IsCallName(name)
    BY <2>2, UnwindAssumption DEF IsCallName
  <2>4. EnterScope("loop", name) /\ (tables' = tables \/ Create(name))
    BY <1>4 DEF EnterLoop
  <2>5. "loop" \in ScopedKinds /\ "loop" \notin FunctionCalls \cup {"ctor"}
    BY DEF ScopedKinds, BodyKinds, FunctionCalls
  <2> HIDE DEF name
  <2> QED BY <2>2, <2>3, <2>4, <2>5, EnterKeeps
<1>5. ASSUME NEW kind \in BlockKinds, EnterBlock(kind) PROVE StackInv'
  <2> DEFINE f == [kind |-> kind, own |-> <<>>, base |-> 0, act |-> 0]
  <2>1. f \in Frames /\ f.kind \notin ScopedKinds
    BY DEF Frames, Names, BlockKinds, ScopedKinds, BodyKinds, FunctionCalls
  <2>2. frames' = Append(frames, f) /\ UNCHANGED <<scopeStack, tables, acts>>
    BY <1>5 DEF EnterBlock, PushFrame
  <2> HIDE DEF f
  <2>3. frames' \in Seq(Frames)
    BY <2>1, <2>2 DEF StackInv
  <2>4. ASSUME NEW i \in DOMAIN frames', frames'[i].kind \in ScopedKinds
        PROVE  i \in DOMAIN frames /\ frames'[i] = frames[i]
    BY <2>1, <2>2, <2>4 DEF StackInv
  <2> QED BY <2>2, <2>3, <2>4, BlocksKeep
<1>6. CASE \/ \E o \in Objects : RejectMethodCall(o) \/ CallPredicate(o)
           \/ MethodTooDeep \/ CallNative \/ \E s \in Signals : Raise(s)
  BY <1>6, StillKeeps DEF RejectMethodCall, CallPredicate, MethodTooDeep, CallNative, Raise
<1> QED BY <1>1, <1>2, <1>3, <1>4, <1>5, <1>6 DEF Execute

-----------------------------------------------------------------------------
\* The three ways the nodes leave the scope stack when a frame goes.
LEMMA KeepIsCut ==
    ASSUME StackInv, frames # <<>>, frames' = Callers,
           UNCHANGED <<scopeStack, tables, acts>>
    PROVE  StackInv'
<1> DEFINE m == Len(scopeStack)
<1>1. /\ m \in 1..m /\ SubSeq(scopeStack, 1, m) = scopeStack
      /\ Len(frames) \in Nat /\ DOMAIN scopeStack = 1..m
  BY EmptySeq, SubSeqFull DEF StackInv, CallersBelow
<1>2. \A i \in 1..Len(frames) - 1 : Scoped(i) => frames[i].base <= m
  BY <1>1 DEF StackInv, LiveScopesKept, Scoped, ScopeKept
<1> HIDE DEF m
<1> QED BY <1>1, <1>2, CutKeeps DEF CutTo, m

LEMMA PopKeeps ==
    ASSUME StackInv, frames # <<>>, frames' = Callers, TopFrame.kind \in ScopedKinds,
           PopScope, UNCHANGED <<tables, acts>>
    PROVE  StackInv'
<1> DEFINE n == Len(frames)
<1>1. /\ n \in Nat \ {0} /\ DOMAIN frames = 1..n
      /\ DOMAIN scopeStack = 1..Len(scopeStack) /\ Len(scopeStack) \in Nat
      /\ scopeStack \in Seq(Names) /\ scopeStack # <<>>
  BY EmptySeq DEF StackInv, CallersBelow
<1>2. PICK m \in 1..Len(scopeStack) :
          scopeStack' = SubSeq(scopeStack, 1, m) /\ m >= Len(scopeStack) - 1
  BY <1>1, PopIsCut DEF PopScope
<1>3. Scoped(n) /\ ScopeKept(n)
  BY <1>1 DEF Scoped, TopFrame, StackInv, LiveScopesKept
<1>4. \A i \in 1..n - 1 : Scoped(i) => frames[i].base <= m
  <2> SUFFICES ASSUME NEW i \in 1..n - 1, Scoped(i) PROVE frames[i].base <= m
    OBVIOUS
  <2>1. frames[i].base < frames[n].base
    BY <1>1, <1>3 DEF StackInv, LiveScopesKept
  <2>2. frames[i].base \in 1..Len(scopeStack) /\ frames[n].base \in 1..Len(scopeStack)
    BY <1>1, <1>3 DEF StackInv, LiveScopesKept, ScopeKept
  <2> QED BY <1>1, <1>2, <2>1, <2>2
<1>5. CutTo(m)
  BY <1>2, <1>4 DEF CutTo
<1> QED BY <1>5, CutKeeps

LEMMA ValidatedCut ==
    ASSUME StackInv, frames # <<>>, TopFrame.kind \in {"callExpr", "callback"}
    PROVE  /\ TopFrame.base - 1 \in 1..Len(scopeStack)
           /\ \A i \in 1..Len(frames) - 1 : Scoped(i) => frames[i].base <= TopFrame.base - 1
           /\ LeaveCallScope(scopeStack, TopFrame.own) = SubSeq(scopeStack, 1, TopFrame.base - 1)
<1> DEFINE n == Len(frames)
           b == TopFrame.base
<1>1. /\ n \in Nat \ {0} /\ DOMAIN frames = 1..n
      /\ DOMAIN scopeStack = 1..Len(scopeStack) /\ Len(scopeStack) \in Nat
      /\ scopeStack \in Seq(Names)
  BY EmptySeq DEF StackInv
<1>2. /\ Scoped(n) /\ TopFrame = frames[n]
      /\ TopFrame.kind \in FunctionCalls \cup {"ctor"}
  BY <1>1 DEF Scoped, TopFrame, ScopedKinds, BodyKinds, FunctionCalls
<1>3. b \in DOMAIN scopeStack /\ scopeStack[b] = TopFrame.own /\ b >= 2
  BY <1>1, <1>2 DEF StackInv, LiveScopesKept, ScopeKept, CallersBelow
<1>4. IsCallName(TopFrame.own)
  BY <1>1, <1>2 DEF StackInv, LiveCallsNamed
<1>5. \A i \in DOMAIN scopeStack : scopeStack[i] = scopeStack[b] => i = b
  BY <1>3, <1>4 DEF StackInv, CallNamesFresh
<1>6. LeaveCallScope(scopeStack, scopeStack[b]) = SubSeq(scopeStack, 1, b - 1)
  BY <1>1, <1>3, <1>5, ValidatedLeave
<1>7. \A i \in 1..n - 1 : Scoped(i) => frames[i].base <= b - 1
  <2> SUFFICES ASSUME NEW i \in 1..n - 1, Scoped(i) PROVE frames[i].base <= b - 1
    OBVIOUS
  <2>1. frames[i].base < b
    BY <1>1, <1>2 DEF StackInv, LiveScopesKept
  <2>2. frames[i].base \in 1..Len(scopeStack)
    BY <1>1 DEF StackInv, LiveScopesKept, ScopeKept
  <2> QED BY <1>1, <1>3, <2>1, <2>2
<1>8. b - 1 \in 1..Len(scopeStack)
  BY <1>1, <1>3
<1> QED BY <1>3, <1>6, <1>7, <1>8

LEMMA RecoverKeeps ==
    ASSUME StackInv, frames # <<>>, frames' = Callers,
           TopFrame.kind \in {"callExpr", "callback"},
           scopeStack' = LeaveCallScope(scopeStack, TopFrame.own),
           UNCHANGED <<tables, acts>>
    PROVE  StackInv'
<1>1. CutTo(TopFrame.base - 1) /\ TopFrame.base - 1 \in 1..Len(scopeStack)
  BY ValidatedCut DEF CutTo
<1> QED BY <1>1, CutKeeps

LEMMA LeaveOrUnwindKeeps ==
    ASSUME StackInv, LeaveOrUnwind
    PROVE  StackInv'
<1> USE DEF Leave, Pass, Raised
<1>1. {"callStmt", "callExpr", "callback", "method", "ctor", "loop"} \subseteq ScopedKinds
  BY DEF ScopedKinds, BodyKinds, FunctionCalls
<1>2. CASE LeaveCallStatement
  BY <1>1, <1>2, PopKeeps DEF LeaveCallStatement
<1>3. CASE LeaveCallExpression
  BY <1>3, RecoverKeeps DEF LeaveCallExpression
<1>4. CASE LeaveCallback
  BY <1>4, RecoverKeeps DEF LeaveCallback
<1>5. CASE \E kind \in {"method", "ctor"} : LeaveMethod(kind)
  BY <1>1, <1>5, PopKeeps DEF LeaveMethod
<1>6. CASE LeaveLoop
  BY <1>1, <1>6, PopKeeps DEF LeaveLoop
<1>7. CASE LeaveBlock
  BY <1>7, KeepIsCut DEF LeaveBlock
<1>8. CASE LeaveFile
  BY <1>8, KeepIsCut DEF LeaveFile
<1>9. CASE ContinueLoop
  BY <1>9, StillKeeps DEF ContinueLoop
<1>10. CASE CatchException
  <2> DEFINE n == Len(frames)
             f == [TopFrame EXCEPT !.kind = "catch"]
  <2>1. n \in Nat \ {0} /\ DOMAIN frames = 1..n /\ n - 1 \in 0..n
    BY <1>10, EmptySeq DEF StackInv, CatchException
  <2>2. f \in Frames /\ f.kind \notin ScopedKinds
    <3>1. TopFrame \in Frames
      BY <2>1, ElementOfSeq DEF StackInv, TopFrame
    <3>2. f.kind = "catch" /\ f \in Frames
      BY <3>1 DEF Frames
    <3> QED BY <3>2 DEF ScopedKinds, BodyKinds, FunctionCalls
  <2>3. /\ Callers \in Seq(Frames) /\ Len(Callers) = n - 1
        /\ \A i \in 1..n - 1 : Callers[i] = frames[i]
    BY <2>1, Prefix DEF StackInv, Callers
  <2>4. frames' = Append(Callers, f) /\ UNCHANGED <<scopeStack, tables, acts>>
    BY <1>10 DEF CatchException
  <2> HIDE DEF f
  <2>5. frames' \in Seq(Frames) /\ DOMAIN frames' = 1..n /\ frames'[n] = f
        /\ \A i \in 1..n - 1 : frames'[i] = frames[i]
    <3>1. /\ Append(Callers, f) \in Seq(Frames)
          /\ DOMAIN Append(Callers, f) = 1..Len(Callers) + 1
          /\ Append(Callers, f)[Len(Callers) + 1] = f
          /\ \A i \in 1..Len(Callers) : Append(Callers, f)[i] = Callers[i]
      BY <2>2, <2>3, Appended
    <3>2. Len(Callers) + 1 = n
      BY <2>1, <2>3
    <3> QED BY <2>3, <2>4, <3>1, <3>2
  <2>6. ASSUME NEW i \in DOMAIN frames', frames'[i].kind \in ScopedKinds
        PROVE  i \in DOMAIN frames /\ frames'[i] = frames[i]
    BY <2>1, <2>2, <2>5, <2>6
  <2> QED BY <2>4, <2>5, <2>6, BlocksKeep
<1>11. CASE PassBlock
  BY <1>11, KeepIsCut DEF PassBlock
<1>12. CASE ReturnThroughLoop
  BY <1>12, KeepIsCut DEF ReturnThroughLoop
<1>13. CASE ThrowThroughScope
  BY <1>1, <1>13, PopKeeps DEF ThrowThroughScope
<1>14. CASE ThrowThroughCallStatement
  BY <1>14, KeepIsCut DEF ThrowThroughCallStatement
<1>15. CASE ThrowThroughCallExpression
  BY <1>15, KeepIsCut DEF ThrowThroughCallExpression
<1>16. CASE ThrowThroughCallback
  BY <1>16, KeepIsCut DEF ThrowThroughCallback
<1> QED BY <1>2, <1>3, <1>4, <1>5, <1>6, <1>7, <1>8, <1>9, <1>10, <1>11, <1>12,
           <1>13, <1>14, <1>15, <1>16 DEF LeaveOrUnwind

-----------------------------------------------------------------------------
\* The exception in flight, its origin and thisObject_ keep their types.
LEMMA SignalKeeps ==
    ASSUME SignalInv, [Next]_vars
    PROVE  SignalInv'
<1>1. Signals = {"return", "break", "continue", "throw", "error"}
  BY DEF Signals
<1>2. CASE Execute
  <2>1. CASE \E kind \in FunctionCalls : CallFunction(kind)
    BY <2>1 DEF SignalInv, CallFunction, EnterScope
  <2>2. CASE \E o \in Objects : CallMethod(o) \/ ConstructObject(o)
    BY <2>2 DEF SignalInv, CallMethod, ConstructObject, EnterScope
  <2>3. CASE \E o \in Objects : RejectMethodCall(o) \/ CallPredicate(o)
    BY <1>1, <2>3 DEF SignalInv, RejectMethodCall, CallPredicate
  <2>4. CASE \E site \in Sites : EnterLoop(site)
    BY <2>4 DEF SignalInv, EnterLoop, EnterScope
  <2>5. CASE \E kind \in BlockKinds : EnterBlock(kind)
    BY <2>5 DEF SignalInv, EnterBlock
  <2>6. CASE MethodTooDeep \/ CallNative
    BY <1>1, <2>6 DEF SignalInv, MethodTooDeep, CallNative
  <2>7. CASE \E s \in Signals : Raise(s)
    BY <1>1, <2>7 DEF SignalInv, Raise
  <2> QED BY <1>2, <2>1, <2>2, <2>3, <2>4, <2>5, <2>6, <2>7 DEF Execute
<1>3. CASE LeaveOrUnwind
  <2>1. CASE \/ LeaveCallStatement \/ LeaveCallExpression \/ LeaveCallback
             \/ LeaveLoop \/ LeaveBlock \/ LeaveFile
    BY <1>1, <2>1 DEF SignalInv, Leave, LeaveCallStatement, LeaveCallExpression,
                      LeaveCallback, LeaveLoop, LeaveBlock, LeaveFile
  <2>2. CASE \E kind \in {"method", "ctor"} : LeaveMethod(kind)
    BY <1>1, <2>2 DEF SignalInv, Leave, LeaveMethod
  <2>3. CASE ContinueLoop \/ CatchException
    BY <1>1, <2>3 DEF SignalInv, ContinueLoop, CatchException
  <2>4. CASE PassBlock \/ ReturnThroughLoop \/ ThrowThroughScope \/ ThrowThroughCallStatement
    BY <2>4 DEF SignalInv, Pass, PassBlock, ReturnThroughLoop, ThrowThroughScope,
                ThrowThroughCallStatement
  <2>5. CASE ThrowThroughCallExpression \/ ThrowThroughCallback
    BY <1>1, <2>5 DEF SignalInv, Pass, Raised, ThrowThroughCallExpression, ThrowThroughCallback
  <2> QED BY <1>3, <2>1, <2>2, <2>3, <2>4, <2>5 DEF LeaveOrUnwind
<1>4. CASE Finished \/ UNCHANGED vars
  BY <1>4 DEF SignalInv, Finished, vars
<1> QED BY <1>2, <1>3, <1>4 DEF Next

LEMMA InitIInv == Init => IInv
<1> SUFFICES ASSUME Init PROVE IInv
  OBVIOUS
<1>1. SignalInv
  BY DEF Init, SignalInv
<1>2. /\ <<File>> \in Names /\ ~IsCallName(<<File>>)
      /\ "file" \in ScopedKinds /\ "file" \notin FunctionCalls \cup {"ctor"}
  BY DEF Names, Segments, IsCallName, ScopedKinds, BodyKinds, FunctionCalls
<1>3. /\ frames \in Seq(Frames) /\ DOMAIN frames = {1}
      /\ frames[1].kind = "file" /\ frames[1].own = <<File>> /\ frames[1].base = 2
  BY <1>2 DEF Init, Frames
<1>4. /\ scopeStack \in Seq(Names) /\ DOMAIN scopeStack = 1..2 /\ scopeStack # <<>>
      /\ \A i \in 1..2 : scopeStack[i] = <<File>>
  BY <1>2 DEF Init
<1>5. acts = 0 /\ DOMAIN tables = {<<File>>} /\ tables[<<File>>] = 0
  BY DEF Init
<1>6. LiveScopesKept
  BY <1>3, <1>4 DEF LiveScopesKept, Scoped, ScopeKept
<1>7. CallTableIsOwn /\ LiveCallsNamed
  BY <1>2, <1>3 DEF CallTableIsOwn, LiveCallsNamed
<1>8. CallNamesFresh
  BY <1>2, <1>4, <1>5 DEF CallNamesFresh
<1>9. CallersBelow
  BY <1>3, <1>4 DEF CallersBelow
<1>10. StackInv
  BY <1>2, <1>3, <1>4, <1>5, <1>6, <1>7, <1>8, <1>9 DEF StackInv
<1> QED BY <1>1, <1>10, Split

LEMMA NextIInv == IInv /\ [Next]_vars => IInv'
<1> SUFFICES ASSUME IInv, [Next]_vars PROVE IInv'
  OBVIOUS
<1>1. StackInv /\ SignalInv
  BY Split
<1>2. StackInv'
  <2>1. CASE Execute
    BY <1>1, <2>1, ExecuteKeeps
  <2>2. CASE LeaveOrUnwind
    BY <1>1, <2>2, LeaveOrUnwindKeeps
  <2>3. CASE Finished \/ UNCHANGED vars
    BY <1>1, <2>3, StillKeeps DEF Finished, vars
  <2> QED BY <2>1, <2>2, <2>3 DEF Next
<1>3. SignalInv'
  BY <1>1, SignalKeeps
<1> QED BY <1>2, <1>3 DEF IInv, StackInv, SignalInv, TypeOK

\* The inductive invariant holds throughout every run of every script.
THEOREM Inductive == Spec => []IInv
BY InitIInv, NextIInv, PTL DEF Spec

\* Every variable keeps its type.
THEOREM TypeCorrect == Spec => []TypeOK
<1>1. IInv => TypeOK
  BY DEF IInv
<1> QED BY <1>1, Inductive, PTL

\* No construct loses its own scope while it runs, however the constructs
\* inside it were left: the pops of all the nodes add up.
THEOREM ScopesKept == Spec => []LiveScopesKept
<1>1. IInv => LiveScopesKept
  BY DEF IInv
<1> QED BY <1>1, Inductive, PTL

\* The variables of a function or constructor call are not replaced by
\* another call's while it lasts.
THEOREM TablesOwned == Spec => []CallTableIsOwn
<1>1. IInv => CallTableIsOwn
  BY DEF IInv
<1> QED BY <1>1, Inductive, PTL

\* A call in an expression, or from array_map and its kin, leaves the scope
\* stack as it found it, whatever was left behind inside.
THEOREM RecoveryExact == Spec => RecoveringCallRestores
<1>1. ASSUME IInv, [Next]_vars, Len(frames') < Len(frames),
             TopFrame.kind \in {"callExpr", "callback"}, sig \in {"none", "return"}
      PROVE  scopeStack' = SubSeq(scopeStack, 1, TopFrame.base - 1)
  <2>1. StackInv
    BY <1>1, Split
  <2>2. Len(frames) \in Nat /\ frames \in Seq(Frames)
    BY <2>1 DEF StackInv
  <2>3. ~Execute
    <3>1. ASSUME NEW kind, NEW name, NEW base, NEW act, PushFrame(kind, name, base, act)
          PROVE  FALSE
      <4>1. Len(frames') = Len(frames) + 1
        BY <2>2, <3>1, LenOfAppend DEF PushFrame
      <4> QED BY <1>1, <2>2, <4>1
    <3>2. ASSUME UNCHANGED frames
          PROVE  FALSE
      BY <1>1, <2>2, <3>2
    <3>3. ~\E kind \in FunctionCalls : CallFunction(kind)
      BY <3>1 DEF CallFunction, EnterScope
    <3>4. ~\E o \in Objects : CallMethod(o) \/ ConstructObject(o)
      BY <3>1 DEF CallMethod, ConstructObject, EnterScope
    <3>5. ~\E site \in Sites : EnterLoop(site)
      BY <3>1 DEF EnterLoop, EnterScope
    <3>6. ~\E kind \in BlockKinds : EnterBlock(kind)
      BY <3>1 DEF EnterBlock
    <3>7. ~\E o \in Objects : RejectMethodCall(o) \/ CallPredicate(o)
      BY <3>2 DEF RejectMethodCall, CallPredicate
    <3>8. ~(MethodTooDeep \/ CallNative \/ \E s \in Signals : Raise(s))
      BY <3>2 DEF MethodTooDeep, CallNative, Raise
    <3> QED BY <3>3, <3>4, <3>5, <3>6, <3>7, <3>8 DEF Execute
  <2>4. ~(Finished \/ UNCHANGED vars)
    BY <1>1, <2>2 DEF Finished, vars
  <2>5. LeaveCallExpression \/ LeaveCallback
    BY <1>1, <2>2, <2>3, <2>4 DEF Next, LeaveOrUnwind, LeaveCallStatement, LeaveMethod,
       LeaveLoop, LeaveBlock, LeaveFile, Leave, ContinueLoop, CatchException, PassBlock,
       ReturnThroughLoop, ThrowThroughScope, ThrowThroughCallStatement,
       ThrowThroughCallExpression, ThrowThroughCallback
  <2>6. frames # <<>> /\ scopeStack' = LeaveCallScope(scopeStack, TopFrame.own)
    BY <2>5 DEF LeaveCallExpression, LeaveCallback, Leave
  <2> QED BY <1>1, <2>1, <2>6, ValidatedCut
<1>2. IInv /\ [Next]_vars =>
        [/\ Len(frames') < Len(frames) /\ TopFrame.kind \in {"callExpr", "callback"}
         /\ sig \in {"none", "return"}
         => scopeStack' = SubSeq(scopeStack, 1, TopFrame.base - 1)]_vars
  BY <1>1
<1> QED BY <1>2, Inductive, PTL DEF Spec, RecoveringCallRestores

-----------------------------------------------------------------------------
\* No handler on the way absorbs a break, a continue or a return, whatever the
\* constructs: each exception in flight is ended by one action of its own.
THEOREM ControlReachesTarget == Spec => ControlFlowReachesTarget
<1>1. ASSUME [Next]_vars, sig \in {"break", "continue", "return"}, sig' # sig
      PROVE  /\ sig = "break" => frames' = Callers /\ TopFrame.kind \in {"loop", "switch"}
             /\ sig = "continue" => frames' = frames /\ TopFrame.kind = "loop"
             /\ sig = "return" => frames' = Callers /\ TopFrame.kind \in BodyKinds
  <2> USE <1>1 DEF BodyKinds, FunctionCalls
  <2>1. ~Execute
    BY DEF Execute, CallFunction, CallMethod, ConstructObject, RejectMethodCall, CallPredicate,
           EnterLoop, EnterBlock, EnterScope, MethodTooDeep, CallNative, Raise, Running
  <2>2. CASE LeaveCallStatement \/ LeaveCallExpression \/ LeaveCallback \/ LeaveLoop
    BY <2>2 DEF LeaveCallStatement, LeaveCallExpression, LeaveCallback, LeaveLoop, Leave
  <2>3. CASE (\E kind \in {"method", "ctor"} : LeaveMethod(kind)) \/ LeaveBlock \/ LeaveFile
    BY <2>3 DEF LeaveMethod, LeaveBlock, LeaveFile, Leave
  <2>4. CASE ContinueLoop \/ CatchException
    BY <2>4 DEF ContinueLoop, CatchException
  <2>5. CASE \/ PassBlock \/ ReturnThroughLoop \/ ThrowThroughScope
             \/ ThrowThroughCallStatement \/ ThrowThroughCallExpression \/ ThrowThroughCallback
    BY <2>5 DEF PassBlock, ReturnThroughLoop, ThrowThroughScope, ThrowThroughCallStatement,
                ThrowThroughCallExpression, ThrowThroughCallback
  <2>6. ~(Finished \/ UNCHANGED vars)
    BY DEF Finished, vars
  <2> QED BY <2>1, <2>2, <2>3, <2>4, <2>5, <2>6 DEF Next, LeaveOrUnwind
<1>2. [Next]_vars =>
        [/\ sig = "break" /\ sig' # "break" =>
              frames' = Callers /\ TopFrame.kind \in {"loop", "switch"}
         /\ sig = "continue" /\ sig' # "continue" =>
              frames' = frames /\ TopFrame.kind = "loop"
         /\ sig = "return" /\ sig' # "return" =>
              frames' = Callers /\ TopFrame.kind \in BodyKinds]_vars
  BY <1>1
<1> QED BY <1>2, PTL DEF Spec, ControlFlowReachesTarget

-----------------------------------------------------------------------------
(***************************************************************************)
(* The scripts whose scope stack is exact.  A `try' keeps the scopes of    *)
(* the calls that the exception unwound, the default of a property too;    *)
(* a `return' from a loop leaves the loop's scope behind, which only a     *)
(* call that validates, or the end of the script, clears away.             *)
(***************************************************************************)
Disciplined == /\ Constructs \cap {"try", "propInit"} = {}
               /\ LoopReturns \cap {"callStmt", "method", "ctor"} = {}

\* Every construct being executed is one of those, the file's is the outermost.
FramesSound ==
    \A i \in DOMAIN frames : /\ frames[i].kind \notin {"try", "catch", "propInit"}
                             /\ (frames[i].kind = "file") = (i = 1)

\* b is the body that the construct at i belongs to.
InnerBody(b, i) == /\ b \in 1..i /\ frames[b].kind \in BodyKinds
                   /\ \A j \in b+1..i : frames[j].kind \notin BodyKinds
BodiesFound == \A i \in DOMAIN frames : \E b \in 1..i : InnerBody(b, i)

\* A position of the scope stack holds the scope of a live construct.  All
\* those below a live construct's scope do; at rest all do.
Covered(p) == \E j \in DOMAIN frames : Scoped(j) /\ frames[j].base = p
LiveBelow  == \A i \in DOMAIN frames : Scoped(i) => \A p \in 2..frames[i].base : Covered(p)
NoneLeft   == \A p \in 2..Len(scopeStack) : Covered(p)

\* Loops have scopes of loops, and no other construct has.
OwnKind ==
    /\ \A i \in DOMAIN frames : Scoped(i) =>
          (IsLoopScope(frames[i].own) <=> frames[i].kind = "loop")
    /\ \A p \in DOMAIN scopeStack : scopeStack[p] # <<>>

\* A return on its way to the body at b: it passes loops and switches only, and
\* what it leaves behind are scopes of loops.  Where it does, the body is one
\* whose exit clears them away.
ReturnTo(b) ==
    /\ InnerBody(b, Len(frames))
    /\ \A p \in frames[b].base + 1..Len(scopeStack) : IsLoopScope(scopeStack[p])
    /\ NoneLeft \/ frames[b].kind \in LoopReturns
    /\ frames[b].kind \notin LoopReturns =>
          \A j \in b+1..Len(frames) : frames[j].kind # "loop"

StacksExact == FramesSound /\ BodiesFound /\ LiveBelow /\ OwnKind
SignalExact ==
    frames # <<>> =>
        /\ sig \in {"none", "break", "continue"} => NoneLeft
        /\ sig = "return" => \E b \in DOMAIN frames : ReturnTo(b)
ExactInv == StacksExact /\ SignalExact

\* thisObject_ is set only while a method or constructor runs, or an exception
\* that nothing can catch is in flight.
ThisInv ==
    frames # <<>> /\ sig \notin {"throw", "error"} /\ thisObj # NoObject =>
        \E i \in DOMAIN frames : frames[i].kind \in {"method", "ctor"}

-----------------------------------------------------------------------------
\* What the invariants say of the frames, by their positions.
LEMMA Positions ==
    ASSUME StackInv
    PROVE  /\ Len(frames) \in Nat /\ DOMAIN frames = 1..Len(frames)
           /\ Len(scopeStack) \in Nat \ {0} /\ DOMAIN scopeStack = 1..Len(scopeStack)
           /\ \A i \in DOMAIN frames : Scoped(i) =>
                 frames[i].base \in 2..Len(scopeStack) /\ scopeStack[frames[i].base] = frames[i].own
           /\ \A i, j \in DOMAIN frames :
                 i < j /\ Scoped(i) /\ Scoped(j) => frames[i].base < frames[j].base
BY EmptySeq DEF StackInv, LiveScopesKept, ScopeKept, CallersBelow

\* Where nothing is left behind, the scope on top is that of the innermost
\* construct that has one: no other covers the top position.
LEMMA TopIsOwn ==
    ASSUME StackInv, NoneLeft, frames # <<>>, TopFrame.kind \in ScopedKinds
    PROVE  TopFrame.base = Len(scopeStack)
<1> DEFINE n == Len(frames)
           d == Len(scopeStack)
<1>1. n \in DOMAIN frames /\ Scoped(n) /\ TopFrame = frames[n]
  BY EmptySeq DEF StackInv, Scoped, TopFrame
<1>2. frames[n].base \in 2..d /\ d \in Nat
  BY <1>1, Positions
<1>3. PICK j \in DOMAIN frames : Scoped(j) /\ frames[j].base = d
  BY <1>2 DEF NoneLeft, Covered
<1>4. ~(j < n)
  BY <1>1, <1>2, <1>3, Positions
<1> QED BY <1>1, <1>3, <1>4, Positions

\* Then a plain pop takes exactly that scope.
LEMMA PopIsExact ==
    ASSUME StackInv, NoneLeft, frames # <<>>, TopFrame.kind \in ScopedKinds
    PROVE  EnterPreviousScope(scopeStack) = SubSeq(scopeStack, 1, TopFrame.base - 1)
<1>1. TopFrame.base = Len(scopeStack)
  BY TopIsOwn
<1>2. Len(scopeStack) > 1
  <2>1. Len(frames) \in DOMAIN frames /\ Scoped(Len(frames))
    BY EmptySeq DEF StackInv, Scoped, TopFrame
  <2> QED BY <1>1, <2>1, Positions DEF TopFrame
<1> QED BY <1>1, <1>2 DEF EnterPreviousScope

\* A scope entered where nothing is left behind leaves nothing behind.
LEMMA EnterExact ==
    ASSUME StackInv, StacksExact, NoneLeft, NEW kind \in ScopedKinds \ {"file"}, NEW name \in Names,
           EnterScope(kind, name), name # <<>>, IsLoopScope(name) <=> kind = "loop"
    PROVE  StacksExact' /\ NoneLeft'
<1>0. PICK n, d : n = Len(frames) /\ d = Len(scopeStack)
  OBVIOUS
<1>1. /\ n \in Nat \ {0} /\ d \in Nat \ {0} /\ n = Len(frames) /\ d = Len(scopeStack)
      /\ DOMAIN frames = 1..n /\ DOMAIN scopeStack = 1..d
      /\ frames \in Seq(Frames) /\ scopeStack \in Seq(Names)
  BY <1>0, EmptySeq, Positions DEF EnterScope, Running, StackInv
<1>2. /\ DOMAIN frames' = 1..n+1
      /\ \A i \in 1..n : frames'[i] = frames[i]
      /\ frames'[n+1].kind = kind /\ frames'[n+1].own = name /\ frames'[n+1].base = d+1
      /\ Len(frames') = n+1
  <2> DEFINE f == [kind |-> kind, own |-> name, base |-> d + 1, act |-> acts + 1]
  <2>1. f \in Frames
    BY <1>1 DEF Frames, StackInv
  <2>2. frames' = Append(frames, f)
    BY <1>0 DEF EnterScope, PushFrame
  <2>3. f.kind = kind /\ f.own = name /\ f.base = d + 1
    OBVIOUS
  <2> HIDE DEF f
  <2> QED BY <1>1, <2>1, <2>2, <2>3, Appended
<1>3. /\ Len(scopeStack') = d+1 /\ DOMAIN scopeStack' = 1..d+1
      /\ \A p \in 1..d : scopeStack'[p] = scopeStack[p]
      /\ scopeStack'[d+1] = name
  BY <1>1, Appended DEF EnterScope
<1>4. \A i \in 1..n : Scoped(i)' <=> Scoped(i)
  BY <1>1, <1>2 DEF Scoped
<1>5. Scoped(n+1)'
  BY <1>1, <1>2 DEF Scoped
<1>6. FramesSound'
  <2>1. kind \notin {"try", "catch", "propInit"}
    BY DEF ScopedKinds, BodyKinds, FunctionCalls
  <2>2. ASSUME NEW i \in DOMAIN frames'
        PROVE  /\ frames'[i].kind \notin {"try", "catch", "propInit"}
               /\ (frames'[i].kind = "file") = (i = 1)
    <3>1. CASE i = n+1
      BY <1>1, <1>2, <2>1, <3>1
    <3>2. CASE i \in 1..n
      BY <1>1, <1>2, <3>2 DEF StacksExact, FramesSound
    <3> QED BY <1>1, <1>2, <3>1, <3>2
  <2> QED BY <2>2 DEF FramesSound
<1>7. BodiesFound'
  <2>1. ASSUME NEW i \in 1..n, NEW b \in 1..i, InnerBody(b, i)
        PROVE  InnerBody(b, i)'
    BY <1>1, <1>2, <2>1 DEF InnerBody
  <2>2. \A i \in 1..n : \E b \in 1..i : InnerBody(b, i)'
    BY <1>1, <2>1 DEF StacksExact, BodiesFound
  <2>3. \E b \in 1..n+1 : InnerBody(b, n+1)'
    <3>1. CASE kind \in BodyKinds
      <4>1. InnerBody(n+1, n+1)'
        BY <1>1, <1>2, <3>1 DEF InnerBody
      <4> QED BY <1>1, <4>1
    <3>2. CASE kind \notin BodyKinds
      <4>1. PICK b \in 1..n : InnerBody(b, n)
        BY <1>1 DEF StacksExact, BodiesFound
      <4>2. InnerBody(b, n+1)'
        BY <1>1, <1>2, <3>2, <4>1 DEF InnerBody
      <4> QED BY <1>1, <4>2
    <3> QED BY <3>1, <3>2
  <2>4. \A i \in 1..n+1 : i \in 1..n \/ i = n+1
    BY <1>1
  <2> QED BY <1>2, <2>2, <2>3, <2>4 DEF BodiesFound
<1>8. \A p \in 2..d+1 : Covered(p)'
  <2>1. ASSUME NEW p \in 2..d PROVE Covered(p)'
    <3>1. PICK j \in DOMAIN frames : Scoped(j) /\ frames[j].base = p
      BY <1>0 DEF NoneLeft, Covered
    <3> QED BY <1>1, <1>2, <1>4, <3>1 DEF Covered
  <2>2. Covered(d+1)'
    BY <1>1, <1>2, <1>5 DEF Covered
  <2> QED BY <1>1, <2>1, <2>2
<1>9. NoneLeft'
  BY <1>3, <1>8 DEF NoneLeft
<1>10. LiveBelow'
  <2>1. ASSUME NEW i \in DOMAIN frames', Scoped(i)' PROVE frames'[i].base \in 2..d+1
    <3>1. CASE i = n+1
      BY <1>1, <1>2, <3>1
    <3>2. CASE i \in 1..n
      <4>1. frames[i].base \in 2..d
        BY <1>1, <1>4, <2>1, <3>2, Positions
      <4> QED BY <1>1, <1>2, <3>2, <4>1
    <3> QED BY <1>1, <1>2, <3>1, <3>2
  <2> QED BY <1>1, <1>8, <2>1 DEF LiveBelow
<1>11. OwnKind'
  <2>1. \A i \in DOMAIN frames' : Scoped(i)' =>
            (IsLoopScope(frames'[i].own) <=> frames'[i].kind = "loop")
    BY <1>1, <1>2, <1>4 DEF StacksExact, OwnKind
  <2>2. \A p \in DOMAIN scopeStack' : scopeStack'[p] # <<>>
    BY <1>1, <1>3 DEF StacksExact, OwnKind
  <2> QED BY <2>1, <2>2 DEF OwnKind
<1> QED BY <1>6, <1>7, <1>9, <1>10, <1>11 DEF StacksExact

\* Leaving a construct, whatever becomes of the scope stack: the constructs
\* that stay cover what they covered.
LEMMA CallersExact ==
    ASSUME StackInv, StacksExact, frames # <<>>, frames' = Callers,
           NEW m \in 1..Len(scopeStack), scopeStack' = SubSeq(scopeStack, 1, m)
    PROVE  StacksExact'
<1>0. PICK n : n = Len(frames)
  OBVIOUS
<1>1. n \in Nat \ {0} /\ DOMAIN frames = 1..n /\ n - 1 \in 0..n
  BY <1>0, EmptySeq, Positions DEF StackInv
<1>2. DOMAIN frames' = 1..n-1 /\ \A i \in 1..n-1 : frames'[i] = frames[i]
  BY <1>0, <1>1, Prefix DEF StackInv, Callers
<1>3. DOMAIN scopeStack' = 1..m /\ \A p \in 1..m : scopeStack'[p] = scopeStack[p]
  <2>1. m \in 0..Len(scopeStack)
    BY Positions
  <2> QED BY <2>1, Prefix DEF StackInv
<1>4. \A i \in 1..n-1 : i \in DOMAIN frames /\ (Scoped(i)' <=> Scoped(i))
  BY <1>1, <1>2 DEF Scoped
<1>5. FramesSound'
  BY <1>1, <1>2 DEF StacksExact, FramesSound
<1>6. BodiesFound'
  <2>1. ASSUME NEW i \in 1..n-1, NEW b \in 1..i, InnerBody(b, i)
        PROVE  InnerBody(b, i)'
    BY <1>1, <1>2, <2>1 DEF InnerBody
  <2> QED BY <1>1, <1>2, <2>1 DEF StacksExact, BodiesFound
<1>7. LiveBelow'
  <2> SUFFICES ASSUME NEW i \in 1..n-1, Scoped(i), NEW p \in 2..frames[i].base
               PROVE  Covered(p)'
    BY <1>2, <1>4 DEF LiveBelow
  <2>1. PICK j \in DOMAIN frames : Scoped(j) /\ frames[j].base = p
    BY <1>4 DEF StacksExact, LiveBelow, Covered
  <2>2. ~(i < j)
    BY <1>1, <1>4, <2>1, Positions
  <2>3. j \in 1..n-1
    BY <1>1, <2>1, <2>2
  <2> QED BY <1>2, <1>4, <2>1, <2>3 DEF Covered
<1>8. OwnKind'
  <2>1. \A i \in DOMAIN frames' : Scoped(i)' =>
            (IsLoopScope(frames'[i].own) <=> frames'[i].kind = "loop")
    BY <1>1, <1>2, <1>4 DEF StacksExact, OwnKind
  <2>2. \A p \in DOMAIN scopeStack' : scopeStack'[p] # <<>>
    BY <1>3, Positions DEF StacksExact, OwnKind
  <2> QED BY <2>1, <2>2 DEF OwnKind
<1> QED BY <1>5, <1>6, <1>7, <1>8 DEF StacksExact

\* Cutting the scope stack right below the scope that is left leaves nothing
\* behind, even if something was: what lies below it is covered.
LEMMA CutIsExact ==
    ASSUME StackInv, StacksExact, frames # <<>>, frames' = Callers,
           TopFrame.kind \in ScopedKinds,
           scopeStack' = SubSeq(scopeStack, 1, TopFrame.base - 1)
    PROVE  /\ StacksExact' /\ NoneLeft'
           /\ TopFrame.base \in 2..Len(scopeStack)
           /\ TopFrame.base - 1 \in 1..Len(scopeStack)
           /\ Len(scopeStack') = TopFrame.base - 1
<1>0. PICK n, b : n = Len(frames) /\ b = TopFrame.base
  OBVIOUS
<1>1. n \in Nat \ {0} /\ DOMAIN frames = 1..n /\ n - 1 \in 0..n
  BY <1>0, EmptySeq, Positions DEF StackInv
<1>2. DOMAIN frames' = 1..n-1 /\ \A i \in 1..n-1 : frames'[i] = frames[i]
  BY <1>0, <1>1, Prefix DEF StackInv, Callers
<1>3. Scoped(n) /\ frames[n].base = b
  BY <1>0, <1>1 DEF Scoped, TopFrame
<1>4. b \in 2..Len(scopeStack) /\ Len(scopeStack) \in Nat
  BY <1>1, <1>3, Positions
<1>5. b - 1 \in 1..Len(scopeStack) /\ b - 1 \in 0..Len(scopeStack)
  BY <1>4
<1>6. Len(scopeStack') = b - 1
  BY <1>0, <1>5, Prefix DEF StackInv
<1>7. NoneLeft'
  <2> SUFFICES ASSUME NEW p \in 2..b-1 PROVE Covered(p)'
    BY <1>6 DEF NoneLeft
  <2>1. p \in 2..frames[n].base /\ p < frames[n].base
    BY <1>3, <1>4
  <2>2. PICK j \in DOMAIN frames : Scoped(j) /\ frames[j].base = p
    BY <1>1, <1>3, <2>1 DEF StacksExact, LiveBelow, Covered
  <2>3. j # n
    BY <2>1, <2>2
  <2>4. j \in 1..n-1
    BY <1>1, <2>2, <2>3
  <2>5. Scoped(j)'
    BY <1>2, <2>2, <2>4 DEF Scoped
  <2> QED BY <1>2, <2>2, <2>4, <2>5 DEF Covered
<1>8. StacksExact'
  BY <1>0, <1>5, CallersExact
<1> QED BY <1>0, <1>4, <1>5, <1>6, <1>7, <1>8

\* Leaving a construct that has no scope leaves nothing behind either.
LEMMA BlockIsExact ==
    ASSUME StackInv, StacksExact, frames # <<>>, frames' = Callers,
           scopeStack' = scopeStack
    PROVE  StacksExact' /\ (NoneLeft /\ TopFrame.kind \notin ScopedKinds => NoneLeft')
<1>0. PICK n : n = Len(frames)
  OBVIOUS
<1>1. n \in Nat \ {0} /\ DOMAIN frames = 1..n /\ n - 1 \in 0..n
  BY <1>0, EmptySeq, Positions DEF StackInv
<1>2. DOMAIN frames' = 1..n-1 /\ \A i \in 1..n-1 : frames'[i] = frames[i]
  BY <1>0, <1>1, Prefix DEF StackInv, Callers
<1>3. StacksExact'
  <2>1. /\ Len(scopeStack) \in 1..Len(scopeStack)
        /\ SubSeq(scopeStack, 1, Len(scopeStack)) = scopeStack
    BY Positions, SubSeqFull DEF StackInv
  <2> QED BY <2>1, CallersExact
<1>4. ASSUME NoneLeft, TopFrame.kind \notin ScopedKinds PROVE NoneLeft'
  <2> SUFFICES ASSUME NEW p \in 2..Len(scopeStack) PROVE Covered(p)'
    BY DEF NoneLeft
  <2>1. PICK j \in DOMAIN frames : Scoped(j) /\ frames[j].base = p
    BY <1>4 DEF NoneLeft, Covered
  <2>2. j # n
    BY <1>0, <1>4, <2>1 DEF Scoped, TopFrame
  <2>3. j \in 1..n-1 /\ Scoped(j)'
    BY <1>1, <1>2, <2>1, <2>2 DEF Scoped
  <2> QED BY <1>2, <2>1, <2>3 DEF Covered
<1> QED BY <1>3, <1>4

\* A switch that begins changes no scope.
LEMMA SwitchExact ==
    ASSUME StackInv, StacksExact, NoneLeft, frames # <<>>, scopeStack' = scopeStack,
           PushFrame("switch", <<>>, 0, 0)
    PROVE  StacksExact' /\ NoneLeft'
<1>0. PICK n : n = Len(frames)
  OBVIOUS
<1>1. n \in Nat \ {0} /\ DOMAIN frames = 1..n
  BY <1>0, EmptySeq, Positions DEF StackInv
<1>2. /\ DOMAIN frames' = 1..n+1 /\ frames'[n+1].kind = "switch"
      /\ \A i \in 1..n : frames'[i] = frames[i]
  <2> DEFINE f == [kind |-> "switch", own |-> <<>>, base |-> 0, act |-> 0]
  <2>1. f \in Frames /\ f.kind = "switch"
    BY DEF Frames, Names, BlockKinds
  <2>2. frames' = Append(frames, f)
    BY DEF PushFrame
  <2> HIDE DEF f
  <2> QED BY <1>0, <2>1, <2>2, Appended DEF StackInv
<1>3. \A i \in 1..n : Scoped(i)' <=> Scoped(i)
  BY <1>1, <1>2 DEF Scoped
<1>4. "switch" \notin ScopedKinds
  BY DEF ScopedKinds, BodyKinds, FunctionCalls
<1>5. ~Scoped(n+1)'
  <2> DEFINE k == n + 1
  <2>1. frames'[k].kind = "switch"
    BY <1>2
  <2> HIDE DEF k
  <2>2. ~Scoped(k)'
    BY <1>4, <2>1 DEF Scoped
  <2> QED BY <2>2 DEF k
<1>6. \A i \in 1..n+1 : i \in 1..n \/ i = n+1
  BY <1>1
<1>7. \A i \in DOMAIN frames' : Scoped(i)' => i \in 1..n /\ Scoped(i) /\ frames'[i] = frames[i]
  BY <1>2, <1>3, <1>5, <1>6
<1>8. \A p : Covered(p) => Covered(p)'
  BY <1>1, <1>2, <1>3 DEF Covered
<1>9. FramesSound'
  <2>1. \A i \in 1..n : /\ frames'[i].kind \notin {"try", "catch", "propInit"}
                        /\ (frames'[i].kind = "file") = (i = 1)
    BY <1>1, <1>2 DEF StacksExact, FramesSound
  <2>2. n + 1 # 1
    BY <1>1
  <2> QED BY <1>2, <1>6, <2>1, <2>2 DEF FramesSound
<1>10. BodiesFound'
  <2>1. ASSUME NEW i \in 1..n, NEW b \in 1..i, InnerBody(b, i)
        PROVE  InnerBody(b, i)'
    BY <1>1, <1>2, <2>1 DEF InnerBody
  <2>2. \A i \in 1..n : \E b \in 1..i : InnerBody(b, i)'
    BY <1>1, <2>1 DEF StacksExact, BodiesFound
  <2>3. PICK b \in 1..n : InnerBody(b, n)
    BY <1>1 DEF StacksExact, BodiesFound
  <2>4. InnerBody(b, n+1)' /\ b \in 1..n+1
    <3>1. "switch" \notin BodyKinds
      BY <1>4 DEF ScopedKinds
    <3> QED BY <1>1, <1>2, <2>3, <3>1 DEF InnerBody
  <2> QED BY <1>2, <1>6, <2>2, <2>4 DEF BodiesFound
<1>11. LiveBelow' /\ NoneLeft'
  BY <1>1, <1>7, <1>8 DEF StacksExact, LiveBelow, NoneLeft
<1>12. OwnKind'
  BY <1>1, <1>7 DEF StacksExact, OwnKind
<1> QED BY <1>9, <1>10, <1>11, <1>12 DEF StacksExact

\* A return that may be raised has a body to go to.  The scopes above that
\* body's are those of the constructs inside it, which are loops.
LEMMA ReturnBegins ==
    ASSUME StackInv, StacksExact, NoneLeft, frames # <<>>,
           InBody({"loop"}) => frames[BodyIndex].kind \in LoopReturns
    PROVE  \E b \in DOMAIN frames : ReturnTo(b)
<1> DEFINE n == Len(frames)
<1>1. n \in Nat \ {0} /\ DOMAIN frames = 1..n
  BY EmptySeq, Positions DEF StackInv
<1>2. PICK b \in 1..n : InnerBody(b, n)
  BY <1>1 DEF StacksExact, BodiesFound
<1>3. /\ b \in DOMAIN frames /\ frames[b].kind \in BodyKinds
      /\ \A j \in b+1..n : frames[j].kind \notin BodyKinds
  BY <1>1, <1>2 DEF InnerBody
<1>4. BodyIndex = b
  <2> DEFINE P(i) == /\ frames[i].kind \in BodyKinds
                     /\ \A j \in i+1..n : frames[j].kind \notin BodyKinds
  <2>1. P(b)
    BY <1>3
  <2>2. \A i \in DOMAIN frames : P(i) => i = b
    BY <1>1, <1>3
  <2>3. (CHOOSE i \in DOMAIN frames : P(i)) = b
    BY <1>3, <2>1, <2>2
  <2> QED BY <2>3 DEF BodyIndex
<1>5. frames[b].kind \notin LoopReturns => \A j \in b+1..n : frames[j].kind # "loop"
  BY <1>1, <1>2, <1>4 DEF InBody
<1>6. ASSUME NEW p \in frames[b].base + 1..Len(scopeStack)
      PROVE  IsLoopScope(scopeStack[p])
  <2>1. Scoped(b) /\ frames[b].base \in 2..Len(scopeStack)
    BY <1>3, Positions DEF Scoped, ScopedKinds
  <2>2. p \in 2..Len(scopeStack) /\ p > frames[b].base
    BY <2>1, Positions
  <2>3. PICK j \in DOMAIN frames : Scoped(j) /\ frames[j].base = p
    BY <2>2 DEF NoneLeft, Covered
  <2>4. ~(j < b) /\ j # b
    <3>1. j < b => p < frames[b].base
      BY <1>3, <2>1, <2>3, Positions
    <3> QED BY <2>1, <2>2, <2>3, <3>1
  <2>5. j \in b+1..n
    BY <1>1, <2>3, <2>4
  <2>6. frames[j].kind = "loop"
    BY <1>3, <2>3, <2>5 DEF Scoped, ScopedKinds
  <2>7. scopeStack[p] = frames[j].own
    BY <2>3, Positions
  <2> QED BY <2>3, <2>6, <2>7 DEF StacksExact, OwnKind
<1> QED BY <1>1, <1>2, <1>3, <1>5, <1>6 DEF ReturnTo

\* Every exit that ends a call, a method or a loop without an exception takes
\* its scope and what lies above it, and nothing else.
LeaveScope ==
    \/ LeaveCallStatement \/ LeaveCallExpression \/ LeaveCallback \/ LeaveLoop
    \/ \E kind \in {"method", "ctor"} : LeaveMethod(kind)

LEMMA LeaveCuts ==
    ASSUME StackInv, ExactInv, Disciplined, LeaveScope
    PROVE  /\ frames # <<>> /\ frames' = Callers
           /\ TopFrame.kind \in ScopedKinds \ {"file"}
           /\ scopeStack' = SubSeq(scopeStack, 1, TopFrame.base - 1)
           /\ sig' \in {"none", "error"}
           /\ sig \in {"none", "break", "return"}
           /\ NoneLeft \/ (TopFrame.kind \in BodyKinds /\ sig = "return")
<1> USE DEF Leave
<1>1. /\ frames # <<>> /\ frames' = Callers /\ sig' \in {"none", "error"}
      /\ sig \in {"none", "break", "return"}
      /\ TopFrame.kind \in {"callStmt", "callExpr", "callback", "method", "ctor", "loop"}
      /\ sig = "return" => TopFrame.kind # "loop"
      /\ TopFrame.kind \in {"callStmt", "method", "ctor", "loop"} => PopScope
      /\ TopFrame.kind \in {"callExpr", "callback"} =>
            scopeStack' = LeaveCallScope(scopeStack, TopFrame.own)
  <2>1. CASE LeaveCallStatement \/ LeaveLoop
    BY <2>1 DEF LeaveCallStatement, LeaveLoop
  <2>2. CASE LeaveCallExpression \/ LeaveCallback
    BY <2>2 DEF LeaveCallExpression, LeaveCallback
  <2>3. CASE \E kind \in {"method", "ctor"} : LeaveMethod(kind)
    BY <2>3 DEF LeaveMethod
  <2> QED BY <2>1, <2>2, <2>3 DEF LeaveScope
<1>2. TopFrame.kind \in ScopedKinds \ {"file"}
  BY <1>1 DEF ScopedKinds, BodyKinds, FunctionCalls
<1>3. sig = "return" /\ TopFrame.kind \in {"callStmt", "method", "ctor"} => NoneLeft
  <2> SUFFICES ASSUME sig = "return", TopFrame.kind \in {"callStmt", "method", "ctor"}
               PROVE  NoneLeft
    OBVIOUS
  <2>1. PICK b \in DOMAIN frames : ReturnTo(b)
    BY <1>1 DEF ExactInv, SignalExact
  <2>2. Len(frames) \in Nat \ {0} /\ DOMAIN frames = 1..Len(frames)
    BY <1>1, EmptySeq, Positions DEF StackInv
  <2>3. TopFrame.kind \in BodyKinds
    BY DEF BodyKinds, FunctionCalls
  <2>4. b = Len(frames)
    BY <2>1, <2>2, <2>3 DEF ReturnTo, InnerBody, TopFrame
  <2>5. frames[b].kind \notin LoopReturns
    BY <2>4 DEF Disciplined, TopFrame
  <2> QED BY <2>1, <2>5 DEF ReturnTo
<1>4. sig # "return" => NoneLeft
  BY <1>1 DEF ExactInv, SignalExact
<1>5. scopeStack' = SubSeq(scopeStack, 1, TopFrame.base - 1)
  <2>1. CASE TopFrame.kind \in {"callExpr", "callback"}
    BY <1>1, <2>1, ValidatedCut
  <2>2. CASE TopFrame.kind \notin {"callExpr", "callback"}
    BY <1>1, <1>2, <1>3, <1>4, <2>2, PopIsExact DEF PopScope
  <2> QED BY <2>1, <2>2
<1>6. NoneLeft \/ (TopFrame.kind \in BodyKinds /\ sig = "return")
  BY <1>1, <1>4 DEF BodyKinds, FunctionCalls
<1> QED BY <1>1, <1>2, <1>5, <1>6

\* A return passes the loops and switches inside the body it goes to.
LEMMA ReturnPasses ==
    ASSUME StackInv, StacksExact, frames # <<>>, frames' = Callers, scopeStack' = scopeStack,
           TopFrame.kind \in {"loop", "switch"}, NEW b \in DOMAIN frames, ReturnTo(b)
    PROVE  b \in DOMAIN frames' /\ ReturnTo(b)'
<1>0. PICK n : n = Len(frames)
  OBVIOUS
<1>1. n \in Nat \ {0} /\ DOMAIN frames = 1..n /\ n - 1 \in 0..n
  BY <1>0, EmptySeq, Positions DEF StackInv
<1>2. /\ Len(frames') = n-1 /\ DOMAIN frames' = 1..n-1
      /\ \A i \in 1..n-1 : frames'[i] = frames[i]
  BY <1>0, <1>1, Prefix DEF StackInv, Callers
<1>3. b \in 1..n-1
  <2>1. TopFrame.kind \notin BodyKinds
    BY DEF BodyKinds, FunctionCalls
  <2> QED BY <1>0, <1>1, <2>1 DEF ReturnTo, InnerBody, TopFrame
<1>4. InnerBody(b, Len(frames))'
  BY <1>0, <1>1, <1>2, <1>3 DEF ReturnTo, InnerBody
<1>5. ASSUME frames[b].kind \notin LoopReturns
      PROVE  NoneLeft' /\ \A j \in b+1..n-1 : frames[j].kind # "loop"
  <2>1. NoneLeft /\ \A j \in b+1..n : frames[j].kind # "loop"
    BY <1>0, <1>5 DEF ReturnTo
  <2>2. TopFrame.kind = "switch"
    BY <1>0, <1>1, <1>3, <2>1 DEF TopFrame
  <2>3. "switch" \notin ScopedKinds
    BY DEF ScopedKinds, BodyKinds, FunctionCalls
  <2>4. NoneLeft'
    BY <2>1, <2>2, <2>3, BlockIsExact
  <2> QED BY <1>1, <2>1, <2>4
<1>6. \A j \in b+1..n-1 : frames'[j] = frames[j]
  BY <1>1, <1>2, <1>3
<1> QED BY <1>2, <1>3, <1>4, <1>5, <1>6 DEF ReturnTo

\* A step that touches neither stack disturbs nothing that is said of them.
LEMMA StillExact ==
    ASSUME StacksExact, UNCHANGED <<frames, scopeStack>>
    PROVE  /\ StacksExact' /\ (NoneLeft => NoneLeft')
           /\ \A b \in DOMAIN frames : ReturnTo(b) => ReturnTo(b)'
<1>1. \A i : (Scoped(i) <=> Scoped(i)') /\ (Covered(i) <=> Covered(i)')
  BY DEF Scoped, Covered
<1>2. \A b, i : InnerBody(b, i)' <=> InnerBody(b, i)
  BY DEF InnerBody
<1>3. StacksExact'
  BY <1>1, <1>2 DEF StacksExact, FramesSound, BodiesFound, LiveBelow, OwnKind
<1>4. NoneLeft <=> NoneLeft'
  BY <1>1 DEF NoneLeft
<1>5. ASSUME NEW b \in DOMAIN frames, ReturnTo(b) PROVE ReturnTo(b)'
  <2>1. InnerBody(b, Len(frames))'
    BY <1>5 DEF ReturnTo, InnerBody
  <2> QED BY <1>4, <1>5, <2>1 DEF ReturnTo
<1> QED BY <1>3, <1>4, <1>5

LEMMA ExecuteExact ==
    ASSUME StackInv, ExactInv, Disciplined, Execute
    PROVE  ExactInv'
<1>1. frames # <<>> /\ sig = "none"
  BY DEF Execute, CallFunction, CallMethod, ConstructObject, RejectMethodCall, CallPredicate,
         EnterLoop, EnterBlock, EnterScope, MethodTooDeep, CallNative, Raise, Running
<1>2. StacksExact /\ NoneLeft
  BY <1>1 DEF ExactInv, SignalExact
<1>3. ASSUME StacksExact', NoneLeft', sig' # "return" PROVE ExactInv'
  BY <1>3 DEF ExactInv, SignalExact
<1>4. ASSUME NEW kind \in FunctionCalls, CallFunction(kind) PROVE ExactInv'
  <2>1. kind \in ScopedKinds \ {"file"} /\ kind # "loop"
    BY DEF ScopedKinds, BodyKinds, FunctionCalls
  <2>2. CallScopeName \in Names /\ CallScopeName # <<>> /\ ~IsLoopScope(CallScopeName)
    BY UnwindAssumption DEF CallScopeName, Names, Segments, IsLoopScope, StackInv
  <2>3. EnterScope(kind, CallScopeName) /\ sig' = "none"
    BY <1>1, <1>4 DEF CallFunction, EnterScope
  <2> QED BY <1>2, <1>3, <2>1, <2>2, <2>3, EnterExact
<1>5. ASSUME NEW o \in Objects, CallMethod(o) PROVE ExactInv'
  <2>1. "method" \in ScopedKinds \ {"file"}
    BY DEF ScopedKinds, BodyKinds
  <2>2. <<Method>> \in Names /\ <<Method>> # <<>> /\ ~IsLoopScope(<<Method>>)
    BY DEF Names, Segments, IsLoopScope
  <2>3. EnterScope("method", <<Method>>) /\ sig' = "none"
    BY <1>1, <1>5 DEF CallMethod, EnterScope
  <2> QED BY <1>2, <1>3, <2>1, <2>2, <2>3, EnterExact
<1>6. ASSUME NEW o \in Objects, ConstructObject(o) PROVE ExactInv'
  <2> DEFINE name == <<Construct, acts + 1>>
  <2>1. "ctor" \in ScopedKinds \ {"file"}
    BY DEF ScopedKinds, BodyKinds
  <2>2. name \in Names /\ name # <<>> /\ ~IsLoopScope(name)
    BY UnwindAssumption DEF Names, Segments, IsLoopScope, StackInv
  <2>3. EnterScope("ctor", name) /\ sig' = "none"
    BY <1>1, <1>6 DEF ConstructObject, EnterScope
  <2> HIDE DEF name
  <2> QED BY <1>2, <1>3, <2>1, <2>2, <2>3, EnterExact
<1>7. ASSUME NEW site \in Sites, EnterLoop(site) PROVE ExactInv'
  <2> DEFINE name == Append(CurrentScope(scopeStack), site)
  <2>1. "loop" \in ScopedKinds \ {"file"}
    BY DEF ScopedKinds, BodyKinds, FunctionCalls
  <2>2. CurrentScope(scopeStack) \in Names /\ CurrentScope(scopeStack) # <<>>
    <3>1. Len(scopeStack) \in DOMAIN scopeStack
      BY Positions
    <3> QED BY <1>2, <3>1, ElementOfSeq DEF StackInv, CurrentScope, StacksExact, OwnKind
  <2>3. name \in Names /\ name # <<>> /\ IsLoopScope(name)
    <3>1. site \in Segments
      BY DEF Segments
    <3>2. /\ name \in Names /\ Len(name) = Len(CurrentScope(scopeStack)) + 1
          /\ name[Len(name)] = site /\ Len(CurrentScope(scopeStack)) \in Nat \ {0}
      BY <2>2, <3>1, EmptySeq, Appended DEF Names
    <3> QED BY <3>2 DEF IsLoopScope, Names
  <2>4. EnterScope("loop", name) /\ sig' = "none"
    BY <1>1, <1>7 DEF EnterLoop, EnterScope
  <2> HIDE DEF name
  <2> QED BY <1>2, <1>3, <2>1, <2>3, <2>4, EnterExact
<1>8. ASSUME NEW kind \in BlockKinds, EnterBlock(kind) PROVE ExactInv'
  <2>1. kind = "switch"
    BY <1>8 DEF EnterBlock, BlockKinds, Disciplined
  <2>2. PushFrame("switch", <<>>, 0, 0) /\ scopeStack' = scopeStack /\ sig' = "none"
    BY <1>1, <1>8, <2>1 DEF EnterBlock
  <2> QED BY <1>1, <1>2, <1>3, <2>2, SwitchExact
<1>9. CASE \/ \E o \in Objects : RejectMethodCall(o) \/ CallPredicate(o)
           \/ MethodTooDeep \/ CallNative
  <2>1. UNCHANGED <<frames, scopeStack>> /\ sig' # "return"
    BY <1>1, <1>9 DEF RejectMethodCall, CallPredicate, MethodTooDeep, CallNative
  <2> QED BY <1>2, <1>3, <2>1, StillExact
<1>10. ASSUME NEW s \in Signals, Raise(s) PROVE ExactInv'
  <2>1. UNCHANGED <<frames, scopeStack>> /\ sig' = s /\ MayRaise(s)
    BY <1>10 DEF Raise
  <2>2. CASE s # "return"
    BY <1>2, <1>3, <2>1, <2>2, StillExact
  <2>3. CASE s = "return"
    <3>1. InBody({"loop"}) => frames[BodyIndex].kind \in LoopReturns
      BY <2>1, <2>3 DEF MayRaise
    <3>2. PICK b \in DOMAIN frames : ReturnTo(b)
      BY <1>1, <1>2, <3>1, ReturnBegins
    <3>3. StacksExact' /\ ReturnTo(b)' /\ b \in DOMAIN frames'
      BY <1>2, <2>1, <3>2, StillExact
    <3> QED BY <2>1, <2>3, <3>3 DEF ExactInv, SignalExact
  <2> QED BY <2>2, <2>3
<1> QED BY <1>4, <1>5, <1>6, <1>7, <1>8, <1>9, <1>10 DEF Execute

\* The file's construct is the outermost: the script ends when it is left.
LEMMA FileIsLast ==
    ASSUME StackInv, FramesSound, LeaveFile
    PROVE  frames' = <<>>
<1>1. frames # <<>> /\ TopFrame.kind = "file" /\ frames' = Callers
  BY DEF LeaveFile, Leave
<1>2. Len(frames) \in DOMAIN frames
  BY <1>1, EmptySeq, Positions DEF StackInv
<1>3. Len(frames) = 1 /\ Len(frames) - 1 \in 0..Len(frames)
  <2>1. Len(frames) = 1
    BY <1>1, <1>2 DEF FramesSound, TopFrame
  <2> QED BY <2>1
<1>4. Len(Callers) = 0 /\ Callers \in Seq(Frames)
  BY <1>3, Prefix DEF StackInv, Callers
<1> QED BY <1>1, <1>4, EmptySeq

LEMMA LeaveOrUnwindExact ==
    ASSUME StackInv, ExactInv, Disciplined, LeaveOrUnwind
    PROVE  ExactInv'
<1> USE DEF Leave, Pass, Raised
<1>1. StacksExact /\ FramesSound
  BY DEF ExactInv, StacksExact
<1>2. frames # <<>> => /\ Len(frames) \in Nat \ {0} /\ DOMAIN frames = 1..Len(frames)
                       /\ TopFrame.kind \notin {"try", "catch", "propInit"}
                       /\ (TopFrame.kind = "file") = (Len(frames) = 1)
  <2> SUFFICES ASSUME frames # <<>>
               PROVE  /\ Len(frames) \in Nat \ {0} /\ DOMAIN frames = 1..Len(frames)
                      /\ TopFrame.kind \notin {"try", "catch", "propInit"}
                      /\ (TopFrame.kind = "file") = (Len(frames) = 1)
    OBVIOUS
  <2>1. Len(frames) \in Nat \ {0} /\ DOMAIN frames = 1..Len(frames)
    BY EmptySeq, Positions DEF StackInv
  <2> QED BY <1>1, <2>1 DEF FramesSound, TopFrame
<1>3. "switch" \notin ScopedKinds
  BY DEF ScopedKinds, BodyKinds, FunctionCalls
<1>4. CASE LeaveScope
  BY <1>1, <1>4, LeaveCuts, CutIsExact DEF ExactInv, SignalExact
<1>5. CASE LeaveBlock
  <2>1. /\ frames # <<>> /\ frames' = Callers /\ scopeStack' = scopeStack
        /\ TopFrame.kind = "switch" /\ sig \in {"none", "break"} /\ sig' = "none"
    BY <1>2, <1>5 DEF LeaveBlock
  <2>2. NoneLeft
    BY <2>1 DEF ExactInv, SignalExact
  <2>3. StacksExact' /\ NoneLeft'
    BY <1>1, <1>3, <2>1, <2>2, BlockIsExact
  <2> QED BY <2>1, <2>3 DEF ExactInv, SignalExact
<1>6. CASE LeaveFile
  <2>1. /\ frames # <<>> /\ frames' = Callers /\ scopeStack' = scopeStack
        /\ TopFrame.kind = "file"
    BY <1>6 DEF LeaveFile
  <2>2. frames' = <<>>
    BY <1>1, <1>6, FileIsLast
  <2>3. StacksExact'
    BY <1>1, <2>1, BlockIsExact
  <2> QED BY <2>2, <2>3 DEF ExactInv, SignalExact
<1>7. CASE ContinueLoop
  <2>1. UNCHANGED <<frames, scopeStack>> /\ sig' = "none" /\ NoneLeft
    BY <1>7 DEF ContinueLoop, ExactInv, SignalExact
  <2> QED BY <1>1, <2>1, StillExact DEF ExactInv, SignalExact
<1>8. ~CatchException
  BY <1>2 DEF CatchException
<1>9. CASE PassBlock \/ ReturnThroughLoop
  <2>1. /\ frames # <<>> /\ frames' = Callers /\ scopeStack' = scopeStack /\ sig' = sig
        /\ TopFrame.kind = "switch" \/ (TopFrame.kind = "loop" /\ sig = "return")
    BY <1>2, <1>9 DEF PassBlock, ReturnThroughLoop
  <2>2. StacksExact' /\ (NoneLeft /\ TopFrame.kind = "switch" => NoneLeft')
    BY <1>1, <1>3, <2>1, BlockIsExact
  <2>3. CASE sig = "return"
    <3>1. PICK b \in DOMAIN frames : ReturnTo(b)
      BY <2>1, <2>3 DEF ExactInv, SignalExact
    <3>2. b \in DOMAIN frames' /\ ReturnTo(b)'
      BY <1>1, <2>1, <3>1, ReturnPasses
    <3> QED BY <2>1, <2>2, <2>3, <3>2 DEF ExactInv, SignalExact
  <2>4. CASE sig # "return"
    BY <2>1, <2>2, <2>4 DEF ExactInv, SignalExact
  <2> QED BY <2>3, <2>4
<1>10. CASE \/ ThrowThroughCallStatement \/ ThrowThroughCallExpression
            \/ ThrowThroughCallback
  <2>1. /\ frames # <<>> /\ frames' = Callers /\ scopeStack' = scopeStack
        /\ sig' \in {"throw", "error"}
    BY <1>10 DEF ThrowThroughCallStatement, ThrowThroughCallExpression, ThrowThroughCallback
  <2>2. StacksExact'
    BY <1>1, <2>1, BlockIsExact
  <2> QED BY <2>1, <2>2 DEF ExactInv, SignalExact
<1>11. CASE ThrowThroughScope
  <2>1. frames # <<>> /\ frames' = Callers /\ PopScope /\ sig' \in {"throw", "error"}
    BY <1>11 DEF ThrowThroughScope
  <2>2. PICK m \in 1..Len(scopeStack) : scopeStack' = SubSeq(scopeStack, 1, m)
    BY <2>1, PopIsCut DEF StackInv, CallersBelow, PopScope
  <2>3. StacksExact'
    BY <1>1, <2>1, <2>2, CallersExact
  <2> QED BY <2>1, <2>3 DEF ExactInv, SignalExact
<1> QED BY <1>4, <1>5, <1>6, <1>7, <1>8, <1>9, <1>10, <1>11 DEF LeaveOrUnwind, LeaveScope

LEMMA InitExact == Init => ExactInv
<1> SUFFICES ASSUME Init PROVE ExactInv
  OBVIOUS
<1>1. /\ DOMAIN frames = {1} /\ Len(frames) = 1 /\ frames[1].kind = "file"
      /\ frames[1].own = <<File>> /\ frames[1].base = 2
  BY DEF Init
<1>2. Len(scopeStack) = 2 /\ DOMAIN scopeStack = 1..2 /\ \A p \in 1..2 : scopeStack[p] = <<File>>
  BY DEF Init
<1>3. "file" \in ScopedKinds /\ "file" \in BodyKinds
  BY DEF ScopedKinds, BodyKinds
<1>4. Covered(2)
  BY <1>1, <1>3 DEF Covered, Scoped
<1>5. LiveBelow /\ NoneLeft
  <2>1. \A p \in 2..2 : p = 2
    OBVIOUS
  <2> QED BY <1>1, <1>2, <1>4, <2>1 DEF LiveBelow, NoneLeft
<1>6. FramesSound
  BY <1>1 DEF FramesSound
<1>7. InnerBody(1, 1)
  BY <1>1, <1>3 DEF InnerBody
<1>8. BodiesFound
  BY <1>1, <1>7 DEF BodiesFound
<1>9. ~IsLoopScope(<<File>>) /\ <<File>> # <<>>
  BY DEF IsLoopScope
<1>10. OwnKind
  BY <1>1, <1>2, <1>9 DEF OwnKind
<1>11. sig = "none"
  BY DEF Init
<1> QED BY <1>5, <1>6, <1>8, <1>10, <1>11 DEF ExactInv, StacksExact, SignalExact

LEMMA NextExact ==
    ASSUME Disciplined, IInv, ExactInv, [Next]_vars
    PROVE  ExactInv'
<1>1. StackInv
  BY Split
<1>2. CASE Execute
  BY <1>1, <1>2, ExecuteExact
<1>3. CASE LeaveOrUnwind
  BY <1>1, <1>3, LeaveOrUnwindExact
<1>4. CASE Finished \/ UNCHANGED vars
  <2>1. UNCHANGED <<frames, scopeStack, sig>>
    BY <1>4 DEF Finished, vars
  <2> QED BY <2>1, StillExact DEF ExactInv, SignalExact
<1> QED BY <1>2, <1>3, <1>4 DEF Next

\* Where nothing is left behind, the constructs that have a scope and the
\* scopes above the first are in bijection: a construct goes with its base.
LEMMA ScopesCounted ==
    ASSUME StackInv, NoneLeft
    PROVE  Cardinality({i \in DOMAIN frames : Scoped(i)}) + 1 = Len(scopeStack)
<1> DEFINE S == {i \in DOMAIN frames : Scoped(i)}
           T == 2..Len(scopeStack)
           f == [i \in S |-> frames[i].base]
<1>1. f \in Injection(S, T)
  <2>1. f \in [S -> T]
    BY Positions
  <2>2. ASSUME NEW i \in S, NEW j \in S, f[i] = f[j] PROVE i = j
    <3>1. frames[i].base = frames[j].base /\ frames[i].base \in Nat
      BY <2>2, Positions
    <3>2. ~(i < j) /\ ~(j < i)
      BY <3>1, Positions
    <3> QED BY <3>2, Positions
  <2>3. DOMAIN f = S
    OBVIOUS
  <2> HIDE DEF f, S, T
  <2> QED BY <2>1, <2>2, <2>3 DEF Injection, IsInjective
<1>2. f \in Surjection(S, T)
  <2>1. f \in [S -> T]
    BY Positions
  <2>2. ASSUME NEW p \in T PROVE \E i \in S : f[i] = p
    BY <2>2 DEF NoneLeft, Covered
  <2> QED BY <2>1, <2>2 DEF Surjection
<1>3. ExistsBijection(S, T)
  BY <1>1, <1>2 DEF Bijection, ExistsBijection
<1>4. IsFiniteSet(S)
  <2>1. IsFiniteSet(1..Len(frames))
    BY FS_Interval, Positions
  <2> QED BY <2>1, FS_Subset, Positions
<1>5. Cardinality(T) = Cardinality(S)
  BY <1>3, <1>4, FS_Bijection
<1>6. Cardinality(T) = Len(scopeStack) - 1
  <2>1. Len(scopeStack) \in Nat \ {0}
    BY Positions
  <2>2. Cardinality(T) = IF 2 > Len(scopeStack) THEN 0 ELSE Len(scopeStack) - 2 + 1
    BY <2>1, FS_Interval
  <2> QED BY <2>1, <2>2
<1> QED BY <1>5, <1>6, Positions

\* In scripts without `try' and property defaults, which return from loops only
\* where the call recovers, every entry of the scope stack belongs to a live
\* construct, but for loops that a return in flight has left.
THEOREM ExactInductive == ASSUME Disciplined PROVE Spec => [](IInv /\ ExactInv)
<1>1. Init => IInv /\ ExactInv
  BY InitIInv, InitExact
<1>2. IInv /\ ExactInv /\ [Next]_vars => IInv' /\ ExactInv'
  BY NextIInv, NextExact
<1> QED BY <1>1, <1>2, PTL DEF Spec

\* Scripts without `try' and property defaults, which return from loops only in
\* the bodies that recover: whenever a statement runs, the scopes entered are
\* those of the live constructs and no other.
THEOREM ScopesExact == ASSUME Disciplined PROVE Spec => []ExactScopes
<1>1. IInv /\ ExactInv => ExactScopes
  <2> SUFFICES ASSUME IInv, ExactInv, Running
               PROVE  Len(scopeStack) = Cardinality({i \in DOMAIN frames : Scoped(i)}) + 1
    BY DEF ExactScopes
  <2>1. StackInv /\ NoneLeft
    BY Split DEF Running, ExactInv, SignalExact
  <2> QED BY <2>1, ScopesCounted
<1> QED BY <1>1, ExactInductive, PTL

\* In such scripts the scope of a call is not leaked on return.
THEOREM NoScopeLeaked == ASSUME Disciplined PROVE Spec => ReturnLeaksNoScope
<1>1. ASSUME IInv, ExactInv, [Next]_vars, sig = "return", sig' # "return", frames' # <<>>
      PROVE  Len(scopeStack') < TopFrame.base
  <2>1. StackInv
    BY <1>1, Split
  <2>2. ExactInv'
    BY <1>1, NextExact
  <2>3. ~Execute
    BY <1>1 DEF Execute, CallFunction, CallMethod, ConstructObject, RejectMethodCall,
       CallPredicate, EnterLoop, EnterBlock, EnterScope, MethodTooDeep, CallNative, Raise, Running
  <2>4. ~(Finished \/ UNCHANGED vars)
    BY <1>1 DEF Finished, vars
  <2>5. ~LeaveFile
    BY <1>1, <2>1, FileIsLast DEF ExactInv, StacksExact
  <2>6. LeaveScope
    BY <1>1, <2>3, <2>4, <2>5 DEF Next, LeaveOrUnwind, LeaveScope, LeaveBlock, Leave,
       ContinueLoop, CatchException, PassBlock, ReturnThroughLoop, ThrowThroughScope,
       ThrowThroughCallStatement, ThrowThroughCallExpression, ThrowThroughCallback
  <2>7. TopFrame.base - 1 = Len(scopeStack') /\ TopFrame.base \in 2..Len(scopeStack)
    BY <1>1, <2>1, <2>6, LeaveCuts, CutIsExact DEF ExactInv
  <2> QED BY <2>1, <2>7, Positions
<1>2. IInv /\ ExactInv /\ [Next]_vars =>
        [sig = "return" /\ sig' # "return" /\ frames' # <<>> =>
            Len(scopeStack') < TopFrame.base]_vars
  BY <1>1
<1> QED BY <1>2, ExactInductive, PTL DEF Spec, ReturnLeaksNoScope

-----------------------------------------------------------------------------
\* What a step of such a script does to the scope stack while no uncaught
\* exception is in flight: it opens a scope, closes a construct's with what is
\* above it, or leaves the stack alone.
LEMMA ScopeSteps ==
    ASSUME Disciplined, IInv, ExactInv, [Next]_vars, ~Aborted, ~Aborted'
    PROVE  \/ \E name \in Names : scopeStack' = Append(scopeStack, name)
           \/ LeaveScope
           \/ scopeStack' = scopeStack
<1>1. StackInv /\ Disciplined
  BY Split
<1>2. ASSUME NEW kind, NEW name, EnterScope(kind, name), name \in Names
      PROVE  \E nm \in Names : scopeStack' = Append(scopeStack, nm)
  BY <1>2 DEF EnterScope
<1>3. CASE Execute
  <2>1. ASSUME NEW kind \in FunctionCalls, CallFunction(kind)
        PROVE  \E name \in Names : scopeStack' = Append(scopeStack, name)
    <3>1. CallScopeName \in Names
      BY <1>1 DEF CallScopeName, Names, Segments, StackInv
    <3> QED BY <1>2, <2>1, <3>1 DEF CallFunction
  <2>2. ASSUME NEW o \in Objects, CallMethod(o) \/ ConstructObject(o)
        PROVE  \E name \in Names : scopeStack' = Append(scopeStack, name)
    <3>1. <<Method>> \in Names /\ <<Construct, acts + 1>> \in Names
      BY <1>1 DEF Names, Segments, StackInv
    <3> QED BY <1>2, <2>2, <3>1 DEF CallMethod, ConstructObject
  <2>3. ASSUME NEW site \in Sites, EnterLoop(site)
        PROVE  \E name \in Names : scopeStack' = Append(scopeStack, name)
    <3>1. CurrentScope(scopeStack) \in Names
      BY <1>1, ElementOfSeq, Positions DEF StackInv, CurrentScope
    <3>2. Append(CurrentScope(scopeStack), site) \in Names
      BY <3>1 DEF Names, Segments
    <3> QED BY <1>2, <2>3, <3>2 DEF EnterLoop
  <2>4. CASE \E kind \in BlockKinds : EnterBlock(kind)
    BY <2>4 DEF EnterBlock
  <2>5. CASE \/ \E o \in Objects : RejectMethodCall(o) \/ CallPredicate(o)
             \/ MethodTooDeep \/ CallNative \/ \E s \in Signals : Raise(s)
    BY <2>5 DEF RejectMethodCall, CallPredicate, MethodTooDeep, CallNative, Raise
  <2> QED BY <1>3, <2>1, <2>2, <2>3, <2>4, <2>5 DEF Execute
<1>4. CASE LeaveOrUnwind
  <2>1. ~(ThrowThroughScope \/ CatchException)
    BY DEF Aborted, ThrowThroughScope, CatchException
  <2>2. CASE \/ LeaveBlock \/ LeaveFile \/ ContinueLoop \/ PassBlock \/ ReturnThroughLoop
             \/ ThrowThroughCallStatement \/ ThrowThroughCallExpression \/ ThrowThroughCallback
    BY <2>2 DEF LeaveBlock, LeaveFile, ContinueLoop, PassBlock, ReturnThroughLoop,
                ThrowThroughCallStatement, ThrowThroughCallExpression, ThrowThroughCallback
  <2> QED BY <1>4, <2>1, <2>2 DEF LeaveOrUnwind, LeaveScope
<1>5. CASE Finished \/ UNCHANGED vars
  BY <1>5 DEF Finished, vars
<1> QED BY <1>3, <1>4, <1>5 DEF Next

\* Naming the kinds of scopes commutes with what is done to the stack.
LEMMA KindsOf ==
    ASSUME NEW s \in Seq(Names)
    PROVE  /\ Kinds(s) \in Seq({"call", "loop"}) /\ Len(Kinds(s)) = Len(s)
           /\ \A p \in 1..Len(s) : Kinds(s)[p] = IF IsLoopScope(s[p]) THEN "loop" ELSE "call"
<1>1. Len(s) \in Nat
  OBVIOUS
<1>2. Kinds(s) \in [1..Len(s) -> {"call", "loop"}]
  BY DEF Kinds
<1>3. Kinds(s) \in Seq({"call", "loop"})
  BY <1>1, <1>2, SeqDef
<1>4. Len(Kinds(s)) = Len(s)
  BY <1>1, <1>2, <1>3, LenProperties
<1> QED BY <1>3, <1>4 DEF Kinds

LEMMA KindsOfAppend ==
    ASSUME NEW s \in Seq(Names), NEW name \in Names
    PROVE  \E kind \in {"call", "loop"} : Kinds(Append(s, name)) = Append(Kinds(s), kind)
<1> DEFINE kind == IF IsLoopScope(name) THEN "loop" ELSE "call"
           t == Append(s, name)
           u == Append(Kinds(s), kind)
<1>1. /\ t \in Seq(Names) /\ Len(t) = Len(s) + 1 /\ t[Len(s) + 1] = name
      /\ \A p \in 1..Len(s) : t[p] = s[p]
  BY Appended
<1>2. kind \in {"call", "loop"}
  OBVIOUS
<1>3. /\ u \in Seq({"call", "loop"}) /\ Len(u) = Len(s) + 1 /\ u[Len(s) + 1] = kind
      /\ \A p \in 1..Len(s) : u[p] = Kinds(s)[p]
  <2> HIDE DEF kind
  <2> QED BY <1>2, KindsOf, Appended
<1>4. \A p \in 1..Len(s) + 1 : Kinds(t)[p] = u[p]
  <2> SUFFICES ASSUME NEW p \in 1..Len(s) + 1 PROVE Kinds(t)[p] = u[p]
    OBVIOUS
  <2>1. Kinds(t)[p] = IF IsLoopScope(t[p]) THEN "loop" ELSE "call"
    BY <1>1, KindsOf
  <2>2. CASE p = Len(s) + 1
    BY <1>1, <1>3, <2>1, <2>2
  <2>3. CASE p \in 1..Len(s)
    <3>1. u[p] = IF IsLoopScope(s[p]) THEN "loop" ELSE "call"
      BY <1>3, <2>3, KindsOf
    <3> QED BY <1>1, <2>1, <2>3, <3>1
  <2>4. Len(s) \in Nat
    OBVIOUS
  <2> HIDE DEF t, u
  <2> QED BY <2>2, <2>3, <2>4
<1>5. Kinds(t) = u
  <2>1. Kinds(t) \in Seq({"call", "loop"}) /\ Len(Kinds(t)) = Len(s) + 1
    BY <1>1, KindsOf
  <2>2. /\ u \in Seq({"call", "loop"}) /\ Len(Kinds(t)) = Len(u)
        /\ \A p \in 1..Len(Kinds(t)) : Kinds(t)[p] = u[p]
    BY <1>3, <1>4, <2>1
  <2> HIDE DEF t, u
  <2> QED BY <2>1, <2>2, SeqEqual
<1> QED BY <1>2, <1>5

LEMMA KindsOfCut ==
    ASSUME NEW s \in Seq(Names), NEW m \in 0..Len(s)
    PROVE  Kinds(SubSeq(s, 1, m)) = SubSeq(Kinds(s), 1, m)
<1>1. /\ SubSeq(s, 1, m) \in Seq(Names) /\ Len(SubSeq(s, 1, m)) = m
      /\ \A p \in 1..m : SubSeq(s, 1, m)[p] = s[p]
  BY Prefix
<1>2. /\ Kinds(s) \in Seq({"call", "loop"}) /\ m \in 0..Len(Kinds(s))
  BY KindsOf
<1>3. /\ SubSeq(Kinds(s), 1, m) \in Seq({"call", "loop"}) /\ Len(SubSeq(Kinds(s), 1, m)) = m
      /\ \A p \in 1..m : SubSeq(Kinds(s), 1, m)[p] = Kinds(s)[p]
  BY <1>2, Prefix
<1>4. /\ Kinds(SubSeq(s, 1, m)) \in Seq({"call", "loop"})
      /\ Len(Kinds(SubSeq(s, 1, m))) = m
  BY <1>1, KindsOf
<1> DEFINE t == Kinds(SubSeq(s, 1, m))
           u == SubSeq(Kinds(s), 1, m)
<1>5. \A p \in 1..m : t[p] = u[p]
  <2> SUFFICES ASSUME NEW p \in 1..m PROVE t[p] = u[p]
    OBVIOUS
  <2>1. t[p] = IF IsLoopScope(s[p]) THEN "loop" ELSE "call"
    BY <1>1, KindsOf
  <2>2. p \in 1..Len(s)
    OBVIOUS
  <2>3. Kinds(s)[p] = IF IsLoopScope(s[p]) THEN "loop" ELSE "call"
    BY <2>2, KindsOf
  <2> QED BY <1>3, <2>1, <2>3
<1>6. Len(t) = Len(u) /\ \A p \in 1..Len(t) : t[p] = u[p]
  BY <1>3, <1>4, <1>5
<1>7. t \in Seq({"call", "loop"}) /\ u \in Seq({"call", "loop"})
  BY <1>3, <1>4
<1> HIDE DEF t, u
<1>8. t = u
  BY <1>6, <1>7, SeqEqual
<1> QED BY <1>8 DEF t, u

\* The depth the abstract stack is refined with is its length.
LEMMA DepthIsLength ==
    ASSUME IInv, ExactInv, ~Aborted
    PROVE  /\ Len(Kinds(scopeStack)) = Len(scopeStack)
           /\ (IF sig = "none" THEN LiveDepth ELSE Len(scopeStack)) = Len(scopeStack)
<1>1. StackInv
  BY Split
<1>2. Len(Kinds(scopeStack)) = Len(scopeStack)
  BY <1>1, KindsOf DEF StackInv
<1>3. sig = "none" => LiveDepth = Len(scopeStack)
  BY <1>1, ScopesCounted DEF LiveDepth, ExactInv, SignalExact, Aborted
<1> QED BY <1>2, <1>3

LEMMA DepthIsLengthNext ==
    (IInv /\ ExactInv /\ ~Aborted =>
        /\ Len(Kinds(scopeStack)) = Len(scopeStack)
        /\ (IF sig = "none" THEN LiveDepth ELSE Len(scopeStack)) = Len(scopeStack))'
<1>1. IInv /\ ExactInv /\ ~Aborted =>
        /\ Len(Kinds(scopeStack)) = Len(scopeStack)
        /\ (IF sig = "none" THEN LiveDepth ELSE Len(scopeStack)) = Len(scopeStack)
  BY DepthIsLength
<1> QED BY <1>1, PTL

\* An uncaught exception is not caught any more.
LEMMA AbortStays ==
    ASSUME Disciplined, IInv, ExactInv, [Next]_vars, Aborted
    PROVE  Aborted'
<1> USE DEF Leave, Pass, Raised
<1>1. StackInv
  BY Split
<1>2. CASE Execute
  BY <1>2 DEF Aborted, Execute, CallFunction, CallMethod, ConstructObject, RejectMethodCall,
     CallPredicate, EnterLoop, EnterBlock, EnterScope, MethodTooDeep, CallNative, Raise, Running
<1>3. CASE LeaveOrUnwind
  <2>1. frames # <<>> /\ sig \in {"throw", "error"}
    BY <1>3 DEF Aborted, LeaveOrUnwind, LeaveCallStatement, LeaveCallExpression, LeaveCallback,
       LeaveMethod, LeaveLoop, LeaveBlock, LeaveFile, ContinueLoop, CatchException, PassBlock,
       ReturnThroughLoop, ThrowThroughScope, ThrowThroughCallStatement,
       ThrowThroughCallExpression, ThrowThroughCallback
  <2>2. TopFrame.kind \notin {"try", "catch", "propInit"}
    <3>1. Len(frames) \in DOMAIN frames
      BY <1>1, <2>1, EmptySeq, Positions DEF StackInv
    <3> QED BY <3>1 DEF ExactInv, StacksExact, FramesSound, TopFrame
  <2>3. ~LeaveScope
    BY <1>1, <2>1, LeaveCuts
  <2>4. CASE LeaveFile
    BY <1>1, <2>4, FileIsLast DEF Aborted, ExactInv, StacksExact
  <2>5. ~(LeaveBlock \/ ContinueLoop \/ CatchException \/ ReturnThroughLoop)
    BY <2>1, <2>2 DEF LeaveBlock, ContinueLoop, CatchException, ReturnThroughLoop
  <2>6. CASE \/ PassBlock \/ ThrowThroughScope \/ ThrowThroughCallStatement
             \/ ThrowThroughCallExpression \/ ThrowThroughCallback
    BY <2>1, <2>6 DEF Aborted, PassBlock, ThrowThroughScope, ThrowThroughCallStatement,
       ThrowThroughCallExpression, ThrowThroughCallback
  <2> QED BY <1>3, <2>3, <2>4, <2>5, <2>6 DEF LeaveOrUnwind, LeaveScope
<1>4. CASE Finished \/ UNCHANGED vars
  BY <1>4 DEF Finished, vars, Aborted
<1> QED BY <1>2, <1>3, <1>4 DEF Next

\* Leaving a loop finds its scope on top; leaving a call finds it above the
\* file's two, with scopes of loops above it and nothing else.
LEMMA LeaveFindsOwn ==
    ASSUME Disciplined, IInv, ExactInv, LeaveScope
    PROVE  /\ TopFrame.base \in 3..Len(scopeStack)
           /\ IsLoopScope(scopeStack[TopFrame.base]) <=> TopFrame.kind = "loop"
           /\ TopFrame.kind = "loop" => TopFrame.base = Len(scopeStack)
           /\ \A p \in TopFrame.base + 1..Len(scopeStack) : IsLoopScope(scopeStack[p])
<1> DEFINE n == Len(frames)
           b == TopFrame.base
<1>1. StackInv /\ StacksExact
  BY Split DEF ExactInv
<1>2. /\ frames # <<>> /\ TopFrame.kind \in ScopedKinds \ {"file"}
      /\ NoneLeft \/ (TopFrame.kind \in BodyKinds /\ sig = "return")
  BY <1>1, LeaveCuts
<1>3. n \in Nat \ {0} /\ DOMAIN frames = 1..n /\ TopFrame = frames[n]
  BY <1>1, <1>2, EmptySeq, Positions DEF StackInv, TopFrame
<1>4. Scoped(n) /\ b \in 2..Len(scopeStack) /\ scopeStack[b] = frames[n].own
  BY <1>1, <1>2, <1>3, Positions DEF Scoped
<1>5. b \in 3..Len(scopeStack)
  <2>1. 1 \in DOMAIN frames /\ frames[1].kind = "file" /\ n # 1
    BY <1>1, <1>2, <1>3 DEF StacksExact, FramesSound
  <2>2. Scoped(1)
    BY <2>1 DEF Scoped, ScopedKinds, BodyKinds
  <2>3. 1 < n /\ frames[1].base < frames[n].base /\ frames[1].base \in 2..Len(scopeStack)
    BY <1>1, <1>3, <1>4, <2>1, <2>2, Positions
  <2> QED BY <1>3, <1>4, <2>3
<1>6. IsLoopScope(scopeStack[b]) <=> TopFrame.kind = "loop"
  BY <1>1, <1>3, <1>4 DEF StacksExact, OwnKind
<1>7. NoneLeft => b = Len(scopeStack)
  BY <1>1, <1>2, TopIsOwn
<1>8. TopFrame.kind = "loop" => b = Len(scopeStack)
  BY <1>2, <1>7 DEF BodyKinds, FunctionCalls
<1>9. \A p \in b + 1..Len(scopeStack) : IsLoopScope(scopeStack[p])
  <2>1. CASE NoneLeft
    BY <1>1, <1>7, <2>1, Positions
  <2>2. CASE TopFrame.kind \in BodyKinds /\ sig = "return"
    <3>1. PICK c \in DOMAIN frames : ReturnTo(c)
      BY <1>2, <2>2 DEF ExactInv, SignalExact
    <3>2. c = n
      BY <1>3, <2>2, <3>1 DEF ReturnTo, InnerBody
    <3> QED BY <1>3, <3>1, <3>2 DEF ReturnTo
  <2> QED BY <1>2, <2>1, <2>2
<1> QED BY <1>5, <1>6, <1>8, <1>9

\* In such scripts the scope stack implements the stack of activations that a
\* script is promised: calls and loops nest, a loop ends where it began, a call
\* may end inside loops of its own, an uncaught exception ends everything.
THEOREM ActivationsNest == ASSUME Disciplined PROVE Spec => RefinesActivations
<1> DEFINE astack == IF Aborted THEN <<>> ELSE Kinds(scopeStack)
           adepth == IF Aborted THEN 0 ELSE IF sig = "none" THEN LiveDepth ELSE Len(scopeStack)
<1>1. Init => Activation!Init
  <2> SUFFICES ASSUME Init PROVE Activation!Init
    OBVIOUS
  <2>1. IInv /\ ExactInv
    BY InitIInv, InitExact
  <2>2. ~Aborted /\ scopeStack = << <<File>>, <<File>> >>
    BY DEF Init, Aborted
  <2>3. ~IsLoopScope(<<File>>)
    BY DEF IsLoopScope
  <2>4. Kinds(scopeStack) = <<"call", "call">>
    BY <2>2, <2>3 DEF Kinds
  <2>5. adepth = 2
    BY <2>1, <2>2, DepthIsLength
  <2> QED BY <2>2, <2>4, <2>5 DEF Activation!Init
<1>2. IInv /\ ExactInv /\ [Next]_vars => [Activation!Next]_(Activation!avars)
  <2> SUFFICES ASSUME IInv, ExactInv, [Next]_vars
               PROVE  Activation!Next \/ UNCHANGED <<astack, adepth>>
    BY DEF Activation!avars
  <2>1. IInv' /\ ExactInv'
    BY NextIInv, NextExact
  <2>2. CASE Aborted'
    BY <2>2 DEF Activation!Next, Activation!Abort
  <2>3. CASE ~Aborted'
    <3>1. ~Aborted
      BY <2>3, AbortStays
    <3>2. /\ astack' = Kinds(scopeStack') /\ adepth' = Len(scopeStack')
          /\ Len(astack') = adepth'
      BY <2>1, <2>3, DepthIsLengthNext
    <3>3. /\ astack = Kinds(scopeStack) /\ adepth = Len(scopeStack)
          /\ scopeStack \in Seq(Names) /\ Len(astack) = Len(scopeStack)
          /\ Len(scopeStack) \in Nat \ {0}
      BY <3>1, DepthIsLength, Positions, Split DEF StackInv
    <3>4. CASE \E name \in Names : scopeStack' = Append(scopeStack, name)
      <4>1. PICK kind \in {"call", "loop"} : astack' = Append(astack, kind)
        BY <3>2, <3>3, <3>4, KindsOfAppend
      <4>2. astack # <<>>
        BY <3>3
      <4> HIDE DEF astack, adepth
      <4> QED BY <3>2, <4>1, <4>2 DEF Activation!Next, Activation!Open, Activation!InScope, astack, adepth
    <3>5. CASE LeaveScope
      <4> DEFINE b == TopFrame.base
      <4>1. /\ scopeStack' = SubSeq(scopeStack, 1, b - 1)
            /\ b \in 3..Len(scopeStack)
        BY <3>5, LeaveCuts, LeaveFindsOwn, Split
      <4>2. astack' = SubSeq(astack, 1, b - 1)
        <5>1. b - 1 \in 0..Len(scopeStack)
          BY <3>3, <4>1
        <5> QED BY <3>2, <3>3, <4>1, <5>1, KindsOfCut
      <4>3. \A p \in 1..Len(scopeStack) :
                astack[p] = IF IsLoopScope(scopeStack[p]) THEN "loop" ELSE "call"
        BY <3>3, KindsOf
      <4>4. \A j \in b+1..Len(astack) : astack[j] = "loop"
        BY <3>3, <3>5, <4>1, <4>3, LeaveFindsOwn
      <4>5. CASE TopFrame.kind = "loop"
        <5>1. b = Len(astack) /\ astack[b] = "loop" /\ astack # <<>>
          BY <3>3, <3>5, <4>1, <4>3, <4>5, LeaveFindsOwn
        <5> QED BY <3>2, <4>2, <4>4, <5>1
             DEF Activation!Next, Activation!CloseLoop, Activation!Close, Activation!InScope
      <4>6. CASE TopFrame.kind # "loop"
        <5>1. b \in 3..Len(astack) /\ astack[b] = "call"
          BY <3>3, <3>5, <4>1, <4>3, <4>6, LeaveFindsOwn
        <5> QED BY <3>2, <4>2, <4>4, <5>1
             DEF Activation!Next, Activation!CloseCall, Activation!Close, Activation!InScope
      <4> QED BY <4>5, <4>6
    <3>6. CASE scopeStack' = scopeStack
      <4>1. astack' = astack /\ adepth' = adepth
        BY <3>2, <3>3, <3>6
      <4> QED BY <4>1
    <3> QED BY <2>3, <3>1, <3>4, <3>5, <3>6, ScopeSteps
  <2> QED BY <2>2, <2>3
<1> QED BY <1>1, <1>2, ExactInductive, PTL DEF Spec, RefinesActivations, Activation!Spec

-----------------------------------------------------------------------------
LEMMA NextThis ==
    ASSUME Disciplined, "predicate" \notin Constructs, IInv, ExactInv, ThisInv, [Next]_vars
    PROVE  ThisInv'
<1> USE DEF Leave, Pass, Raised
<1>1. StackInv
  BY Split
<1>2. ASSUME thisObj' = thisObj, frames # <<>>, sig \notin {"throw", "error"},
             frames' = Callers \/ (\E f \in Frames : frames' = Append(frames, f)) \/ frames' = frames,
             frames' = Callers => TopFrame.kind \notin {"method", "ctor"}
      PROVE  ThisInv'
  <2> SUFFICES ASSUME thisObj # NoObject
               PROVE  \E i \in DOMAIN frames' : frames'[i].kind \in {"method", "ctor"}
    BY <1>2 DEF ThisInv
  <2>1. PICK i \in DOMAIN frames : frames[i].kind \in {"method", "ctor"}
    BY <1>2 DEF ThisInv
  <2>2. CASE frames' = Callers
    <3>1. Len(frames) \in Nat \ {0} /\ i \in 1..Len(frames) /\ i # Len(frames)
      BY <1>1, <1>2, <2>1, <2>2, EmptySeq, Positions DEF StackInv, TopFrame
    <3>2. Len(frames) - 1 \in 0..Len(frames) /\ i \in 1..Len(frames) - 1
      BY <3>1
    <3>3. i \in DOMAIN frames' /\ frames'[i] = frames[i]
      BY <1>1, <2>2, <3>2, Prefix DEF StackInv, Callers
    <3> QED BY <2>1, <3>3
  <2>3. CASE \E f \in Frames : frames' = Append(frames, f)
    <3>1. i \in DOMAIN frames' /\ frames'[i] = frames[i]
      BY <1>1, <2>1, <2>3, Appended, Positions DEF StackInv
    <3> QED BY <2>1, <3>1
  <2>4. CASE frames' = frames
    BY <2>1, <2>4
  <2> QED BY <1>2, <2>2, <2>3, <2>4
<1>3. CASE Execute
  <2>1. frames # <<>> /\ sig = "none"
    BY <1>3 DEF Execute, CallFunction, CallMethod, ConstructObject, RejectMethodCall,
       CallPredicate, EnterLoop, EnterBlock, EnterScope, MethodTooDeep, CallNative, Raise, Running
  <2>2. ASSUME NEW kind \in ScopedKinds, NEW name \in Names, EnterScope(kind, name)
        PROVE  \E f \in Frames : f.kind = kind /\ frames' = Append(frames, f)
    <3> DEFINE f == [kind |-> kind, own |-> name, base |-> Len(scopeStack) + 1, act |-> acts + 1]
    <3>1. f \in Frames /\ f.kind = kind
      BY <1>1, Positions DEF Frames, StackInv
    <3>2. frames' = Append(frames, f)
      BY <2>2 DEF EnterScope, PushFrame
    <3> QED BY <3>1, <3>2
  <2>3. \A f \in Frames : frames' = Append(frames, f) => frames' # Callers
    <3> SUFFICES ASSUME NEW f \in Frames, frames' = Append(frames, f), frames' = Callers
                 PROVE  FALSE
      OBVIOUS
    <3>1. Len(frames') = Len(frames) + 1
      <4>1. frames \in Seq(Frames)
        BY <1>1 DEF StackInv
      <4>2. Len(Append(frames, f)) = Len(frames) + 1
        BY <4>1, LenOfAppend
      <4> QED BY <4>2
    <3>2. Len(frames) \in Nat \ {0} /\ Len(frames) - 1 \in 0..Len(frames)
      BY <1>1, <2>1, EmptySeq, Positions DEF StackInv
    <3>3. Len(frames') = Len(frames) - 1
      BY <1>1, <3>2, Prefix DEF StackInv, Callers
    <3> QED BY <3>1, <3>2, <3>3
  <2>4. ASSUME NEW kind \in FunctionCalls, CallFunction(kind) PROVE ThisInv'
    <3>1. CallScopeName \in Names /\ kind \in ScopedKinds
      BY <1>1 DEF CallScopeName, Names, Segments, StackInv, ScopedKinds, BodyKinds
    <3>2. \E f \in Frames : frames' = Append(frames, f)
      BY <2>2, <2>4, <3>1 DEF CallFunction
    <3> QED BY <1>2, <2>1, <2>3, <2>4, <3>2 DEF CallFunction
  <2>5. ASSUME NEW o \in Objects, CallMethod(o) \/ ConstructObject(o) PROVE ThisInv'
    <3>1. <<Method>> \in Names /\ <<Construct, acts + 1>> \in Names
      BY <1>1 DEF Names, Segments, StackInv
    <3>2. {"method", "ctor"} \subseteq ScopedKinds
      BY DEF ScopedKinds, BodyKinds
    <3>3. PICK f \in Frames : f.kind \in {"method", "ctor"} /\ frames' = Append(frames, f)
      BY <2>2, <2>5, <3>1, <3>2 DEF CallMethod, ConstructObject
    <3>4. Len(frames) \in Nat /\ frames \in Seq(Frames)
      BY <1>1, Positions DEF StackInv
    <3>5. Len(frames) + 1 \in DOMAIN frames' /\ frames'[Len(frames) + 1] = f
      BY <3>3, <3>4, Appended
    <3> QED BY <3>3, <3>5 DEF ThisInv
  <2>6. ASSUME NEW site \in Sites, EnterLoop(site) PROVE ThisInv'
    <3>1. CurrentScope(scopeStack) \in Names
      BY <1>1, ElementOfSeq, Positions DEF StackInv, CurrentScope
    <3>2. Append(CurrentScope(scopeStack), site) \in Names
      BY <3>1 DEF Names, Segments
    <3>3. "loop" \in ScopedKinds
      BY DEF ScopedKinds
    <3>4. \E f \in Frames : frames' = Append(frames, f)
      BY <2>2, <2>6, <3>2, <3>3 DEF EnterLoop
    <3> QED BY <1>2, <2>1, <2>3, <2>6, <3>4 DEF EnterLoop
  <2>7. ASSUME NEW kind \in BlockKinds, EnterBlock(kind) PROVE ThisInv'
    <3> DEFINE f == [kind |-> kind, own |-> <<>>, base |-> 0, act |-> 0]
    <3>1. f \in Frames
      BY DEF Frames, Names
    <3>2. frames' = Append(frames, f)
      BY <2>7 DEF EnterBlock, PushFrame
    <3> HIDE DEF f
    <3>3. \E g \in Frames : frames' = Append(frames, g)
      BY <3>1, <3>2
    <3> QED BY <1>2, <2>1, <2>3, <2>7, <3>3 DEF EnterBlock
  <2>8. CASE MethodTooDeep \/ \E s \in Signals : Raise(s)
    BY <2>8 DEF MethodTooDeep, Raise, ThisInv, Running
  <2>9. CASE CallNative \/ \E o \in Objects : RejectMethodCall(o) \/ CallPredicate(o)
    BY <2>9 DEF CallNative, RejectMethodCall, CallPredicate, ThisInv
  <2> QED BY <1>3, <2>4, <2>5, <2>6, <2>7, <2>8, <2>9 DEF Execute
<1>4. CASE LeaveOrUnwind
  <2>0. frames # <<>>
    BY <1>4 DEF LeaveOrUnwind, LeaveCallStatement, LeaveCallExpression, LeaveCallback,
       LeaveMethod, LeaveLoop, LeaveBlock, LeaveFile, ContinueLoop, CatchException, PassBlock,
       ReturnThroughLoop, ThrowThroughScope, ThrowThroughCallStatement,
       ThrowThroughCallExpression, ThrowThroughCallback
  <2>1. TopFrame.kind \notin {"try", "catch", "propInit"}
    <3>1. Len(frames) \in DOMAIN frames
      BY <1>1, <2>0, EmptySeq, Positions DEF StackInv
    <3> QED BY <3>1 DEF ExactInv, StacksExact, FramesSound, TopFrame
  <2>2. CASE LeaveCallStatement \/ LeaveCallExpression \/ LeaveCallback \/ LeaveLoop
    BY <1>2, <2>0, <2>2 DEF LeaveCallStatement, LeaveCallExpression, LeaveCallback, LeaveLoop
  <2>3. CASE \E kind \in {"method", "ctor"} : LeaveMethod(kind)
    BY <2>3 DEF LeaveMethod, ThisInv
  <2>4. CASE LeaveBlock
    BY <1>2, <2>0, <2>1, <2>4 DEF LeaveBlock
  <2>5. CASE LeaveFile
    BY <1>1, <2>5, FileIsLast DEF ExactInv, StacksExact, ThisInv
  <2>6. CASE ContinueLoop
    BY <2>6 DEF ContinueLoop, ThisInv
  <2>7. ~CatchException
    BY <2>1 DEF CatchException
  <2>8. CASE PassBlock \/ ReturnThroughLoop
    <3>1. /\ frames' = Callers /\ thisObj' = thisObj /\ sig' = sig
          /\ TopFrame.kind \notin {"method", "ctor"}
      BY <2>8 DEF PassBlock, ReturnThroughLoop
    <3>2. CASE sig \in {"throw", "error"}
      BY <3>1, <3>2 DEF ThisInv
    <3>3. CASE sig \notin {"throw", "error"}
      BY <1>2, <2>0, <3>1, <3>3
    <3> QED BY <3>2, <3>3
  <2>9. CASE \/ ThrowThroughScope \/ ThrowThroughCallStatement
             \/ ThrowThroughCallExpression \/ ThrowThroughCallback
    BY <2>9 DEF ThrowThroughScope, ThrowThroughCallStatement, ThrowThroughCallExpression,
       ThrowThroughCallback, ThisInv
  <2> QED BY <1>4, <2>2, <2>3, <2>4, <2>5, <2>6, <2>7, <2>8, <2>9 DEF LeaveOrUnwind
<1>5. CASE Finished \/ UNCHANGED vars
  BY <1>5 DEF Finished, vars, ThisInv
<1> QED BY <1>3, <1>4, <1>5 DEF Next

\* Scripts without `try', property defaults and the predicates that forget to
\* clear thisObject_: private members are open only while a method or a
\* constructor runs.
THEOREM PrivateGuarded ==
    ASSUME Disciplined, "predicate" \notin Constructs
    PROVE  Spec => []PrivateOnlyInMethods
<1>1. Init => ThisInv
  BY DEF Init, ThisInv
<1>2. IInv /\ ExactInv /\ ThisInv /\ [Next]_vars => ThisInv'
  BY NextThis
<1>3. ThisInv => PrivateOnlyInMethods
  BY DEF ThisInv, PrivateOnlyInMethods, PrivateAccess, Running
<1> QED BY <1>1, <1>2, <1>3, ExactInductive, PTL DEF Spec

=============================================================================
