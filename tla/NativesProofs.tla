--------------------------- MODULE NativesProofs ---------------------------
(***************************************************************************)
(* Of the objects of native classes, for every number of objects, calls,   *)
(* base URLs, timeouts and steps: numbers follow `new`, a step touches one *)
(* instance, every handle is in one place, requests go out as asked, and   *)
(* captures are their own.                                                 *)
(*                                                                         *)
(* NativesInv, the inductive invariant, has a part for each:               *)
(*   - Typed and Numbered: numbers are below the counter, and each that    *)
(*     was given is on an object, so that the counter cannot leave Keys;   *)
(*     the object that `new` made fixes the class;                         *)
(*   - Sound: what HandlesAreHeld says, of the tables as one function from *)
(*     places to handles; the lemmas about it are of any library and any   *)
(*     such function, one for each thing that calls do to them;            *)
(*   - OptionsAccounted: an option that is set on a handle of libcurl has  *)
(*     a use of that handle in its history;                                *)
(*   - CapturesNested: only the generation on top can have the callbacks,  *)
(*     and it has them unless something captured inside it.                *)
(*                                                                         *)
(* Of the documents of Xml2, which leave all of that alone, for trees of   *)
(* any depth: they are cleaned up once.  DocumentsInv, the inductive       *)
(* invariant, says who owns what and why a node was freed:                 *)
(*   - NodeSound, KeepsItsKind: what a node has for a parent and a         *)
(*     document, and what objects of a class point to;                     *)
(*   - OwnedAreRoots, OneOwner: an object owns roots that no call frees,   *)
(*     and shares none of them;                                            *)
(*   - Rooted: a root without an owner is one of those that may leak;      *)
(*   - FreedOnce: a call freed a node, or the destructor of its owner, and *)
(*     nothing else.                                                       *)
(* What is said of all the nodes above one is proved by a least one of     *)
(* which it is false (LeastOf).                                            *)
(***************************************************************************)
EXTENDS Natives, SequenceTheorems, FiniteSetTheorems, FunctionTheorems, TLAPS

-----------------------------------------------------------------------------
(* The inductive invariant. *)

Typed == /\ IdentityTypeOK /\ DatabasesTypeOK /\ HttpTypeOK /\ GenerationTypeOK
         /\ calls \in 0..MaxCalls /\ stamps # 0

\* A number was given to an object, and an object has the class and the
\* number of what `new` made, but for a number that came late.
Numbered ==
    /\ \A o \in Known : objects[o].id < stamps /\ objects[o].origin <= Len(objects)
    /\ \A n \in 1..(stamps - 1) : \E o \in Known : objects[o].id = n
    /\ \A o, p \in Known : objects[o].origin = objects[p].origin
                              => objects[o].class = objects[p].class

Places == Tables \X Keys

\* The class of the handles in a table.
Of(t) == CASE t = "dbs" -> "SQLite" [] t = "clients" -> "MariaDBConnection"
           [] t = "memcs" -> "MemcachedConnection" [] t = "curls" -> "CurlClient"
           [] t = "contexts" -> "StableDiffusion"

Entries == [p \in Places |-> Entry(p[1], p[2])]

\* Handles that may be open and nowhere.
LeftBehind(handle) == \/ handle.of = "SQLite" /\ handle.state = "pinned"
                      \/ handle.of = "MariaDBConnection" /\ handle.state = "new"
                      \/ handle.of = "upscaler" /\ handle.state = "new"
                      \/ handle.of = "input"

InTable(e, h) == \E p \in Places : e[p] = h
InUse(run, h) == \E i \in DOMAIN run : run[i].upscaler /\ run[i].uses = h

\* A library, the entries of the tables and the generations that run, taken
\* together.
Sound(lib, e, run) ==
    /\ \A p \in Places : e[p] # 0 => /\ e[p] \in DOMAIN lib
                                     /\ lib[e[p]].open /\ lib[e[p]].of = Of(p[1])
    /\ \A p, q \in Places : e[p] # 0 /\ e[p] = e[q] => p = q
    /\ \A i \in DOMAIN run : run[i].upscaler => /\ run[i].uses \in DOMAIN lib
                                                /\ lib[run[i].uses].open
                                                /\ lib[run[i].uses].of = "upscaler"
    /\ \A i, j \in DOMAIN run :
          run[i].upscaler /\ run[j].upscaler /\ run[i].uses = run[j].uses => i = j
    /\ \A h \in DOMAIN lib : lib[h].open => InTable(e, h) \/ InUse(run, h) \/ LeftBehind(lib[h])

\* A client of MariaDB with a connection that it did not use has it new.
ClientsSound ==
    \A k \in Keys : /\ clients[k].connected => clients[k].conn # 0
                    /\ ~clients[k].connected /\ clients[k].conn # 0
                          => library[clients[k].conn].state = "new"

\* What is set on a handle was set by a use of it.
OptionsAccounted ==
    \A k \in Keys :
        /\ curls[k].custom # "" => curls[k].custom \in before[k] \cap {"PUT", "DELETE"}
        /\ curls[k].post => before[k] \cap {"POST", "PUT"} # {}
        /\ curls[k].body # 0 => before[k] \cap {"POST", "PUT"} # {}
        /\ curls[k].headers # 0 => "headers" \in before[k]
        /\ curls[k].freed => "dropped headers" \in before[k]

\* The callbacks are the top's or nobody's, and nobody's only if something
\* captured inside it, as something did inside all below.
CapturesNested ==
    /\ \A i \in 1..Depth : i < Depth => running[i].nested
    /\ active.handler => active.on
    /\ Depth > 0 => /\ active.on => active.id = Top.id /\ active.handler = Top.handler
                    /\ Top.nested \/ active.on

NativesInv == /\ Typed /\ Numbered /\ IdentityFollowsNew
              /\ Sound(library, Entries, running) /\ ClientsSound
              /\ OptionsAccounted /\ RequestsAsAsked
              /\ CapturesNested /\ CapturesAreOwn

-----------------------------------------------------------------------------
(* Identity. *)

LEMMA ObjectTypes ==
    ASSUME IdentityTypeOK
    PROVE  /\ Len(objects) \in Nat /\ Known = 1..Len(objects)
           /\ stamps \in Nat
           /\ \A o \in Known : /\ objects[o] \in [class : Classes, id : {0} \cup Keys, origin : Addresses]
                               /\ objects[o].class \in Classes /\ objects[o].id \in Nat
                               /\ objects[o].id \in {0} \cup Keys /\ objects[o].origin \in Nat
<1>1. /\ objects \in Seq([class : Classes, id : {0} \cup Keys, origin : Addresses])
      /\ stamps \in Nat
    BY DEF IdentityTypeOK
<1>2. Len(objects) \in Nat /\ Known = 1..Len(objects)
    BY <1>1 DEF Known
<1>3. ASSUME NEW o \in Known
      PROVE  objects[o] \in [class : Classes, id : {0} \cup Keys, origin : Addresses]
    BY <1>1, <1>2, ElementOfSeq
<1>4. {0} \cup Keys \subseteq Nat /\ Addresses \subseteq Nat
    BY IdentityAssumption DEF Keys, Addresses
<1>5. ASSUME NEW o \in Known
      PROVE  /\ objects[o].class \in Classes /\ objects[o].id \in Nat
             /\ objects[o].id \in {0} \cup Keys /\ objects[o].origin \in Nat
    <2>1. /\ objects[o].class \in Classes /\ objects[o].id \in {0} \cup Keys
          /\ objects[o].origin \in Addresses
        BY <1>3
    <2> QED BY <2>1, <1>4, Zenon
<1> QED BY <1>1, <1>2, <1>3, <1>5

\* Numbers that are all on objects are not more than the objects.
LEMMA NumbersFit ==
    ASSUME IdentityTypeOK, NEW a \in 0..1,
           \A k \in a..(stamps - 1) : \E o \in Known : objects[o].id = k
    PROVE  stamps - a <= Len(objects)
<1>1. PICK n \in Nat : n = Len(objects)
    BY ObjectTypes
<1>2. PICK b \in Int : b = stamps - 1
    BY ObjectTypes
<1>3. /\ IsFiniteSet(1..n) /\ Cardinality(1..n) = n
      /\ IsFiniteSet(a..b) /\ Cardinality(a..b) = IF a > b THEN 0 ELSE b - a + 1
    <2>1. 1 \in Int /\ n \in Int /\ a \in Int /\ b \in Int
        OBVIOUS
    <2>2. /\ IsFiniteSet(1..n) /\ Cardinality(1..n) = IF 1 > n THEN 0 ELSE n - 1 + 1
          /\ IsFiniteSet(a..b) /\ Cardinality(a..b) = IF a > b THEN 0 ELSE b - a + 1
        BY <2>1, FS_Interval
    <2> QED BY <2>1, <2>2
<1> DEFINE f == [k \in a..b |-> CHOOSE o \in 1..n : objects[o].id = k]
<1>4. \A k \in a..b : f[k] \in 1..n /\ objects[f[k]].id = k
    <2> TAKE k \in a..b
    <2>1. k \in a..(stamps - 1)
        BY <1>2
    <2>2. \E o \in 1..n : objects[o].id = k
        BY <1>1, <2>1, ObjectTypes
    <2>3. f[k] = CHOOSE o \in 1..n : objects[o].id = k
        OBVIOUS
    <2> QED BY <2>2, <2>3
<1>5. f \in Injection(a..b, 1..n)
    <2>1. f \in [a..b -> 1..n]
        BY <1>4
    <2> HIDE DEF f
    <2>2. ASSUME NEW k \in a..b, NEW l \in a..b, f[k] = f[l]
          PROVE  k = l
        <3>1. objects[f[k]].id = k /\ objects[f[l]].id = l
            BY <1>4
        <3> QED BY <2>2, <3>1
    <2> QED BY <2>1, <2>2 DEF Injection, IsInjective
<1>6. Cardinality(a..b) <= Cardinality(1..n)
    BY <1>3, <1>5, FS_Injection
<1>7. CASE a > b
    BY <1>1, <1>2, <1>7, ObjectTypes
<1>8. CASE ~(a > b)
    <2>1. a \in Nat /\ stamps \in Nat
        BY ObjectTypes
    <2> QED BY <1>1, <1>2, <1>3, <1>6, <1>8, <2>1
<1> QED BY <1>7, <1>8

\* What a step does to the objects.
IdentityStep == \/ \E class \in Classes : Make(class)
                \/ \E o \in Known : Identify(o)
                \/ \E o \in Known : Copy(o)
                \/ UNCHANGED <<objects, stamps>>

IdentityInv == IdentityTypeOK /\ stamps # 0 /\ Numbered /\ IdentityFollowsNew

\* The number that a call finds or gives, and the one that `new` gives, is
\* one of the keys.
LEMMA KeysSuffice ==
    ASSUME IdentityInv
    PROVE  /\ Len(objects) < MaxObjects => stamps \in Keys
           /\ \A o \in Known : Key(o) \in Keys
<1> USE IdentityAssumption
<1>1. /\ IdentityTypeOK /\ Numbered /\ stamps # 0
    BY DEF IdentityInv
<1>2. /\ Len(objects) \in Nat /\ Known = 1..Len(objects) /\ stamps \in Nat \ {0}
      /\ Len(objects) <= MaxObjects
    BY <1>1, ObjectTypes DEF IdentityTypeOK
<1>3. stamps - 1 <= Len(objects)
    BY <1>1, <1>2, NumbersFit DEF Numbered
<1>4. ASSUME NEW o \in Known, objects[o].id = 0
      PROVE  stamps \in Keys
    <2>1. ASSUME NEW n \in 0..(stamps - 1)
          PROVE  \E p \in Known : objects[p].id = n
        BY <1>1, <1>2, <1>4 DEF Numbered
    <2>2. stamps - 0 <= Len(objects)
        BY <1>1, <2>1, NumbersFit
    <2> QED BY <1>2, <2>2 DEF Keys
<1>5. ASSUME NEW o \in Known
      PROVE  Key(o) \in Keys
    <2>1. objects[o].id \in {0} \cup Keys
        BY <1>1, ObjectTypes
    <2> QED BY <1>4, <2>1 DEF Key
<1> QED BY <1>2, <1>3, <1>5 DEF Keys

LEMMA MakeKeeps ==
    ASSUME IdentityInv, NEW class \in Classes, Make(class)
    PROVE  IdentityInv'
<1> USE IdentityAssumption
<1>1. IdentityTypeOK /\ Numbered /\ IdentityFollowsNew /\ stamps # 0
    BY DEF IdentityInv
<1>2. /\ Len(objects) \in Nat /\ Known = 1..Len(objects) /\ stamps \in Nat \ {0}
      /\ Len(objects) < MaxObjects /\ Fresh \in 1..MaxObjects
    BY <1>1, ObjectTypes DEF Make, Fresh
<1>3. stamps \in Keys
    BY <1>2, KeysSuffice
<1> DEFINE new == objects'[Fresh]
<1>4. /\ Len(objects') = Fresh /\ Known' = 1..Fresh
      /\ \A o \in Known : objects'[o] = objects[o]
      /\ new = [class |-> class, id |-> IF class = "SQLite" THEN 0 ELSE stamps, origin |-> Fresh]
      /\ stamps' = IF class = "SQLite" THEN stamps ELSE stamps + 1
      /\ objects' \in Seq([class : Classes, id : {0} \cup Keys, origin : Addresses])
    <2>1. new \in [class : Classes, id : {0} \cup Keys, origin : Addresses]
          /\ new = [class |-> class, id |-> IF class = "SQLite" THEN 0 ELSE stamps, origin |-> Fresh]
          /\ objects' = Append(objects, new)
        <3> DEFINE made == [class |-> class, id |-> IF class = "SQLite" THEN 0 ELSE stamps, origin |-> Fresh]
        <3>1. objects' = Append(objects, made)
            BY DEF Make
        <3>2. objects'[Fresh] = made
            BY <1>1, <3>1, <1>2 DEF Fresh, IdentityTypeOK
        <3>3. made \in [class : Classes, id : {0} \cup Keys, origin : Addresses]
            BY <1>2, <1>3 DEF Addresses
        <3> QED BY <3>1, <3>2, <3>3
    <2> HIDE DEF new
    <2>2. stamps' = IF class = "SQLite" THEN stamps ELSE stamps + 1
        BY DEF Make
    <2> QED BY <1>1, <1>2, <2>1, <2>2 DEF Fresh, Known, IdentityTypeOK
<1>5. (IdentityTypeOK /\ stamps # 0)'
    BY <1>2, <1>4 DEF IdentityTypeOK
<1>6. \A o \in Known' : o = Fresh \/ o \in Known
    BY <1>2, <1>4 DEF Fresh
<1>7. \A o \in Known : /\ objects[o].id \in Nat /\ objects[o].id < stamps
                       /\ objects[o].origin \in Nat /\ objects[o].origin < Fresh
    BY <1>1, <1>2, ObjectTypes DEF Numbered, Fresh
<1>8. Numbered'
    <2>1. \A o \in Known' : objects'[o].id < stamps' /\ objects'[o].origin <= Len(objects')
        BY <1>2, <1>4, <1>6, <1>7 DEF Fresh
    <2>2. \A n \in 1..(stamps' - 1) : \E o \in Known' : objects'[o].id = n
        <3> TAKE n \in 1..(stamps' - 1)
        <3>1. CASE n \in 1..(stamps - 1)
            BY <3>1, <1>1, <1>2, <1>4 DEF Numbered, Fresh
        <3>2. CASE n \notin 1..(stamps - 1)
            <4>1. n = stamps /\ class # "SQLite"
                BY <3>2, <1>2, <1>4
            <4> QED BY <4>1, <1>2, <1>4
        <3> QED BY <3>1, <3>2
    <2>3. ASSUME NEW o \in Known', NEW p \in Known', objects'[o].origin = objects'[p].origin
          PROVE  objects'[o].class = objects'[p].class
        <3>1. CASE o \in Known /\ p \in Known
            BY <2>3, <3>1, <1>1, <1>4 DEF Numbered
        <3>2. CASE o = Fresh /\ p = Fresh
            BY <3>2
        <3>3. CASE o = Fresh /\ p \in Known
            BY <2>3, <3>3, <1>2, <1>4, <1>7
        <3>4. CASE o \in Known /\ p = Fresh
            BY <2>3, <3>4, <1>2, <1>4, <1>7
        <3> QED BY <1>6, <3>1, <3>2, <3>3, <3>4
    <2> QED BY <2>1, <2>2, <2>3 DEF Numbered
<1>9. IdentityFollowsNew'
    <2> SUFFICES ASSUME NEW o \in Known', NEW p \in Known'
                 PROVE  /\ objects'[o].id # 0 /\ objects'[o].id = objects'[p].id
                              => objects'[o].origin = objects'[p].origin
                        /\ objects'[o].origin = objects'[p].origin /\ objects'[o].class \in AtOnce
                              => objects'[o].id = objects'[p].id /\ objects'[o].id # 0
        BY DEF IdentityFollowsNew
    <2>1. CASE o \in Known /\ p \in Known
        BY <2>1, <1>1, <1>4 DEF IdentityFollowsNew
    <2>2. CASE o = Fresh /\ p = Fresh
        BY <2>2, <1>2, <1>4 DEF AtOnce
    <2>3. CASE o = Fresh /\ p \in Known
        BY <2>3, <1>2, <1>4, <1>7
    <2>4. CASE o \in Known /\ p = Fresh
        BY <2>4, <1>2, <1>4, <1>7
    <2> QED BY <1>6, <2>1, <2>2, <2>3, <2>4
<1> QED BY <1>5, <1>8, <1>9 DEF IdentityInv

LEMMA CopyKeeps ==
    ASSUME IdentityInv, NEW c \in Known, Copy(c)
    PROVE  IdentityInv'
<1> USE IdentityAssumption
<1>1. IdentityTypeOK /\ Numbered /\ IdentityFollowsNew /\ stamps # 0
    BY DEF IdentityInv
<1>2. /\ Len(objects) \in Nat /\ Known = 1..Len(objects) /\ stamps \in Nat \ {0}
      /\ Len(objects) < MaxObjects
    BY <1>1, ObjectTypes DEF Copy
<1>3. /\ Len(objects') = Fresh /\ Known' = 1..Fresh /\ stamps' = stamps
      /\ \A o \in Known : objects'[o] = objects[o]
      /\ objects'[Fresh] = objects[c]
      /\ objects' \in Seq([class : Classes, id : {0} \cup Keys, origin : Addresses])
    BY <1>1, <1>2, ObjectTypes DEF Copy, Fresh, Known, IdentityTypeOK
<1>4. (IdentityTypeOK /\ stamps # 0)'
    BY <1>1, <1>2, <1>3 DEF IdentityTypeOK, Fresh
<1>5. \A o \in Known' : \E q \in Known : objects'[o] = objects[q]
    BY <1>2, <1>3 DEF Fresh
<1>6. Numbered'
    <2>1. \A o \in Known' : objects'[o].id < stamps' /\ objects'[o].origin <= Len(objects')
        <3> TAKE o \in Known'
        <3>1. PICK q \in Known : objects'[o] = objects[q]
            BY <1>5
        <3>2. objects[q].id < stamps /\ objects[q].origin <= Len(objects) /\ objects[q].origin \in Nat
            BY <1>1, ObjectTypes DEF Numbered
        <3> QED BY <3>1, <3>2, <1>2, <1>3 DEF Fresh
    <2>2. \A n \in 1..(stamps' - 1) : \E o \in Known' : objects'[o].id = n
        BY <1>1, <1>2, <1>3 DEF Numbered, Fresh
    <2>3. \A o, p \in Known' : objects'[o].origin = objects'[p].origin
                                 => objects'[o].class = objects'[p].class
        BY <1>1, <1>5 DEF Numbered
    <2> QED BY <2>1, <2>2, <2>3 DEF Numbered
<1>7. IdentityFollowsNew'
    <2> SUFFICES ASSUME NEW o \in Known', NEW p \in Known'
                 PROVE  /\ objects'[o].id # 0 /\ objects'[o].id = objects'[p].id
                              => objects'[o].origin = objects'[p].origin
                        /\ objects'[o].origin = objects'[p].origin /\ objects'[o].class \in AtOnce
                              => objects'[o].id = objects'[p].id /\ objects'[o].id # 0
        BY DEF IdentityFollowsNew
    <2>1. PICK q \in Known, r \in Known : objects'[o] = objects[q] /\ objects'[p] = objects[r]
        BY <1>5
    <2> QED BY <2>1, <1>1 DEF IdentityFollowsNew
<1> QED BY <1>4, <1>6, <1>7 DEF IdentityInv

LEMMA IdentifyKeeps ==
    ASSUME IdentityInv, NEW c \in Known, Identify(c)
    PROVE  IdentityInv'
<1> USE IdentityAssumption
<1>1. IdentityTypeOK /\ Numbered /\ IdentityFollowsNew /\ stamps # 0
    BY DEF IdentityInv
<1>2. /\ Len(objects) \in Nat /\ Known = 1..Len(objects) /\ stamps \in Nat \ {0}
      /\ Key(c) \in Keys
    BY <1>1, ObjectTypes, KeysSuffice
<1>3. /\ Len(objects') = Len(objects) /\ Known' = Known
      /\ \A o \in Known : /\ objects'[o].class = objects[o].class
                          /\ objects'[o].origin = objects[o].origin
                          /\ objects'[o].id = IF o = c THEN Key(c) ELSE objects[o].id
      /\ objects' \in Seq([class : Classes, id : {0} \cup Keys, origin : Addresses])
    <2>1. objects' = [objects EXCEPT ![c].id = Key(c)]
        BY DEF Identify
    <2>2. [objects[c] EXCEPT !.id = Key(c)] \in [class : Classes, id : {0} \cup Keys, origin : Addresses]
        BY <1>1, <1>2, ObjectTypes
    <2>3. objects' \in Seq([class : Classes, id : {0} \cup Keys, origin : Addresses])
          /\ Len(objects') = Len(objects)
        BY <2>1, <2>2, <1>1, <1>2 DEF IdentityTypeOK
    <2> QED BY <2>1, <2>3, <1>1, <1>2, ObjectTypes DEF Known
<1>4. \A o \in Known : /\ objects[o].id \in Nat /\ objects[o].id < stamps
                       /\ objects[o].origin \in Nat /\ objects[o].class \in Classes
    BY <1>1, ObjectTypes DEF Numbered
<1>5. CASE objects[c].id # 0
    <2>1. objects' = objects /\ stamps' = stamps
        <3>1. stamps' = stamps /\ Key(c) = objects[c].id
            BY <1>5 DEF Identify, Key
        <3>2. objects' = [objects EXCEPT ![c] = [objects[c] EXCEPT !.id = objects[c].id]]
            BY <3>1 DEF Identify
        <3>3. [objects[c] EXCEPT !.id = objects[c].id] = objects[c]
            BY <1>1, ObjectTypes
        <3> QED BY <3>1, <3>2, <3>3, <1>1 DEF IdentityTypeOK, Known
    <2> QED BY <2>1, <1>1 DEF IdentityInv, IdentityTypeOK, Numbered, IdentityFollowsNew, Known
<1>6. CASE objects[c].id = 0
    <2>1. stamps' = stamps + 1 /\ Key(c) = stamps
        BY <1>6 DEF Identify, Key
    <2>2. (IdentityTypeOK /\ stamps # 0)'
        BY <1>1, <1>2, <1>3, <2>1 DEF IdentityTypeOK
    <2>3. Numbered'
        <3>1. \A o \in Known' : objects'[o].id < stamps' /\ objects'[o].origin <= Len(objects')
            BY <1>1, <1>2, <1>3, <1>4, <2>1 DEF Numbered
        <3>2. \A n \in 1..(stamps' - 1) : \E o \in Known' : objects'[o].id = n
            <4> TAKE n \in 1..(stamps' - 1)
            <4>1. CASE n = stamps
                BY <4>1, <1>3, <2>1
            <4>2. CASE n # stamps
                <5>1. n \in 1..(stamps - 1)
                    BY <4>2, <2>1, <1>2
                <5>2. PICK o \in Known : objects[o].id = n
                    BY <5>1, <1>1 DEF Numbered
                <5>3. o # c
                    BY <5>1, <5>2, <1>6
                <5> QED BY <5>2, <5>3, <1>3
            <4> QED BY <4>1, <4>2
        <3>3. \A o, p \in Known' : objects'[o].origin = objects'[p].origin
                                     => objects'[o].class = objects'[p].class
            BY <1>1, <1>3 DEF Numbered
        <3> QED BY <3>1, <3>2, <3>3 DEF Numbered
    <2>4. IdentityFollowsNew'
        <3> SUFFICES ASSUME NEW o \in Known', NEW p \in Known'
                     PROVE  /\ objects'[o].id # 0 /\ objects'[o].id = objects'[p].id
                                  => objects'[o].origin = objects'[p].origin
                            /\ objects'[o].origin = objects'[p].origin /\ objects'[o].class \in AtOnce
                                  => objects'[o].id = objects'[p].id /\ objects'[o].id # 0
            BY DEF IdentityFollowsNew
        <3>1. objects[c].class \notin AtOnce
            BY <1>1, <1>6 DEF IdentityFollowsNew
        <3>2. \A q \in Known : objects[q].id # stamps
            BY <1>2, <1>4
        <3>3. objects[o].origin = objects[p].origin => objects[o].class = objects[p].class
            BY <1>1, <1>3 DEF Numbered
        <3>4. CASE o # c /\ p # c
            BY <3>4, <1>1, <1>3 DEF IdentityFollowsNew
        <3>5. CASE o = c \/ p = c
            BY <3>1, <3>2, <3>3, <3>5, <1>2, <1>3, <2>1
        <3> QED BY <3>4, <3>5
    <2> QED BY <2>2, <2>3, <2>4 DEF IdentityInv
<1> QED BY <1>5, <1>6

LEMMA IdentityKept ==
    ASSUME IdentityInv, IdentityStep
    PROVE  IdentityInv'
<1>1. CASE UNCHANGED <<objects, stamps>>
    BY <1>1 DEF IdentityInv, IdentityTypeOK, Numbered, IdentityFollowsNew, Known
<1> QED BY <1>1, MakeKeeps, CopyKeeps, IdentifyKeeps DEF IdentityStep

LEMMA StepOnIdentity ==
    ASSUME [Next]_vars
    PROVE  IdentityStep
<1>1. CASE Database
    BY <1>1 DEF Database, DatabaseNew, DatabaseCall, SqliteNew, SqliteOpen, SqliteOpenFails, SqliteClose,
                SqliteIsOpen, SqliteBadParams, MariaNew, MariaConstruct, MariaConnect, MariaConnectFails,
                MariaConnectAgain, MariaDisconnect, MemcachedNew, MemcachedConstruct,
                MemcachedDisconnect, IdentityStep, Classes, AtOnce
<1>2. CASE Http
    <2>1. ASSUME NEW o \in Known, NEW verb \in Verbs, Request(o, verb)
          PROVE  Make("CurlResponse")
        BY <2>1, Zenon DEF Request
    <2>2. ASSUME NEW o \in Known, RequestRefused(o)
          PROVE  UNCHANGED <<objects, stamps>>
        BY <2>2, Zenon DEF RequestRefused
    <2> QED BY <1>2, <2>1, <2>2 DEF Http, HttpNew, HttpCall, CurlNew, CurlConstruct, Configure,
                ResponseNew, ResponseConstruct, IdentityStep, Classes, AtOnce
<1>3. CASE Diffusion
    BY <1>3 DEF Diffusion, SdNew, GenerationCall, LoadModel, Unload, ClearLog, Generate, Upscale,
                InputFails, UpscaleFails, LoadControlNet, IdentityStep, Classes, AtOnce
<1>4. CASE Pass
    BY <1>4 DEF Pass, IdentityStep
<1>5. CASE UNCHANGED <<objects, stamps>>
    BY <1>5 DEF IdentityStep
<1> QED BY <1>1, <1>2, <1>3, <1>4, <1>5 DEF Next, Script, Library, Xml, Exit, vars, tableVars

-----------------------------------------------------------------------------
(* Types. *)

\* What is done to a library, one handle at a time.
LEMMA EditedIs ==
    ASSUME NEW lib \in Seq(Handle), NEW h, NEW x, h \in DOMAIN lib => x \in Handle
    PROVE  [lib EXCEPT ![h] = x] \in Seq(Handle) /\ Len([lib EXCEPT ![h] = x]) = Len(lib)
<1>1. CASE h \in DOMAIN lib
    BY <1>1, ExceptSeq
<1>2. CASE h \notin DOMAIN lib
    <2>1. [lib EXCEPT ![h] = x] = lib
        BY <1>2
    <2> QED BY <2>1
<1> QED BY <1>1, <1>2

LEMMA ClosedIs ==
    ASSUME NEW lib \in Seq(Handle), NEW h
    PROVE  /\ Closed(lib, h) \in Seq(Handle) /\ Len(Closed(lib, h)) = Len(lib)
           /\ DOMAIN Closed(lib, h) = DOMAIN lib
           /\ \A g \in DOMAIN lib :
                 /\ g # h => Closed(lib, h)[g] = lib[g]
                 /\ Closed(lib, h)[g].of = lib[g].of /\ Closed(lib, h)[g].state = lib[g].state
                 /\ g = h => ~Closed(lib, h)[g].open
<1>1. \A g \in DOMAIN lib : g # 0 /\ lib[g] \in Handle
    BY ElementOfSeq
<1>2. CASE h = 0
    BY <1>1, <1>2 DEF Closed
<1>3. CASE h # 0
    <2>1. Closed(lib, h) = [lib EXCEPT ![h].open = FALSE]
        BY <1>3 DEF Closed
    <2>2. \A g \in DOMAIN lib : [lib[g] EXCEPT !.open = FALSE] \in Handle
        BY <1>1 DEF Handle
    <2>3. \A g \in DOMAIN lib :
             [lib EXCEPT ![h].open = FALSE][g] = IF g = h THEN [lib[g] EXCEPT !.open = FALSE] ELSE lib[g]
        OBVIOUS
    <2>4. [lib EXCEPT ![h].open = FALSE] \in Seq(Handle) /\ Len([lib EXCEPT ![h].open = FALSE]) = Len(lib)
        BY <2>2, EditedIs
    <2> QED BY <1>1, <2>1, <2>3, <2>4 DEF Handle
<1> QED BY <1>2, <1>3

LEMMA OpenedIs ==
    ASSUME NEW lib \in Seq(Handle), NEW class \in Classes \cup {"input", "upscaler"}, NEW state \in States
    PROVE  /\ Opened(lib, class, state) \in Seq(Handle)
           /\ Len(Opened(lib, class, state)) = NextHandle(lib)
           /\ NextHandle(lib) \in Nat /\ NextHandle(lib) # 0 /\ NextHandle(lib) \notin DOMAIN lib
           /\ DOMAIN Opened(lib, class, state) = DOMAIN lib \cup {NextHandle(lib)}
           /\ \A g \in DOMAIN lib : Opened(lib, class, state)[g] = lib[g]
           /\ Opened(lib, class, state)[NextHandle(lib)].of = class
           /\ Opened(lib, class, state)[NextHandle(lib)].open
           /\ Opened(lib, class, state)[NextHandle(lib)].state = state
<1>1. [of |-> class, open |-> TRUE, state |-> state] \in Handle
    BY DEF Handle
<1> QED BY <1>1 DEF Opened, NextHandle

LEMMA MarkedIs ==
    ASSUME NEW lib \in Seq(Handle), NEW h, NEW state \in States
    PROVE  /\ [lib EXCEPT ![h].state = state] \in Seq(Handle)
           /\ DOMAIN [lib EXCEPT ![h].state = state] = DOMAIN lib
           /\ \A g \in DOMAIN lib :
                 /\ g # h => [lib EXCEPT ![h].state = state][g] = lib[g]
                 /\ [lib EXCEPT ![h].state = state][g].of = lib[g].of
                 /\ [lib EXCEPT ![h].state = state][g].open = lib[g].open
                 /\ g = h => [lib EXCEPT ![h].state = state][g].state = state
<1>1. \A g \in DOMAIN lib : lib[g] \in Handle
    BY ElementOfSeq
<1>2. \A g \in DOMAIN lib : [lib[g] EXCEPT !.state = state] \in Handle
    BY <1>1 DEF Handle
<1>3. \A g \in DOMAIN lib :
         [lib EXCEPT ![h].state = state][g] = IF g = h THEN [lib[g] EXCEPT !.state = state] ELSE lib[g]
    OBVIOUS
<1>4. [lib EXCEPT ![h].state = state] \in Seq(Handle)
    BY <1>2, EditedIs
<1> QED BY <1>1, <1>3, <1>4 DEF Handle

LEMMA SqliteClosedIs ==
    ASSUME NEW lib \in Seq(Handle), NEW h
    PROVE  /\ SqliteClosed(lib, h) \in Seq(Handle)
           /\ SqliteClosed(lib, h) = lib \/ SqliteClosed(lib, h) = Closed(lib, h)
BY ClosedIs DEF SqliteClosed

LEMMA DisconnectedIs ==
    ASSUME NEW lib \in Seq(Handle), NEW c
    PROVE  /\ Disconnected(lib, c) \in Seq(Handle)
           /\ Disconnected(lib, c) = IF c.connected THEN Closed(lib, c.conn) ELSE lib
BY ClosedIs DEF Disconnected

LEMMA DatabaseTypes ==
    ASSUME Typed, Database
    PROVE  DatabasesTypeOK'
<1> USE DEF Classes, AtOnce, States
<1>1. /\ library \in Seq(Handle) /\ dbs \in [Keys -> Nat] /\ memcs \in [Keys -> Nat]
      /\ clients \in [Keys -> [conn : Nat, connected : BOOLEAN]]
      /\ over \in {"no", "locked", "crashed"}
    BY DEF Typed, DatabasesTypeOK
<1>2. ASSUME NEW lib \in Seq(Handle), NEW k
      PROVE  [dbs EXCEPT ![k] = NextHandle(lib)] \in [Keys -> Nat]
    BY <1>1, OpenedIs
<1>3. CASE SqliteNew \/ (\E o \in Known : SqliteIsOpen(o))
    BY <1>1, <1>3 DEF SqliteNew, SqliteIsOpen, DatabasesTypeOK, dbVars
<1>4. ASSUME NEW o \in Known, SqliteOpen(o)
      PROVE  DatabasesTypeOK'
    <2>1. library' \in Seq(Handle)
        BY <1>1, <1>4, SqliteClosedIs, OpenedIs DEF SqliteOpen
    <2>2. dbs' \in [Keys -> Nat]
        BY <1>1, <1>2, <1>4 DEF SqliteOpen
    <2> QED BY <1>1, <1>4, <2>1, <2>2 DEF SqliteOpen, DatabasesTypeOK
<1>5. ASSUME NEW o \in Known, SqliteOpenFails(o) \/ SqliteClose(o)
      PROVE  DatabasesTypeOK'
    <2>1. library' = SqliteClosed(library, dbs[Key(o)]) /\ dbs' = [dbs EXCEPT ![Key(o)] = 0]
          /\ UNCHANGED <<clients, memcs, over>>
        BY <1>5 DEF SqliteOpenFails, SqliteClose
    <2>2. library' \in Seq(Handle)
        BY <1>1, <2>1, SqliteClosedIs
    <2> QED BY <1>1, <2>1, <2>2 DEF DatabasesTypeOK
<1>6. ASSUME NEW o \in Known, SqliteBadParams(o)
      PROVE  DatabasesTypeOK'
    BY <1>1, <1>6, MarkedIs DEF SqliteBadParams, DatabasesTypeOK, dbVars
<1>7. ASSUME NEW k, Construct(k)
      PROVE  DatabasesTypeOK'
    <2>1. Disconnected(library, clients[k]) \in Seq(Handle)
        BY <1>1, DisconnectedIs
    <2>2. /\ library' \in Seq(Handle)
          /\ clients' \in [Keys -> [conn : Nat, connected : BOOLEAN]]
        BY <1>1, <1>7, <2>1, OpenedIs DEF Construct
    <2> QED BY <1>1, <1>7, <2>2 DEF Construct, DatabasesTypeOK
<1>8. ASSUME NEW o \in Known, MariaConnect(o)
      PROVE  DatabasesTypeOK'
    <2> DEFINE c == clients[Key(o)]
               lib == IF c.conn = 0 THEN Opened(library, "MariaDBConnection", "new") ELSE library
               conn == IF c.conn = 0 THEN NextHandle(library) ELSE c.conn
    <2>1. lib \in Seq(Handle)
        BY <1>1, OpenedIs
    <2>2. library' \in Seq(Handle)
        <3>1. library' = [lib EXCEPT ![conn].state = "used"]
            BY <1>8 DEF MariaConnect
        <3> HIDE DEF lib, conn
        <3> QED BY <2>1, <3>1, MarkedIs
    <2>3. ASSUME Key(o) \in Keys
          PROVE  conn \in Nat
        BY <1>1, <2>3, OpenedIs
    <2>4. clients' \in [Keys -> [conn : Nat, connected : BOOLEAN]]
        <3>1. clients' = [clients EXCEPT ![Key(o)] = [conn |-> conn, connected |-> TRUE]]
            BY <1>8 DEF MariaConnect
        <3> HIDE DEF conn
        <3> QED BY <1>1, <2>3, <3>1
    <2> QED BY <1>1, <1>8, <2>2, <2>4 DEF MariaConnect, DatabasesTypeOK
<1>9. ASSUME NEW o \in Known, MariaConnectFails(o) \/ MariaDisconnect(o)
      PROVE  DatabasesTypeOK'
    <2>1. library' \in Seq(Handle)
        <3>1. \/ library' = Closed(library, clients[Key(o)].conn)
              \/ library' = Disconnected(library, clients[Key(o)])
            BY <1>9, Zenon DEF MariaConnectFails, MariaDisconnect
        <3>2. library \in Seq(Handle)
            BY <1>1
        <3>3. /\ Closed(library, clients[Key(o)].conn) \in Seq(Handle)
              /\ Disconnected(library, clients[Key(o)]) \in Seq(Handle)
            BY <3>2, ClosedIs, DisconnectedIs
        <3> QED BY <3>1, <3>3, Zenon
    <2>2. clients' = [clients EXCEPT ![Key(o)] = NoClient] /\ UNCHANGED <<dbs, memcs, over>>
        BY <1>9 DEF MariaConnectFails, MariaDisconnect
    <2>3. NoClient \in [conn : Nat, connected : BOOLEAN]
        BY DEF NoClient
    <2> QED BY <1>1, <2>1, <2>2, <2>3 DEF DatabasesTypeOK
<1>10. ASSUME NEW o \in Known, MariaConnectAgain(o)
       PROVE  DatabasesTypeOK'
    BY <1>1, <1>10 DEF MariaConnectAgain, DatabasesTypeOK
<1>11. ASSUME NEW k, Attach(k)
       PROVE  DatabasesTypeOK'
    <2>1. Closed(library, memcs[k]) \in Seq(Handle)
        BY <1>1, ClosedIs
    <2>2. PICK lib \in Seq(Handle) : lib = Closed(library, memcs[k])
        BY <2>1
    <2>3. UNCHANGED <<dbs, clients, over>>
        BY <1>11 DEF Attach
    <2>4. CASE library' = Opened(lib, "MemcachedConnection", "used") /\ memcs' = [memcs EXCEPT ![k] = NextHandle(lib)]
        <3>1. library' \in Seq(Handle) /\ NextHandle(lib) \in Nat
            BY <2>4, OpenedIs
        <3> QED BY <1>1, <2>3, <2>4, <3>1 DEF DatabasesTypeOK
    <2>5. CASE library' = lib /\ memcs' = [memcs EXCEPT ![k] = 0]
        BY <1>1, <2>3, <2>5 DEF DatabasesTypeOK
    <2> QED BY <1>11, <2>2, <2>4, <2>5 DEF Attach
<1>12. ASSUME NEW o \in Known, MemcachedDisconnect(o)
       PROVE  DatabasesTypeOK'
    BY <1>1, <1>12, ClosedIs DEF MemcachedDisconnect, DatabasesTypeOK
<1> QED BY <1>3, <1>4, <1>5, <1>6, <1>7, <1>8, <1>9, <1>10, <1>11, <1>12
        DEF Database, DatabaseNew, DatabaseCall, MariaNew, MariaConstruct, MemcachedNew, MemcachedConstruct

\* The options of a handle of libcurl.
Curl == [easy : Nat, post : BOOLEAN, custom : Verbs \cup {""}, body : Nat,
         headers : Nat, freed : BOOLEAN, timeout : Nat]

LEMMA WithHeadersTypes ==
    ASSUME NEW curl \in Curl, NEW given \in Headers, NEW n \in Nat
    PROVE  WithHeaders(curl, given, n) \in Curl
BY DEF WithHeaders, Curl, Headers

LEMMA TimedTypes ==
    ASSUME NEW curl \in Curl, NEW t \in Nat
    PROVE  Timed(curl, t) \in Curl
BY DEF Timed, Curl

LEMMA PreparedTypes ==
    ASSUME NEW curl \in Curl, NEW verb \in Verbs, NEW n \in Nat
    PROVE  Prepared(curl, verb, n) \in Curl
BY DEF Prepared, Curl, Verbs

\* The options that a request goes out with.
Outgoing(curl, hs, t, verb, n) == Prepared(Timed(WithHeaders(curl, hs, n), t), verb, n)

RequestWith(o, verb, given, t, curl) ==
    LET k == Key(o)
        n == requests + 1
        hs == GivenHeaders(k, given)
    IN  /\ Make("CurlResponse") /\ k \in Keys /\ stamps \in Keys
        /\ given \in {"own", "none", "empty"} /\ hs \in {"own", "none", "empty"} /\ t \in Nat
        /\ curl = Outgoing(curls[k], hs, t, verb, n) /\ curl \in Curl
        /\ requests' = n
        /\ curls' = [curls EXCEPT ![k] = curl]
        /\ responses' = [responses EXCEPT ![stamps] = n]
        /\ sent' = [n |-> n, asked |-> verb, verb |-> VerbOf(curl), body |-> curl.body,
                    given |-> hs, headers |-> curl.headers, freed |-> curl.freed,
                    timeout |-> curl.timeout, wanted |-> t, before |-> before[k]]
        /\ before' = [before EXCEPT ![k] = before[k] \cup UsesOf(verb, hs)]
        /\ UNCHANGED <<library, config>>

LEMMA RequestIs ==
    ASSUME Typed, IdentityInv, NEW o \in Known, NEW verb \in Verbs, Request(o, verb)
    PROVE  \E given, t, curl : RequestWith(o, verb, given, t, curl)
<1>1. /\ curls \in [Keys -> Curl] /\ requests \in Nat /\ before \in [Keys -> SUBSET Uses]
      /\ config \in [Keys -> [base : Bases \cup {""}, timeout : Nat, headers : BOOLEAN]]
    BY DEF Typed, HttpTypeOK, Curl
<1>2. Key(o) \in Keys
    BY KeysSuffice
<1> DEFINE k == Key(o)
           n == requests + 1
           curl(given, t) == Prepared(Timed(WithHeaders(curls[k], GivenHeaders(k, given), n), t), verb, n)
<1>3. PICK given \in Headers \ {"refused"}, t \in Timeouts \cup {config[k].timeout} :
         /\ Make("CurlResponse")
         /\ requests' = n
         /\ curls' = [curls EXCEPT ![k] = curl(given, t)]
         /\ responses' = [responses EXCEPT ![stamps] = n]
         /\ sent' = [n |-> n, asked |-> verb, verb |-> VerbOf(curl(given, t)), body |-> curl(given, t).body,
                     given |-> GivenHeaders(k, given), headers |-> curl(given, t).headers,
                     freed |-> curl(given, t).freed,
                     timeout |-> curl(given, t).timeout, wanted |-> t, before |-> before[k]]
         /\ before' = [before EXCEPT ![k] = @ \cup UsesOf(verb, GivenHeaders(k, given))]
         /\ UNCHANGED <<library, config>>
    BY Zenon DEF Request
<1>4. stamps \in Keys
    BY <1>3, KeysSuffice DEF Make
<1>5. given \in {"own", "none", "empty"} /\ GivenHeaders(k, given) \in {"own", "none", "empty"}
    BY <1>3 DEF Headers, GivenHeaders
<1>6. t \in Nat
    BY <1>1, <1>2, <1>3, HttpAssumption
<1>7. curl(given, t) \in Curl
    <2>1. curls[k] \in Curl /\ GivenHeaders(k, given) \in Headers
        BY <1>1, <1>2, <1>5, Zenon DEF Headers
    <2>2. n \in Nat
        <3>1. requests \in Nat
            BY <1>1, Zenon
        <3> QED BY <3>1
    <2> HIDE DEF k, n
    <2> QED BY <2>1, <2>2, <1>6, WithHeadersTypes, TimedTypes, PreparedTypes
<1> HIDE DEF curl
<1>8. RequestWith(o, verb, given, t, curl(given, t))
    BY <1>2, <1>3, <1>4, <1>5, <1>6, <1>7 DEF RequestWith, Outgoing, curl
<1> QED BY <1>8

LEMMA HttpTypes ==
    ASSUME Typed, IdentityInv, Http
    PROVE  HttpTypeOK' /\ library' \in Seq(Handle)
<1> DEFINE Config == [base : Bases \cup {""}, timeout : Nat, headers : BOOLEAN]
<1>1. /\ curls \in [Keys -> Curl] /\ config \in [Keys -> Config]
      /\ responses \in [Keys -> Nat] /\ requests \in Nat /\ before \in [Keys -> SUBSET Uses]
    BY DEF Typed, HttpTypeOK, Curl
<1>2. library \in Seq(Handle)
    BY DEF Typed, DatabasesTypeOK
<1>3. ASSUME curls' \in [Keys -> Curl], config' \in [Keys -> Config],
             responses' \in [Keys -> Nat], requests' \in Nat, before' \in [Keys -> SUBSET Uses]
      PROVE  HttpTypeOK'
    BY <1>3 DEF HttpTypeOK, Curl
<1> HIDE DEF Config
<1>4. ASSUME NEW k, NEW base \in Bases \cup {""}, SetUp(k, base)
      PROVE  HttpTypeOK' /\ library' \in Seq(Handle)
    <2>1. PICK lib \in Seq(Handle) : lib = Closed(library, curls[k].easy)
        BY <1>2, ClosedIs
    <2>2. library' = Opened(lib, "CurlClient", "used")
          /\ curls' = [curls EXCEPT ![k] = [NoCurl EXCEPT !.easy = NextHandle(lib)]]
          /\ config' = [config EXCEPT ![k] = [Settings EXCEPT !.base = base]]
          /\ before' = [before EXCEPT ![k] = {}]
          /\ UNCHANGED <<responses, requests, sent>>
        BY <1>4, <2>1 DEF SetUp
    <2>3. library' \in Seq(Handle) /\ NextHandle(lib) \in Nat
        BY <2>2, OpenedIs DEF Classes, AtOnce, States
    <2>4. [NoCurl EXCEPT !.easy = NextHandle(lib)] \in Curl
        BY <2>3 DEF NoCurl, Curl
    <2>5. [Settings EXCEPT !.base = base] \in Config
        BY DEF Settings, Config, Default
    <2>6. curls' \in [Keys -> Curl] /\ config' \in [Keys -> Config] /\ before' \in [Keys -> SUBSET Uses]
        BY <1>1, <2>2, <2>4, <2>5
    <2> QED BY <1>1, <1>3, <2>2, <2>3, <2>6
<1>5. ASSUME NEW o \in Known, Configure(o)
      PROVE  HttpTypeOK' /\ library' \in Seq(Handle)
    <2>1. UNCHANGED <<library, curls, responses, requests, sent, before>>
        BY <1>5 DEF Configure
    <2>2. Key(o) \in Keys
        BY KeysSuffice
    <2>3. config[Key(o)] \in Config
        BY <1>1, <2>2
    <2>4. PICK c \in Config : config' = [config EXCEPT ![Key(o)] = c]
        <3>1. CASE \E base \in Bases : config' = [config EXCEPT ![Key(o)].base = base]
            <4>1. PICK base \in Bases : config' = [config EXCEPT ![Key(o)] = [config[Key(o)] EXCEPT !.base = base]]
                BY <3>1
            <4>2. [config[Key(o)] EXCEPT !.base = base] \in Config
                BY <2>3 DEF Config
            <4> QED BY <4>1, <4>2
        <3>2. CASE \E t \in Timeouts : config' = [config EXCEPT ![Key(o)].timeout = t]
            <4>1. PICK t \in Timeouts : config' = [config EXCEPT ![Key(o)] = [config[Key(o)] EXCEPT !.timeout = t]]
                BY <3>2
            <4>2. [config[Key(o)] EXCEPT !.timeout = t] \in Config
                BY <2>3, HttpAssumption DEF Config
            <4> QED BY <4>1, <4>2
        <3>3. CASE config' = [config EXCEPT ![Key(o)].headers = TRUE]
            <4>1. config' = [config EXCEPT ![Key(o)] = [config[Key(o)] EXCEPT !.headers = TRUE]]
                BY <3>3
            <4>2. [config[Key(o)] EXCEPT !.headers = TRUE] \in Config
                BY <2>3 DEF Config
            <4> QED BY <4>1, <4>2
        <3> QED BY <1>5, <3>1, <3>2, <3>3 DEF Configure
    <2>5. config' \in [Keys -> Config]
        BY <1>1, <2>4
    <2> QED BY <1>1, <1>2, <1>3, <2>1, <2>5
<1>6. ASSUME NEW o \in Known, NEW verb \in Verbs, Request(o, verb)
      PROVE  HttpTypeOK' /\ library' \in Seq(Handle)
    <2>1. PICK given, t, curl : RequestWith(o, verb, given, t, curl)
        BY <1>6, RequestIs
    <2> DEFINE hs == GivenHeaders(Key(o), given)
    <2>2. curl \in Curl /\ requests' = requests + 1
          /\ curls' = [curls EXCEPT ![Key(o)] = curl]
          /\ responses' = [responses EXCEPT ![stamps] = requests + 1]
          /\ before' = [before EXCEPT ![Key(o)] = before[Key(o)] \cup UsesOf(verb, hs)]
          /\ UNCHANGED <<library, config>>
          /\ Key(o) \in Keys
        BY <2>1 DEF RequestWith
    <2>3. UsesOf(verb, hs) \subseteq Uses
        <3> HIDE DEF hs
        <3> QED BY DEF UsesOf, Uses
    <2>4. curls' \in [Keys -> Curl] /\ requests' \in Nat
        BY <1>1, <2>2
    <2>5. responses' \in [Keys -> Nat]
        <3>1. /\ responses \in [Keys -> Nat] /\ requests' \in Nat
              /\ responses' = [responses EXCEPT ![stamps] = requests']
            BY <1>1, <2>2, <2>4, Zenon
        <3> QED BY <3>1
    <2>6. before[Key(o)] \cup UsesOf(verb, hs) \in SUBSET Uses
        BY <1>1, <2>2, <2>3
    <2>7. before' \in [Keys -> SUBSET Uses]
        BY <1>1, <2>2, <2>6
    <2> QED BY <1>1, <1>2, <1>3, <2>2, <2>4, <2>5, <2>7
<1>7. ASSUME NEW o \in Known, RequestRefused(o)
      PROVE  HttpTypeOK' /\ library' \in Seq(Handle)
    <2>1. Key(o) \in Keys
        BY KeysSuffice
    <2>2. curls' = [curls EXCEPT ![Key(o)] = WithHeaders(curls[Key(o)], "refused", 0)]
          /\ before' = [before EXCEPT ![Key(o)] = before[Key(o)] \cup {"dropped headers"}]
          /\ UNCHANGED <<library, config, responses, requests, sent>>
        BY <1>7 DEF RequestRefused
    <2>3. curls[Key(o)] \in Curl /\ before[Key(o)] \in SUBSET Uses
        BY <1>1, <2>1
    <2>4. WithHeaders(curls[Key(o)], "refused", 0) \in Curl
        <3>1. PICK c \in Curl : c = curls[Key(o)]
            BY <2>3
        <3>2. WithHeaders(c, "refused", 0) \in Curl
            BY DEF WithHeaders, Curl
        <3> QED BY <3>1, <3>2
    <2>5. before[Key(o)] \cup {"dropped headers"} \in SUBSET Uses
        BY <2>3 DEF Uses
    <2>6. curls' \in [Keys -> Curl] /\ before' \in [Keys -> SUBSET Uses]
        BY <1>1, <2>2, <2>4, <2>5
    <2> QED BY <1>1, <1>2, <1>3, <2>2, <2>6
<1>8. ASSUME NEW k, Blank(k)
      PROVE  HttpTypeOK' /\ library' \in Seq(Handle)
    <2>1. responses' = [responses EXCEPT ![k] = 0]
          /\ UNCHANGED <<library, curls, config, requests, sent, before>>
        BY <1>8 DEF Blank
    <2>2. responses' \in [Keys -> Nat]
        BY <1>1, <2>1
    <2> QED BY <1>1, <1>2, <1>3, <2>1, <2>2
<1> QED BY <1>4, <1>5, <1>6, <1>7, <1>8
        DEF Http, HttpNew, HttpCall, CurlNew, CurlConstruct, ResponseNew, ResponseConstruct

\* Marking a generation as captured in changes nothing else of it.
LEMMA NestedIs ==
    ASSUME running \in Seq(Frame)
    PROVE  /\ Nested \in Seq(Frame) /\ Len(Nested) = Depth /\ Depth \in Nat
           /\ DOMAIN Nested = 1..Depth
           /\ \A i \in 1..Depth : /\ running[i] \in Frame
                                  /\ Nested[i] = [running[i] EXCEPT !.nested = TRUE]
<1>1. PICK n \in Nat : n = Depth
    BY DEF Depth
<1>2. \A i \in 1..n : running[i] \in Frame
    BY <1>1, ElementOfSeq DEF Depth
<1>3. \A i \in 1..n : [running[i] EXCEPT !.nested = TRUE] \in Frame
    BY <1>2 DEF Frame
<1>4. Nested = [i \in 1..n |-> [running[i] EXCEPT !.nested = TRUE]]
    BY <1>1 DEF Nested
<1>5. Nested \in [1..n -> Frame]
    BY <1>3, <1>4
<1>6. Nested \in Seq(Frame)
    BY <1>5, SeqDef
<1> QED BY <1>1, <1>2, <1>4, <1>6

\* The top generation, when something is done to it alone.
LEMMA TopIs ==
    ASSUME running \in Seq(Frame), Depth > 0, NEW f \in Frame
    PROVE  /\ Top \in Frame /\ Depth \in 1..Depth /\ Depth \in Nat
           /\ [running EXCEPT ![Depth] = f] \in Seq(Frame)
           /\ Len([running EXCEPT ![Depth] = f]) = Depth
           /\ \A i \in 1..Depth : [running EXCEPT ![Depth] = f][i] = IF i = Depth THEN f ELSE running[i]
BY ElementOfSeq, ExceptSeq DEF Depth, Top

Popped == SubSeq(running, 1, Depth - 1)

LEMMA PoppedIs ==
    ASSUME running \in Seq(Frame), Depth > 0
    PROVE  /\ Popped \in Seq(Frame) /\ Len(Popped) = Depth - 1 /\ DOMAIN Popped = 1..(Depth - 1)
           /\ \A i \in 1..(Depth - 1) : Popped[i] = running[i]
<1>1. Depth \in Nat /\ 1 \in Int /\ Depth - 1 \in Int
    BY DEF Depth
<1>2. \A i \in 1..(Depth - 1) : running[i] \in Frame
    BY <1>1, ElementOfSeq DEF Depth
<1>3. /\ Popped \in Seq(Frame)
      /\ Len(Popped) = IF 1 <= Depth - 1 THEN Depth - 1 - 1 + 1 ELSE 0
      /\ \A i \in 1..(Depth - 1 - 1 + 1) : Popped[i] = running[1 + i - 1]
    BY <1>1, <1>2, SubSeqProperties DEF Popped
<1> QED BY <1>1, <1>3

\* What Tick makes of the top generation.
Ticked == [Top EXCEPT !.left = @ - 1,
                      !.at = IF active.handler THEN "handler" ELSE @,
                      !.missed = @ \/ ~active.on \/ active.handler # Top.handler]

LEMMA TickIs ==
    ASSUME running \in Seq(Frame), active \in Capture, Tick
    PROVE  /\ Ticked \in Frame /\ running' = [running EXCEPT ![Depth] = Ticked]
           /\ Ticked.id = Top.id /\ Ticked.uses = Top.uses /\ Ticked.upscaler = Top.upscaler
           /\ Ticked.handler = Top.handler /\ Ticked.nested = Top.nested
           /\ Ticked.at = IF active.handler THEN "handler" ELSE Top.at
           /\ Ticked.missed = (Top.missed \/ ~active.on \/ active.handler # Top.handler)
<1>1. Depth > 0 /\ Top.left > 0
    BY DEF Tick
<1>2. Top \in Frame
    BY <1>1, ElementOfSeq DEF Depth, Top
<1>3. Ticked \in Frame
    <2>1. PICK f \in Frame : f = Top
        BY <1>2
    <2>2. f.left - 1 \in 0..Steps
        BY <1>1, <2>1, GenerationAssumption DEF Frame
    <2>3. active.on \in BOOLEAN /\ active.handler \in BOOLEAN
        BY DEF Capture
    <2>4. (f.missed \/ ~active.on \/ active.handler # f.handler) \in BOOLEAN
        BY <2>3 DEF Frame
    <2>5. (IF active.handler THEN "handler" ELSE f.at) \in {"library", "handler"}
        BY <2>3 DEF Frame
    <2> QED BY <2>1, <2>2, <2>4, <2>5 DEF Ticked, Frame
<1>4. running' = [running EXCEPT ![Depth] = Ticked]
    BY DEF Tick, Ticked, Top
<1> QED BY <1>2, <1>3, <1>4 DEF Ticked, Frame

\* The generation that a call begins.
Begun(k, uses, upscaler, handler) ==
    [id |-> k, uses |-> uses, upscaler |-> upscaler, handler |-> handler, left |-> Steps,
     at |-> "library", missed |-> FALSE, nested |-> FALSE]

LEMMA BeginIs ==
    ASSUME running \in Seq(Frame), NEW k \in Keys, NEW uses \in Nat, NEW upscaler \in BOOLEAN,
           NEW handler \in BOOLEAN, Begin(k, uses, upscaler, handler)
    PROVE  /\ running' \in Seq(Frame) /\ Depth' = Depth + 1 /\ Depth \in Nat
           /\ running'[Depth'] = Begun(k, uses, upscaler, handler)
           /\ \A i \in 1..Depth : /\ running[i] \in Frame
                                  /\ running'[i] = [running[i] EXCEPT !.nested = TRUE]
           /\ active' = [on |-> TRUE, id |-> k, handler |-> handler] /\ active' \in Capture
           /\ UNCHANGED <<contexts, ticks>>
<1>1. /\ running' = Append(Nested, Begun(k, uses, upscaler, handler))
      /\ active' = [on |-> TRUE, id |-> k, handler |-> handler]
      /\ UNCHANGED <<contexts, ticks>>
    BY DEF Begin, Begun, BeginCapture
<1>2. Begun(k, uses, upscaler, handler) \in Frame
    BY GenerationAssumption DEF Begun, Frame
<1>3. PICK s \in Seq(Frame) : s = Nested
    BY NestedIs
<1>4. /\ Len(s) = Depth /\ Depth \in Nat
      /\ \A i \in 1..Depth : running[i] \in Frame /\ s[i] = [running[i] EXCEPT !.nested = TRUE]
    BY <1>3, NestedIs
<1>5. PICK b \in Frame : b = Begun(k, uses, upscaler, handler)
    BY <1>2
<1>6. /\ running' \in Seq(Frame) /\ Len(running') = Len(s) + 1 /\ running'[Len(s) + 1] = b
      /\ \A i \in 1..Len(s) : running'[i] = s[i]
    BY <1>1, <1>3, <1>5, AppendProperties
<1>7. active' \in Capture
    BY <1>1 DEF Capture
<1> QED BY <1>1, <1>4, <1>5, <1>6, <1>7 DEF Depth

LEMMA GenerationTypes ==
    ASSUME Typed, IdentityInv, Diffusion \/ GenerationStep
    PROVE  GenerationTypeOK' /\ library' \in Seq(Handle)
<1>1. /\ contexts \in [Keys -> Nat] /\ ticks \in [Keys -> Seq(Keys)] /\ active \in Capture
      /\ running \in Seq(Frame) /\ library \in Seq(Handle)
    BY DEF Typed, GenerationTypeOK, DatabasesTypeOK
<1>2. CASE SdNew
    BY <1>1, <1>2 DEF SdNew, sdVars, GenerationTypeOK
<1>3. ASSUME NEW o \in Known, LoadModel(o)
      PROVE  GenerationTypeOK' /\ library' \in Seq(Handle)
    <2>1. PICK lib \in Seq(Handle) : lib = Closed(library, contexts[Key(o)])
        BY <1>1, ClosedIs
    <2>2. UNCHANGED <<ticks, active, running>>
        BY <1>3 DEF LoadModel
    <2>3. CASE library' = Opened(lib, "StableDiffusion", "used")
               /\ contexts' = [contexts EXCEPT ![Key(o)] = NextHandle(lib)]
        <3>1. library' \in Seq(Handle) /\ NextHandle(lib) \in Nat
            BY <2>3, OpenedIs DEF Classes, AtOnce, States
        <3> QED BY <1>1, <2>2, <2>3, <3>1 DEF GenerationTypeOK
    <2>4. CASE library' = lib /\ contexts' = [contexts EXCEPT ![Key(o)] = 0]
        BY <1>1, <2>2, <2>4 DEF GenerationTypeOK
    <2> QED BY <1>3, <2>1, <2>3, <2>4 DEF LoadModel
<1>4. ASSUME NEW o \in Known, Unload(o)
      PROVE  GenerationTypeOK' /\ library' \in Seq(Handle)
    <2>1. library' \in Seq(Handle)
        BY <1>1, <1>4, ClosedIs DEF Unload
    <2> QED BY <1>1, <1>4, <2>1 DEF Unload, GenerationTypeOK
<1>5. ASSUME NEW o \in Known, ClearLog(o)
      PROVE  GenerationTypeOK' /\ library' \in Seq(Handle)
    <2>1. ticks' \in [Keys -> Seq(Keys)]
        <3>1. ticks' = [ticks EXCEPT ![Key(o)] = <<>>] /\ <<>> \in Seq(Keys)
            BY <1>5 DEF ClearLog
        <3> QED BY <1>1, <3>1
    <2> QED BY <1>1, <1>5, <2>1 DEF ClearLog, GenerationTypeOK
<1>6. ASSUME NEW o \in Known, NEW uses \in Nat, NEW upscaler \in BOOLEAN, NEW handler \in BOOLEAN,
             Begin(Key(o), uses, upscaler, handler)
      PROVE  GenerationTypeOK'
    <2>1. Key(o) \in Keys
        BY KeysSuffice
    <2> QED BY <1>1, <1>6, <2>1, BeginIs DEF GenerationTypeOK
<1>7. ASSUME NEW o \in Known, Generate(o)
      PROVE  GenerationTypeOK' /\ library' \in Seq(Handle)
    <2>1. contexts[Key(o)] \in Nat
        BY <1>1, KeysSuffice
    <2> QED BY <1>1, <1>6, <1>7, <2>1 DEF Generate
<1>8. ASSUME NEW o \in Known, Upscale(o)
      PROVE  GenerationTypeOK' /\ library' \in Seq(Handle)
    <2>1. library' \in Seq(Handle) /\ NextHandle(library) \in Nat
        BY <1>1, <1>8, OpenedIs DEF Upscale, States
    <2> QED BY <1>6, <1>8, <2>1 DEF Upscale
<1>9. ASSUME NEW o \in Known, InputFails(o)
      PROVE  GenerationTypeOK' /\ library' \in Seq(Handle)
    <2>1. library' \in Seq(Handle)
        BY <1>1, <1>9, OpenedIs DEF InputFails, States
    <2> QED BY <1>1, <1>9, <2>1 DEF InputFails, sdVars, GenerationTypeOK
<1>15. ASSUME NEW o \in Known, UpscaleFails(o)
       PROVE  GenerationTypeOK' /\ library' \in Seq(Handle)
    <2>1. PICK lib \in Seq(Handle) : lib = Opened(library, "upscaler", "new")
        BY <1>1, OpenedIs DEF States
    <2>2. Opened(lib, "input", "used") \in Seq(Handle)
        BY OpenedIs DEF States
    <2>3. library' \in {lib, Opened(lib, "input", "used")} /\ UNCHANGED sdVars
        BY <1>15, <2>1 DEF UpscaleFails
    <2> QED BY <1>1, <2>2, <2>3 DEF sdVars, GenerationTypeOK
<1>10. ASSUME NEW o \in Known, LoadControlNet(o)
       PROVE  GenerationTypeOK' /\ library' \in Seq(Handle)
    <2>1. running' \in Seq(Frame)
        BY <1>1, <1>10, NestedIs DEF LoadControlNet
    <2>2. Key(o) \in Keys
        BY KeysSuffice
    <2>3. active' \in Capture
        BY <1>10, <2>2 DEF LoadControlNet, Capture
    <2> QED BY <1>1, <1>10, <2>1, <2>3 DEF LoadControlNet, GenerationTypeOK
<1>11. CASE Crash
    BY <1>1, <1>11 DEF Crash, sdVars, GenerationTypeOK
<1>12. CASE Tick
    <2>1. running' \in Seq(Frame)
        BY <1>1, <1>12, TickIs, TopIs DEF Tick
    <2>2. Top.id \in Keys
        <3>1. Top \in Frame
            BY <1>1, <1>12, ElementOfSeq DEF Tick, Depth, Top
        <3> QED BY <3>1 DEF Frame
    <2>3. ticks' \in [Keys -> Seq(Keys)]
        <3>1. ticks' = IF active.on THEN [ticks EXCEPT ![active.id] = Append(ticks[active.id], Top.id)] ELSE ticks
            BY <1>12 DEF Tick
        <3>2. active.id \in Keys => Append(ticks[active.id], Top.id) \in Seq(Keys)
            BY <1>1, <2>2
        <3> QED BY <1>1, <3>1, <3>2
    <2> QED BY <1>1, <1>12, <2>1, <2>3 DEF Tick, GenerationTypeOK
<1>13. CASE HandlerReturns
    <2>1. Top \in Frame /\ Depth > 0
        BY <1>1, <1>13, ElementOfSeq DEF HandlerReturns, Depth, Top
    <2>2. running' = [running EXCEPT ![Depth] = [Top EXCEPT !.at = "library"]]
        BY <1>13 DEF HandlerReturns, Top
    <2>3. [Top EXCEPT !.at = "library"] \in Frame
        BY <2>1 DEF Frame
    <2>4. running' \in Seq(Frame)
        BY <1>1, <2>1, <2>2, <2>3, TopIs
    <2> QED BY <1>1, <1>13, <2>4 DEF HandlerReturns, GenerationTypeOK
<1>14. CASE End
    <2>1. running' \in Seq(Frame)
        BY <1>1, <1>14, PoppedIs DEF End, Popped
    <2>2. active' \in Capture
        BY <1>1, <1>14 DEF End, EndCapture, Capture
    <2>3. library' \in Seq(Handle)
        BY <1>1, <1>14, ClosedIs DEF End
    <2> QED BY <1>1, <1>14, <2>1, <2>2, <2>3 DEF End, GenerationTypeOK
<1> QED BY <1>2, <1>3, <1>4, <1>5, <1>7, <1>8, <1>9, <1>10, <1>11, <1>12, <1>13, <1>14, <1>15
        DEF Diffusion, GenerationCall, GenerationStep, SdNew, sdVars, Make

-----------------------------------------------------------------------------
(* Requests. *)

\* What a request makes of the options of its handle.
Sets(c, curl, hs, t, verb, n) ==
    /\ c.custom = IF verb \in {"PUT", "DELETE"} THEN verb ELSE curl.custom
    /\ c.post = (curl.post \/ verb \in {"POST", "PUT"})
    /\ c.body = IF verb \in {"POST", "PUT"} THEN n ELSE curl.body
    /\ c.headers = IF hs = "own" THEN n ELSE curl.headers
    /\ c.freed = IF hs = "own" THEN FALSE ELSE IF hs = "none" THEN curl.freed ELSE curl.headers # 0
    /\ c.timeout = IF t > 0 THEN t ELSE curl.timeout

LEMMA OutgoingIs ==
    ASSUME NEW curl \in Curl, NEW hs \in {"own", "none", "empty"}, NEW t \in Nat, NEW verb \in Verbs,
           NEW n \in Nat
    PROVE  Sets(Outgoing(curl, hs, t, verb, n), curl, hs, t, verb, n)
<1> DEFINE c == Outgoing(curl, hs, t, verb, n)
<1>1. PICK w \in Curl : w = WithHeaders(curl, hs, n)
    BY WithHeadersTypes DEF Headers
<1>2. /\ w.custom = curl.custom /\ w.post = curl.post /\ w.body = curl.body /\ w.timeout = curl.timeout
      /\ w.headers = IF hs = "own" THEN n ELSE curl.headers
      /\ w.freed = IF hs = "own" THEN FALSE ELSE IF hs = "none" THEN curl.freed ELSE curl.headers # 0
    BY <1>1 DEF WithHeaders, Curl
<1>3. PICK d \in Curl : d = Timed(w, t)
    BY TimedTypes
<1>4. /\ d.custom = w.custom /\ d.post = w.post /\ d.body = w.body
      /\ d.headers = w.headers /\ d.freed = w.freed
      /\ d.timeout = IF t > 0 THEN t ELSE w.timeout
    BY <1>3 DEF Timed, Curl
<1>5. c = Prepared(d, verb, n) /\ c \in Curl
    BY <1>1, <1>3, PreparedTypes DEF Outgoing
<1> HIDE DEF c
<1>6. /\ c.custom = IF verb \in {"PUT", "DELETE"} THEN verb ELSE d.custom
      /\ c.post = (d.post \/ verb \in {"POST", "PUT"})
      /\ c.body = IF verb \in {"POST", "PUT"} THEN n ELSE d.body
      /\ c.headers = d.headers /\ c.freed = d.freed /\ c.timeout = d.timeout
    <2>1. d.post \in BOOLEAN
        BY DEF Curl
    <2>2. CASE verb = "GET"
        BY <1>5, <2>1, <2>2 DEF Prepared
    <2>3. CASE verb = "POST"
        BY <1>5, <2>1, <2>3 DEF Prepared, Curl
    <2>4. CASE verb = "PUT"
        BY <1>5, <2>1, <2>4 DEF Prepared, Curl
    <2>5. CASE verb = "DELETE"
        BY <1>5, <2>1, <2>5 DEF Prepared, Curl
    <2> QED BY <2>2, <2>3, <2>4, <2>5 DEF Verbs
<1>7. Sets(c, curl, hs, t, verb, n)
    BY <1>2, <1>4, <1>5, <1>6 DEF Sets
<1> QED BY <1>7 DEF c

\* What OptionsAccounted says of one handle.
Accounted(c, b) == /\ c.custom # "" => c.custom \in b \cap {"PUT", "DELETE"}
                   /\ c.post => b \cap {"POST", "PUT"} # {}
                   /\ c.body # 0 => b \cap {"POST", "PUT"} # {}
                   /\ c.headers # 0 => "headers" \in b
                   /\ c.freed => "dropped headers" \in b

LEMMA OptionsByKey == OptionsAccounted <=> \A k \in Keys : Accounted(curls[k], before[k])
BY DEF OptionsAccounted, Accounted

\* What RequestsAsAsked says of one request, and of the handle after it.
Honest(c, b, hs, t, verb, n) ==
    /\ Accounted(c, b \cup UsesOf(verb, hs))
    /\ VerbOf(c) # verb => \/ verb = "POST" /\ b \cap {"PUT", "DELETE"} # {}
                           \/ verb = "GET" /\ b \cap {"POST", "PUT", "DELETE"} # {}
    /\ verb \in {"POST", "PUT"} => c.body = n
    /\ verb \in {"GET", "DELETE"} /\ c.body # 0 => b \cap {"POST", "PUT"} # {}
    /\ hs = "own" => c.headers = n /\ ~c.freed
    /\ hs # "own" /\ c.headers # 0 => "headers" \in b
    /\ c.freed => hs = "empty" \/ "dropped headers" \in b
    /\ t # 0 => c.timeout = t

LEMMA RequestAccounted ==
    ASSUME NEW curl \in Curl, NEW b \in SUBSET Uses, Accounted(curl, b),
           NEW hs \in {"own", "none", "empty"}, NEW t \in Nat, NEW verb \in Verbs, NEW n \in Nat
    PROVE  Honest(Outgoing(curl, hs, t, verb, n), b, hs, t, verb, n)
<1> DEFINE c == Outgoing(curl, hs, t, verb, n)
<1>0. Sets(c, curl, hs, t, verb, n)
    BY OutgoingIs
<1> HIDE DEF c
<1>1. /\ c.custom = IF verb \in {"PUT", "DELETE"} THEN verb ELSE curl.custom
      /\ c.post = (curl.post \/ verb \in {"POST", "PUT"})
      /\ c.body = IF verb \in {"POST", "PUT"} THEN n ELSE curl.body
      /\ c.headers = IF hs = "own" THEN n ELSE curl.headers
      /\ c.freed = IF hs = "own" THEN FALSE ELSE IF hs = "none" THEN curl.freed ELSE curl.headers # 0
      /\ c.timeout = IF t > 0 THEN t ELSE curl.timeout
    BY <1>0 DEF Sets
<1>2. /\ verb \in UsesOf(verb, hs)
      /\ hs = "own" => "headers" \in UsesOf(verb, hs)
      /\ hs = "empty" => "dropped headers" \in UsesOf(verb, hs)
    BY DEF UsesOf
<1>3. Accounted(c, b \cup UsesOf(verb, hs))
    <2>1. c.custom # "" => c.custom \in (b \cup UsesOf(verb, hs)) \cap {"PUT", "DELETE"}
        BY <1>1, <1>2 DEF Accounted
    <2>2. /\ c.post => (b \cup UsesOf(verb, hs)) \cap {"POST", "PUT"} # {}
          /\ c.body # 0 => (b \cup UsesOf(verb, hs)) \cap {"POST", "PUT"} # {}
        BY <1>1, <1>2 DEF Accounted
    <2>3. c.headers # 0 => "headers" \in b \cup UsesOf(verb, hs)
        BY <1>1, <1>2 DEF Accounted
    <2>4. c.freed => "dropped headers" \in b \cup UsesOf(verb, hs)
        BY <1>1, <1>2 DEF Accounted
    <2> QED BY <2>1, <2>2, <2>3, <2>4 DEF Accounted
<1>4. VerbOf(c) # verb =>
         \/ verb = "POST" /\ b \cap {"PUT", "DELETE"} # {}
         \/ verb = "GET" /\ b \cap {"POST", "PUT", "DELETE"} # {}
    <2>1. CASE verb \in {"PUT", "DELETE"}
        BY <1>1, <2>1 DEF VerbOf
    <2>2. CASE verb = "POST"
        BY <1>1, <2>2 DEF VerbOf, Accounted
    <2>3. CASE verb = "GET"
        BY <1>1, <2>3 DEF VerbOf, Accounted
    <2> QED BY <2>1, <2>2, <2>3 DEF Verbs
<1>5. /\ hs = "own" => c.headers = n /\ ~c.freed
      /\ hs # "own" /\ c.headers # 0 => "headers" \in b
      /\ c.freed => hs = "empty" \/ "dropped headers" \in b
    BY <1>1 DEF Accounted
<1>6. /\ verb \in {"POST", "PUT"} => c.body = n
      /\ verb \in {"GET", "DELETE"} /\ c.body # 0 => b \cap {"POST", "PUT"} # {}
    BY <1>1 DEF Accounted
<1>7. t # 0 => c.timeout = t
    BY <1>1
<1>8. Honest(c, b, hs, t, verb, n)
    BY <1>3, <1>4, <1>5, <1>6, <1>7 DEF Honest
<1> QED BY <1>8 DEF c

LEMMA RequestsKept ==
    ASSUME Typed, IdentityInv, OptionsAccounted, RequestsAsAsked, Http
    PROVE  (OptionsAccounted /\ RequestsAsAsked)'
<1>1. /\ curls \in [Keys -> Curl] /\ before \in [Keys -> SUBSET Uses] /\ requests \in Nat
    BY DEF Typed, HttpTypeOK, Curl
<1>2. \A k \in Keys : Accounted(curls[k], before[k])
    BY OptionsByKey
<1>3. ASSUME \A k \in Keys : Accounted(curls'[k], before'[k])
      PROVE  OptionsAccounted'
    BY <1>3 DEF OptionsAccounted, Accounted
<1>4. ASSUME NEW k, NEW curl, NEW b, k \in Keys => Accounted(curl, b),
             curls' = [curls EXCEPT ![k] = curl], before' = [before EXCEPT ![k] = b]
      PROVE  OptionsAccounted'
    BY <1>1, <1>2, <1>3, <1>4
<1>5. ASSUME UNCHANGED <<curls, before>>
      PROVE  OptionsAccounted'
    BY <1>2, <1>3, <1>5
<1>6. ASSUME UNCHANGED sent
      PROVE  RequestsAsAsked'
    BY <1>6 DEF RequestsAsAsked
<1>7. ASSUME NEW k, NEW base, SetUp(k, base)
      PROVE  (OptionsAccounted /\ RequestsAsAsked)'
    <2>1. PICK e : /\ curls' = [curls EXCEPT ![k] = [NoCurl EXCEPT !.easy = e]]
                   /\ before' = [before EXCEPT ![k] = {}] /\ UNCHANGED sent
        BY <1>7 DEF SetUp
    <2>2. Accounted([NoCurl EXCEPT !.easy = e], {})
        BY DEF Accounted, NoCurl
    <2> QED BY <1>4, <1>6, <2>1, <2>2
<1>8. ASSUME NEW o \in Known, Configure(o)
      PROVE  (OptionsAccounted /\ RequestsAsAsked)'
    BY <1>5, <1>6, <1>8 DEF Configure
<1>9. ASSUME NEW o \in Known, NEW verb \in Verbs, Request(o, verb)
      PROVE  (OptionsAccounted /\ RequestsAsAsked)'
    <2>1. PICK given, t, curl : RequestWith(o, verb, given, t, curl)
        BY <1>9, RequestIs
    <2>2. PICK k, n, hs, b, old : /\ k = Key(o) /\ n = requests + 1 /\ hs = GivenHeaders(Key(o), given)
                                  /\ b = before[Key(o)] /\ old = curls[Key(o)]
        OBVIOUS
    <2>3. /\ curl = Outgoing(old, hs, t, verb, n)
          /\ curls' = [curls EXCEPT ![k] = curl]
          /\ before' = [before EXCEPT ![k] = b \cup UsesOf(verb, hs)]
          /\ k \in Keys /\ t \in Nat /\ hs \in {"own", "none", "empty"}
          /\ sent' = [n |-> n, asked |-> verb, verb |-> VerbOf(curl), body |-> curl.body,
                      given |-> hs, headers |-> curl.headers, freed |-> curl.freed,
                      timeout |-> curl.timeout, wanted |-> t, before |-> b]
        BY <2>1, <2>2 DEF RequestWith
    <2>4. old \in Curl /\ b \in SUBSET Uses /\ Accounted(old, b)
        BY <1>1, <1>2, <2>2, <2>3
    <2>5. n \in Nat
        <3>1. requests \in Nat
            BY <1>1
        <3> QED BY <2>2, <3>1
    <2>6. Honest(curl, b, hs, t, verb, n)
        BY <2>3, <2>4, <2>5, RequestAccounted
    <2>7. OptionsAccounted'
        BY <1>4, <2>3, <2>6 DEF Honest
    <2>8. RequestsAsAsked'
        BY <2>3, <2>6, Zenon DEF Honest, RequestsAsAsked
    <2> QED BY <2>7, <2>8
<1>10. ASSUME NEW o \in Known, RequestRefused(o)
       PROVE  (OptionsAccounted /\ RequestsAsAsked)'
    <2>1. PICK k, old, b : k = Key(o) /\ old = curls[Key(o)] /\ b = before[Key(o)]
        OBVIOUS
    <2>2. /\ curls' = [curls EXCEPT ![k] = WithHeaders(old, "refused", 0)]
          /\ before' = [before EXCEPT ![k] = b \cup {"dropped headers"}]
          /\ UNCHANGED sent
        BY <1>10, <2>1 DEF RequestRefused
    <2>3. k \in Keys /\ old \in Curl /\ Accounted(old, b)
        BY <1>1, <1>2, <2>1, KeysSuffice
    <2>4. Accounted(WithHeaders(old, "refused", 0), b \cup {"dropped headers"})
        BY <2>3 DEF WithHeaders, Accounted, Curl
    <2> QED BY <1>4, <1>6, <2>2, <2>4
<1>11. ASSUME NEW k, Blank(k)
       PROVE  (OptionsAccounted /\ RequestsAsAsked)'
    BY <1>5, <1>6, <1>11 DEF Blank
<1> QED BY <1>7, <1>8, <1>9, <1>10, <1>11
        DEF Http, HttpNew, HttpCall, CurlNew, CurlConstruct, ResponseNew, ResponseConstruct

-----------------------------------------------------------------------------
(* Captures. *)

\* The two invariants, of any generations, capture and recorded steps.
Nests(run, act) ==
    LET n == Len(run)
    IN  /\ \A i \in 1..n : i < n => run[i].nested
        /\ act.handler => act.on
        /\ n > 0 => /\ act.on => act.id = run[n].id /\ act.handler = run[n].handler
                    /\ run[n].nested \/ act.on
        /\ \A i \in 1..n : /\ run[i].missed => run[i].nested
                           /\ run[i].at = "handler" => run[i].handler

OwnSteps(t) == \A k \in Keys : \A i \in DOMAIN t[k] : t[k][i] = k

LEMMA CapturesAs == CapturesNested /\ CapturesAreOwn <=> Nests(running, active) /\ OwnSteps(ticks)
BY DEF CapturesNested, CapturesAreOwn, Nests, OwnSteps, Depth, Top

LEMMA NestsNext ==
    ASSUME Nests(running', active'), OwnSteps(ticks')
    PROVE  (CapturesNested /\ CapturesAreOwn)'
BY DEF CapturesNested, CapturesAreOwn, Nests, OwnSteps, Depth, Top

LEMMA CapturesKept ==
    ASSUME Typed, IdentityInv, CapturesNested, CapturesAreOwn, Diffusion \/ GenerationStep
    PROVE  (CapturesNested /\ CapturesAreOwn)'
<1>1. /\ ticks \in [Keys -> Seq(Keys)] /\ active \in Capture /\ running \in Seq(Frame)
    BY DEF Typed, GenerationTypeOK
<1>2. Nests(running, active) /\ OwnSteps(ticks)
    BY CapturesAs
<1>3. PICK n \in Nat : n = Depth /\ n = Len(running)
    BY <1>1 DEF Depth
<1>4. /\ \A i \in 1..n : i < n => running[i].nested
      /\ active.handler => active.on
      /\ n > 0 => /\ active.on => active.id = running[n].id /\ active.handler = running[n].handler
                  /\ running[n].nested \/ active.on
      /\ \A i \in 1..n : /\ running[i].missed => running[i].nested
                         /\ running[i].at = "handler" => running[i].handler
      /\ \A i \in 1..n : running[i] \in Frame
    BY <1>1, <1>2, <1>3, ElementOfSeq DEF Nests
<1>5. ASSUME UNCHANGED <<ticks, active, running>>
      PROVE  (CapturesNested /\ CapturesAreOwn)'
    BY <1>2, <1>5, NestsNext
<1>6. ASSUME NEW o \in Known, ClearLog(o)
      PROVE  (CapturesNested /\ CapturesAreOwn)'
    <2>1. ticks' = [ticks EXCEPT ![Key(o)] = <<>>] /\ UNCHANGED <<active, running>>
        BY <1>6 DEF ClearLog
    <2>2. OwnSteps(ticks')
        BY <1>1, <1>2, <2>1 DEF OwnSteps
    <2> QED BY <1>2, <2>1, <2>2, NestsNext
<1>7. ASSUME NEW o \in Known, NEW uses \in Nat, NEW upscaler \in BOOLEAN, NEW handler \in BOOLEAN,
             Begin(Key(o), uses, upscaler, handler)
      PROVE  (CapturesNested /\ CapturesAreOwn)'
    <2>1. PICK k \in Keys : k = Key(o)
        BY KeysSuffice
    <2>2. /\ running' \in Seq(Frame) /\ Depth' = Depth + 1
          /\ running'[Depth'] = Begun(k, uses, upscaler, handler)
          /\ \A i \in 1..Depth : running'[i] = [running[i] EXCEPT !.nested = TRUE]
          /\ active' = [on |-> TRUE, id |-> k, handler |-> handler]
          /\ UNCHANGED <<contexts, ticks>>
        BY <1>1, <1>7, <2>1, BeginIs
    <2>3. /\ Len(running') = n + 1
          /\ running'[n + 1] = Begun(k, uses, upscaler, handler)
        BY <1>3, <2>2 DEF Depth
    <2>4. \A i \in 1..n : /\ running'[i].nested /\ running'[i].missed = running[i].missed
                          /\ running'[i].at = running[i].at /\ running'[i].handler = running[i].handler
        <3> TAKE i \in 1..n
        <3>1. running'[i] = [running[i] EXCEPT !.nested = TRUE] /\ running[i] \in Frame
            BY <1>3, <1>4, <2>2
        <3> QED BY <3>1 DEF Frame
    <2>5. \A i \in 1..(n + 1) : i \in 1..n \/ i = n + 1
        OBVIOUS
    <2>6. /\ \A i \in 1..(n + 1) : i < n + 1 => running'[i].nested
          /\ \A i \in 1..(n + 1) : /\ running'[i].missed => running'[i].nested
                                   /\ running'[i].at = "handler" => running'[i].handler
        BY <1>4, <2>3, <2>4, <2>5 DEF Begun
    <2>7. Nests(running', active')
        BY <2>2, <2>3, <2>6 DEF Nests, Begun
    <2> QED BY <1>2, <2>2, <2>7, NestsNext
<1>8. ASSUME NEW o \in Known, Generate(o)
      PROVE  (CapturesNested /\ CapturesAreOwn)'
    <2>1. contexts[Key(o)] \in Nat
        BY KeysSuffice DEF Typed, GenerationTypeOK
    <2> QED BY <1>7, <1>8, <2>1 DEF Generate
<1>9. ASSUME NEW o \in Known, Upscale(o)
      PROVE  (CapturesNested /\ CapturesAreOwn)'
    <2>1. NextHandle(library) \in Nat
        BY OpenedIs DEF Typed, DatabasesTypeOK, NextHandle
    <2> QED BY <1>7, <1>9, <2>1 DEF Upscale
<1>10. ASSUME NEW o \in Known, LoadControlNet(o)
       PROVE  (CapturesNested /\ CapturesAreOwn)'
    <2>1. running' = Nested /\ active' = [on |-> FALSE, id |-> Key(o), handler |-> FALSE]
          /\ UNCHANGED ticks
        BY <1>10 DEF LoadControlNet
    <2>2. /\ Len(running') = n
          /\ \A i \in 1..n : running'[i] = [running[i] EXCEPT !.nested = TRUE]
        BY <1>1, <1>3, <2>1, NestedIs
    <2>3. \A i \in 1..n : /\ running'[i].nested /\ running'[i].missed = running[i].missed
                          /\ running'[i].at = running[i].at /\ running'[i].handler = running[i].handler
        BY <1>4, <2>2 DEF Frame
    <2>4. Nests(running', active')
        BY <1>4, <2>1, <2>2, <2>3 DEF Nests
    <2> QED BY <1>2, <2>1, <2>4, NestsNext
<1>11. CASE Tick
    <2>1. n > 0 /\ Top = running[n] /\ n \in 1..n /\ Depth > 0 /\ Top.at = "library"
        BY <1>3, <1>11 DEF Tick, Top
    <2>2. PICK f \in Frame : f = Ticked
        BY <1>1, <1>11, TickIs
    <2>3. /\ Len(running') = n
          /\ \A i \in 1..n : running'[i] = IF i = n THEN f ELSE running[i]
          /\ f.id = running[n].id /\ f.handler = running[n].handler /\ f.nested = running[n].nested
          /\ f.at = IF active.handler THEN "handler" ELSE running[n].at
          /\ f.missed = (running[n].missed \/ ~active.on \/ active.handler # running[n].handler)
        <3>1. running' = [running EXCEPT ![Depth] = f]
            BY <1>1, <1>11, <2>2, TickIs
        <3>2. Len(running') = Depth /\ \A i \in 1..Depth : running'[i] = IF i = Depth THEN f ELSE running[i]
            BY <1>1, <2>1, <3>1, TopIs
        <3> QED BY <1>1, <1>3, <1>11, <2>1, <2>2, <3>2, TickIs
    <2>4. active' = active
        BY <1>11 DEF Tick
    <2>5. f.missed => f.nested
        BY <1>4, <2>1, <2>3
    <2>6. f.at = "handler" => f.handler
        BY <1>4, <2>1, <2>3
    <2>7. Nests(running', active')
        BY <1>4, <2>1, <2>3, <2>4, <2>5, <2>6 DEF Nests
    <2>8. OwnSteps(ticks')
        <3>1. CASE ~active.on
            BY <1>2, <1>11, <3>1 DEF Tick
        <3>2. CASE active.on
            <4>1. active.id = Top.id
                BY <1>4, <2>1, <3>2
            <4>2. PICK j : j = active.id
                OBVIOUS
            <4>3. ticks' = [ticks EXCEPT ![j] = Append(ticks[j], j)]
                BY <1>11, <3>2, <4>1, <4>2 DEF Tick
            <4>4. ASSUME NEW k \in Keys, NEW i \in DOMAIN ticks'[k]
                  PROVE  ticks'[k][i] = k
                <5>1. CASE k # j
                    BY <1>1, <1>2, <4>3, <4>4, <5>1 DEF OwnSteps
                <5>2. CASE k = j
                    <6>1. PICK s \in Seq(Keys) : s = ticks[k]
                        BY <1>1
                    <6>2. ticks'[k] = Append(s, k)
                        BY <1>1, <4>3, <5>2, <6>1
                    <6>3. \A m \in 1..Len(s) : s[m] = k
                        BY <1>2, <6>1 DEF OwnSteps
                    <6>4. Len(Append(s, k)) = Len(s) + 1 /\ i \in 1..(Len(s) + 1)
                        BY <4>4, <6>2
                    <6> QED BY <6>2, <6>3, <6>4
                <5> QED BY <5>1, <5>2
            <4> QED BY <4>4 DEF OwnSteps
        <3> QED BY <3>1, <3>2
    <2> QED BY <2>7, <2>8, NestsNext
<1>12. CASE HandlerReturns
    <2>1. n > 0 /\ n \in 1..n /\ Depth > 0
        BY <1>3, <1>12 DEF HandlerReturns
    <2>2. running' = [running EXCEPT ![n] = [running[n] EXCEPT !.at = "library"]]
          /\ UNCHANGED <<ticks, active>>
        BY <1>3, <1>12 DEF HandlerReturns
    <2>3. PICK f \in Frame : /\ f = [running[n] EXCEPT !.at = "library"]
                             /\ f.id = running[n].id /\ f.handler = running[n].handler
                             /\ f.nested = running[n].nested /\ f.missed = running[n].missed
                             /\ f.at = "library"
        <3>1. PICK r \in Frame : r = running[n]
            BY <1>4, <2>1
        <3>2. [r EXCEPT !.at = "library"] \in Frame
            BY DEF Frame
        <3>3. PICK f \in Frame : f = [r EXCEPT !.at = "library"]
            BY <3>2
        <3>4. /\ f.id = r.id /\ f.handler = r.handler /\ f.nested = r.nested
              /\ f.missed = r.missed /\ f.at = "library"
            BY <3>3 DEF Frame
        <3> QED BY <3>1, <3>3, <3>4
    <2>4. Len(running') = n /\ \A i \in 1..n : running'[i] = IF i = n THEN f ELSE running[i]
        BY <1>1, <1>3, <2>1, <2>2, <2>3, TopIs
    <2>5. Nests(running', active')
        BY <1>4, <2>1, <2>2, <2>3, <2>4 DEF Nests
    <2> QED BY <1>2, <2>2, <2>5, NestsNext
<1>13. CASE End
    <2>1. n > 0 /\ Depth > 0 /\ running' = Popped /\ UNCHANGED ticks
        BY <1>3, <1>13 DEF End, Popped
    <2>2. Len(running') = n - 1 /\ \A i \in 1..(n - 1) : running'[i] = running[i]
        BY <1>1, <1>3, <2>1, PoppedIs
    <2>3. ~active'.on /\ ~active'.handler
        BY <1>1, <1>13 DEF End, EndCapture, Capture
    <2>4. \A i \in 1..(n - 1) : running'[i].nested
        BY <1>4, <2>2
    <2>5. Nests(running', active')
        <3>1. \A i \in 1..(n - 1) : /\ running'[i].missed => running'[i].nested
                                    /\ running'[i].at = "handler" => running'[i].handler
            BY <1>4, <2>2
        <3>2. n - 1 > 0 => n - 1 \in 1..(n - 1)
            OBVIOUS
        <3> QED BY <2>2, <2>3, <2>4, <3>1, <3>2 DEF Nests
    <2> QED BY <1>2, <2>1, <2>5, NestsNext
<1> QED BY <1>5, <1>6, <1>8, <1>9, <1>10, <1>11, <1>12, <1>13
        DEF Diffusion, GenerationCall, GenerationStep, SdNew, LoadModel, Unload, InputFails,
            UpscaleFails, Crash, sdVars

-----------------------------------------------------------------------------
(* Handles: what keeps a library, the tables and the generations sound. *)

\* A library that has given out a handle.
Grown(lib2, lib, new, class, state) ==
    /\ DOMAIN lib2 = DOMAIN lib \cup {new} /\ new \notin DOMAIN lib /\ new # 0
    /\ \A g \in DOMAIN lib : lib2[g] = lib[g]
    /\ lib2[new].of = class /\ lib2[new].open /\ lib2[new].state = state

LEMMA OpenedGrows ==
    ASSUME NEW lib \in Seq(Handle), NEW class \in Classes \cup {"input", "upscaler"}, NEW state \in States
    PROVE  Grown(Opened(lib, class, state), lib, NextHandle(lib), class, state)
<1>1. PICK r \in Handle : r = [of |-> class, open |-> TRUE, state |-> state]
    BY DEF Handle
<1>2. r.of = class /\ r.open /\ r.state = state
    BY <1>1
<1>3. /\ DOMAIN Append(lib, r) = DOMAIN lib \cup {Len(lib) + 1}
      /\ Len(lib) + 1 \notin DOMAIN lib /\ Len(lib) + 1 # 0
      /\ \A g \in DOMAIN lib : Append(lib, r)[g] = lib[g]
      /\ Append(lib, r)[Len(lib) + 1] = r
    OBVIOUS
<1> QED BY <1>1, <1>2, <1>3 DEF Grown, Opened, NextHandle

LEMMA SoundDrop ==
    ASSUME NEW lib \in Seq(Handle), NEW e \in [Places -> Nat], NEW run, Sound(lib, e, run),
           NEW p \in Places
    PROVE  Sound(Closed(lib, e[p]), [e EXCEPT ![p] = 0], run)
<1>1. PICK lib2 : lib2 = Closed(lib, e[p])
    OBVIOUS
<1>2. PICK e2 : e2 = [e EXCEPT ![p] = 0]
    OBVIOUS
<1>3. /\ DOMAIN lib2 = DOMAIN lib
      /\ \A g \in DOMAIN lib : /\ g # e[p] => lib2[g] = lib[g]
                               /\ lib2[g].of = lib[g].of
                               /\ g = e[p] => ~lib2[g].open
    BY <1>1, ClosedIs
<1>4. /\ e2[p] = 0 /\ \A q \in Places : q # p => e2[q] = e[q]
    BY <1>2
<1>5. \A q \in Places : e2[q] # 0 => /\ e2[q] \in DOMAIN lib2
                                     /\ lib2[e2[q]].open /\ lib2[e2[q]].of = Of(q[1])
    BY <1>3, <1>4 DEF Sound
<1>6. \A q, r \in Places : e2[q] # 0 /\ e2[q] = e2[r] => q = r
    BY <1>4 DEF Sound
<1>7. ASSUME NEW i \in DOMAIN run, run[i].upscaler
      PROVE  run[i].uses \in DOMAIN lib2 /\ lib2[run[i].uses].open /\ lib2[run[i].uses].of = "upscaler"
    <2>1. run[i].uses \in DOMAIN lib /\ lib[run[i].uses].open /\ lib[run[i].uses].of = "upscaler"
        BY <1>7 DEF Sound
    <2>2. e[p] # 0 => lib[e[p]].of # "upscaler"
        BY DEF Sound, Of, Places, Tables
    <2>3. run[i].uses # 0
        BY <2>1
    <2> QED BY <1>3, <2>1, <2>2, <2>3
<1>8. ASSUME NEW h \in DOMAIN lib2, lib2[h].open
      PROVE  InTable(e2, h) \/ InUse(run, h) \/ LeftBehind(lib2[h])
    <2>1. h # e[p] /\ lib2[h] = lib[h] /\ h \in DOMAIN lib
        BY <1>3, <1>8
    <2>2. InTable(e, h) \/ InUse(run, h) \/ LeftBehind(lib[h])
        BY <1>8, <2>1 DEF Sound
    <2> QED BY <1>4, <2>1, <2>2 DEF InTable
<1>9. Sound(lib2, e2, run)
    BY <1>5, <1>6, <1>7, <1>8 DEF Sound
<1> QED BY <1>1, <1>2, <1>9

LEMMA SoundLeave ==
    ASSUME NEW lib, NEW e \in [Places -> Nat], NEW run, Sound(lib, e, run),
           NEW p \in Places, e[p] # 0 => LeftBehind(lib[e[p]])
    PROVE  Sound(lib, [e EXCEPT ![p] = 0], run)
<1>1. PICK e2 : e2 = [e EXCEPT ![p] = 0]
    OBVIOUS
<1>2. /\ e2[p] = 0 /\ \A q \in Places : q # p => e2[q] = e[q]
    BY <1>1
<1>3. ASSUME NEW h \in DOMAIN lib, lib[h].open
      PROVE  InTable(e2, h) \/ InUse(run, h) \/ LeftBehind(lib[h])
    <2>1. InTable(e, h) \/ InUse(run, h) \/ LeftBehind(lib[h])
        BY <1>3 DEF Sound
    <2>2. CASE InTable(e, h)
        <3>1. PICK q \in Places : e[q] = h
            BY <2>2 DEF InTable
        <3>2. CASE q = p /\ h = 0
            BY <3>1, <3>2, <1>2 DEF InTable
        <3> QED BY <1>2, <3>1, <3>2 DEF InTable
    <2> QED BY <2>1, <2>2
<1>4. \A q \in Places : e2[q] # 0 => /\ e2[q] \in DOMAIN lib
                                     /\ lib[e2[q]].open /\ lib[e2[q]].of = Of(q[1])
    BY <1>2 DEF Sound
<1>5. \A q, r \in Places : e2[q] # 0 /\ e2[q] = e2[r] => q = r
    BY <1>2 DEF Sound
<1>6. Sound(lib, e2, run)
    BY <1>3, <1>4, <1>5 DEF Sound
<1> QED BY <1>1, <1>6

LEMMA SoundAdd ==
    ASSUME NEW lib \in Seq(Handle), NEW e \in [Places -> Nat], NEW run, Sound(lib, e, run),
           NEW p \in Places, e[p] = 0, NEW state \in States
    PROVE  Sound(Opened(lib, Of(p[1]), state), [e EXCEPT ![p] = NextHandle(lib)], run)
<1>1. PICK lib2, new : lib2 = Opened(lib, Of(p[1]), state) /\ new = NextHandle(lib)
    OBVIOUS
<1>2. PICK e2 : e2 = [e EXCEPT ![p] = new]
    OBVIOUS
<1>3. Of(p[1]) \in Classes
    BY DEF Places, Tables, Of, Classes, AtOnce
<1>4. /\ DOMAIN lib2 = DOMAIN lib \cup {new} /\ new \notin DOMAIN lib /\ new # 0
      /\ \A g \in DOMAIN lib : lib2[g] = lib[g]
      /\ lib2[new].of = Of(p[1]) /\ lib2[new].open
    <2>1. Of(p[1]) \in Classes \cup {"input", "upscaler"}
        BY <1>3
    <2>2. Grown(lib2, lib, new, Of(p[1]), state)
        BY <1>1, <2>1, OpenedGrows
    <2> QED BY <2>2 DEF Grown
<1>5. /\ e2[p] = new /\ \A q \in Places : q # p => e2[q] = e[q]
    BY <1>2
<1>6. \A q \in Places : e2[q] # 0 => /\ e2[q] \in DOMAIN lib2
                                     /\ lib2[e2[q]].open /\ lib2[e2[q]].of = Of(q[1])
    BY <1>4, <1>5 DEF Sound
<1>7. \A q, r \in Places : e2[q] # 0 /\ e2[q] = e2[r] => q = r
    BY <1>4, <1>5 DEF Sound
<1>8. \A i \in DOMAIN run : run[i].upscaler => /\ run[i].uses \in DOMAIN lib2
                                               /\ lib2[run[i].uses].open
                                               /\ lib2[run[i].uses].of = "upscaler"
    BY <1>4 DEF Sound
<1>9. ASSUME NEW h \in DOMAIN lib2, lib2[h].open
      PROVE  InTable(e2, h) \/ InUse(run, h) \/ LeftBehind(lib2[h])
    <2>1. CASE h = new
        BY <1>5, <2>1 DEF InTable
    <2>2. CASE h \in DOMAIN lib
        <3>1. h # 0
            BY <2>2
        <3>2. InTable(e, h) \/ InUse(run, h) \/ LeftBehind(lib[h])
            BY <1>4, <1>9, <2>2 DEF Sound
        <3>3. ASSUME InTable(e, h)
              PROVE  InTable(e2, h)
            BY <1>5, <3>1, <3>3 DEF InTable
        <3> QED BY <1>4, <2>2, <3>2, <3>3
    <2> QED BY <1>4, <2>1, <2>2
<1>10. Sound(lib2, e2, run)
    BY <1>6, <1>7, <1>8, <1>9 DEF Sound
<1> QED BY <1>1, <1>2, <1>10

LEMMA SoundMark ==
    ASSUME NEW lib \in Seq(Handle), NEW e \in [Places -> Nat], NEW run, Sound(lib, e, run),
           NEW p \in Places, e[p] # 0, NEW state \in States
    PROVE  Sound([lib EXCEPT ![e[p]].state = state], e, run)
<1>1. PICK lib2 : lib2 = [lib EXCEPT ![e[p]].state = state]
    OBVIOUS
<1>2. /\ DOMAIN lib2 = DOMAIN lib
      /\ \A g \in DOMAIN lib : /\ g # e[p] => lib2[g] = lib[g]
                               /\ lib2[g].of = lib[g].of /\ lib2[g].open = lib[g].open
    BY <1>1, MarkedIs
<1>3. ASSUME NEW h \in DOMAIN lib2, lib2[h].open
      PROVE  InTable(e, h) \/ InUse(run, h) \/ LeftBehind(lib2[h])
    <2>1. CASE h = e[p]
        BY <2>1 DEF InTable
    <2>2. CASE h # e[p]
        BY <1>2, <1>3, <2>2 DEF Sound
    <2> QED BY <2>1, <2>2
<1>4. Sound(lib2, e, run)
    BY <1>2, <1>3 DEF Sound
<1> QED BY <1>1, <1>4

\* What a call that threw before it generated left open: nothing holds it.
LEMMA SoundLost ==
    ASSUME NEW lib \in Seq(Handle), NEW e \in [Places -> Nat], NEW run, Sound(lib, e, run),
           NEW class \in {"input", "upscaler"}, NEW state \in States,
           class = "upscaler" => state = "new"
    PROVE  Sound(Opened(lib, class, state), e, run)
<1>1. PICK lib2, new : lib2 = Opened(lib, class, state) /\ new = NextHandle(lib)
    OBVIOUS
<1>2. /\ DOMAIN lib2 = DOMAIN lib \cup {new}
      /\ \A g \in DOMAIN lib : lib2[g] = lib[g]
      /\ lib2[new].of = class /\ lib2[new].state = state
    <2>1. Grown(lib2, lib, new, class, state)
        BY <1>1, OpenedGrows
    <2> QED BY <2>1 DEF Grown
<1>3. Sound(lib2, e, run)
    BY <1>2 DEF Sound, LeftBehind
<1> QED BY <1>1, <1>3

\* What matters of the generations is what each uses.
LEMMA SoundRun ==
    ASSUME NEW lib, NEW e, NEW run, NEW run2, Sound(lib, e, run), DOMAIN run2 = DOMAIN run,
           \A i \in DOMAIN run : run2[i].uses = run[i].uses /\ run2[i].upscaler = run[i].upscaler
    PROVE  Sound(lib, e, run2)
<1>1. \A h : InUse(run, h) => InUse(run2, h)
    BY DEF InUse
<1> QED BY <1>1 DEF Sound

LEMMA SoundPush ==
    ASSUME NEW lib, NEW e, NEW run, NEW run2, NEW n \in Nat, Sound(lib, e, run),
           DOMAIN run = 1..n, DOMAIN run2 = 1..(n + 1), ~run2[n + 1].upscaler,
           \A i \in 1..n : run2[i].uses = run[i].uses /\ run2[i].upscaler = run[i].upscaler
    PROVE  Sound(lib, e, run2)
<1>1. \A h : InUse(run, h) => InUse(run2, h)
    BY DEF InUse
<1>2. \A i \in 1..(n + 1) : i \in 1..n \/ i = n + 1
    OBVIOUS
<1>3. \A i \in DOMAIN run2 : run2[i].upscaler => /\ run2[i].uses \in DOMAIN lib
                                                 /\ lib[run2[i].uses].open
                                                 /\ lib[run2[i].uses].of = "upscaler"
    BY <1>2 DEF Sound
<1>4. \A i, j \in DOMAIN run2 :
         run2[i].upscaler /\ run2[j].upscaler /\ run2[i].uses = run2[j].uses => i = j
    BY <1>2 DEF Sound
<1> QED BY <1>1, <1>3, <1>4 DEF Sound

LEMMA SoundPushUpscaler ==
    ASSUME NEW lib \in Seq(Handle), NEW e \in [Places -> Nat], NEW run, NEW run2, NEW n \in Nat,
           Sound(lib, e, run), NEW state \in States,
           DOMAIN run = 1..n, DOMAIN run2 = 1..(n + 1),
           run2[n + 1].uses = NextHandle(lib),
           \A i \in 1..n : run2[i].uses = run[i].uses /\ run2[i].upscaler = run[i].upscaler
    PROVE  run2[n + 1].upscaler => Sound(Opened(lib, "upscaler", state), e, run2)
<1> SUFFICES ASSUME run2[n + 1].upscaler
             PROVE  Sound(Opened(lib, "upscaler", state), e, run2)
    OBVIOUS
<1>1. PICK lib2, new : lib2 = Opened(lib, "upscaler", state) /\ new = NextHandle(lib)
    OBVIOUS
<1>2. /\ DOMAIN lib2 = DOMAIN lib \cup {new} /\ new \notin DOMAIN lib
      /\ \A g \in DOMAIN lib : lib2[g] = lib[g]
      /\ lib2[new].of = "upscaler" /\ lib2[new].open
    <2>1. Grown(lib2, lib, new, "upscaler", state)
        BY <1>1, OpenedGrows
    <2> QED BY <2>1 DEF Grown
<1>3. \A i \in 1..(n + 1) : i \in 1..n \/ i = n + 1
    OBVIOUS
<1>4. \A h : InUse(run, h) => InUse(run2, h)
    BY DEF InUse
<1>5. InUse(run2, new)
    BY <1>1 DEF InUse
<1>6. \A p \in Places : e[p] # 0 => /\ e[p] \in DOMAIN lib2
                                    /\ lib2[e[p]].open /\ lib2[e[p]].of = Of(p[1])
    BY <1>2 DEF Sound
<1>7. \A i \in 1..n : run2[i].upscaler => /\ run2[i].uses \in DOMAIN lib
                                          /\ lib[run2[i].uses].open
                                          /\ lib[run2[i].uses].of = "upscaler"
    BY DEF Sound
<1>8. \A i \in DOMAIN run2 : run2[i].upscaler => /\ run2[i].uses \in DOMAIN lib2
                                                 /\ lib2[run2[i].uses].open
                                                 /\ lib2[run2[i].uses].of = "upscaler"
    BY <1>1, <1>2, <1>3, <1>7
<1>9. \A i, j \in DOMAIN run2 :
         run2[i].upscaler /\ run2[j].upscaler /\ run2[i].uses = run2[j].uses => i = j
    BY <1>1, <1>2, <1>3, <1>7 DEF Sound
<1>10. \A h \in DOMAIN lib2 : lib2[h].open => InTable(e, h) \/ InUse(run2, h) \/ LeftBehind(lib2[h])
    BY <1>2, <1>4, <1>5 DEF Sound
<1>11. Sound(lib2, e, run2)
    BY <1>6, <1>8, <1>9, <1>10 DEF Sound
<1> QED BY <1>1, <1>11

LEMMA SoundPop ==
    ASSUME NEW lib \in Seq(Handle), NEW e \in [Places -> Nat], NEW run, NEW run2, NEW n \in Nat \ {0},
           Sound(lib, e, run), DOMAIN run = 1..n, DOMAIN run2 = 1..(n - 1),
           \A i \in 1..(n - 1) : run2[i] = run[i]
    PROVE  Sound(IF run[n].upscaler THEN Closed(lib, run[n].uses) ELSE lib, e, run2)
<1>1. PICK lib2 : lib2 = IF run[n].upscaler THEN Closed(lib, run[n].uses) ELSE lib
    OBVIOUS
<1>2. \A i \in 1..n : i \in 1..(n - 1) \/ i = n
    OBVIOUS
<1>3. \A i \in 1..(n - 1) : i \in 1..n /\ i # n
    OBVIOUS
<1>4. /\ DOMAIN lib2 = DOMAIN lib
      /\ \A g \in DOMAIN lib : /\ ~(run[n].upscaler /\ g = run[n].uses) => lib2[g] = lib[g]
                               /\ run[n].upscaler /\ g = run[n].uses => ~lib2[g].open
    BY <1>1, ClosedIs
<1>5. ASSUME NEW p \in Places, e[p] # 0
      PROVE  e[p] \in DOMAIN lib2 /\ lib2[e[p]].open /\ lib2[e[p]].of = Of(p[1])
    <2>1. Of(p[1]) # "upscaler"
        BY DEF Of, Places, Tables
    <2>2. e[p] \in DOMAIN lib /\ lib[e[p]].open /\ lib[e[p]].of = Of(p[1])
        BY <1>5 DEF Sound
    <2>3. n \in DOMAIN run
        OBVIOUS
    <2>4. run[n].upscaler => lib[run[n].uses].of = "upscaler"
        BY <2>3 DEF Sound
    <2> QED BY <1>4, <2>1, <2>2, <2>4
<1>6. ASSUME NEW i \in DOMAIN run2, run2[i].upscaler
      PROVE  run2[i].uses \in DOMAIN lib2 /\ lib2[run2[i].uses].open /\ lib2[run2[i].uses].of = "upscaler"
    <2>1. i \in DOMAIN run /\ i # n /\ run2[i] = run[i] /\ n \in DOMAIN run
        BY <1>3
    <2>2. run[i].uses \in DOMAIN lib /\ lib[run[i].uses].open /\ lib[run[i].uses].of = "upscaler"
        BY <1>6, <2>1 DEF Sound
    <2>3. run[n].upscaler => run[i].uses # run[n].uses
        BY <1>6, <2>1 DEF Sound
    <2> QED BY <1>4, <2>1, <2>2, <2>3
<1>7. \A i, j \in DOMAIN run2 :
         run2[i].upscaler /\ run2[j].upscaler /\ run2[i].uses = run2[j].uses => i = j
    BY <1>3 DEF Sound
<1>8. ASSUME NEW h \in DOMAIN lib2, lib2[h].open
      PROVE  InTable(e, h) \/ InUse(run2, h) \/ LeftBehind(lib2[h])
    <2>1. h \in DOMAIN lib /\ lib2[h] = lib[h] /\ ~(run[n].upscaler /\ h = run[n].uses)
        BY <1>4, <1>8
    <2>2. InTable(e, h) \/ InUse(run, h) \/ LeftBehind(lib[h])
        BY <1>8, <2>1 DEF Sound
    <2>3. ASSUME InUse(run, h)
          PROVE  InUse(run2, h)
        BY <1>2, <2>1, <2>3 DEF InUse
    <2> QED BY <2>1, <2>2, <2>3
<1>9. Sound(lib2, e, run2)
    BY <1>5, <1>6, <1>7, <1>8 DEF Sound
<1> QED BY <1>1, <1>9

-----------------------------------------------------------------------------
(* Handles: the tables of the modules. *)

\* A closed handle's place gets a new one.
LEMMA SoundReplace ==
    ASSUME NEW lib \in Seq(Handle), NEW e \in [Places -> Nat], NEW run, NEW p \in Places,
           Sound(lib, [e EXCEPT ![p] = 0], run), NEW state \in States
    PROVE  Sound(Opened(lib, Of(p[1]), state), [e EXCEPT ![p] = NextHandle(lib)], run)
<1>1. PICK d \in [Places -> Nat] : d = [e EXCEPT ![p] = 0]
    OBVIOUS
<1>2. d[p] = 0
    BY <1>1
<1>3. Sound(Opened(lib, Of(p[1]), state), [d EXCEPT ![p] = NextHandle(lib)], run)
    BY <1>1, <1>2, SoundAdd
<1>4. [d EXCEPT ![p] = NextHandle(lib)] = [e EXCEPT ![p] = NextHandle(lib)]
    BY <1>1
<1> QED BY <1>3, <1>4

LEMMA EntriesIs ==
    ASSUME Typed
    PROVE  /\ Entries \in [Places -> Nat]
           /\ \A k \in Keys : /\ Entries[<<"dbs", k>>] = dbs[k] /\ Entries[<<"clients", k>>] = clients[k].conn
                              /\ Entries[<<"memcs", k>>] = memcs[k] /\ Entries[<<"curls", k>>] = curls[k].easy
                              /\ Entries[<<"contexts", k>>] = contexts[k]
           /\ \A t \in Tables, k \in Keys : <<t, k>> \in Places
<1>1. /\ dbs \in [Keys -> Nat] /\ memcs \in [Keys -> Nat] /\ contexts \in [Keys -> Nat]
      /\ clients \in [Keys -> [conn : Nat, connected : BOOLEAN]] /\ curls \in [Keys -> Curl]
    BY DEF Typed, DatabasesTypeOK, HttpTypeOK, GenerationTypeOK, Curl
<1>2. \A k \in Keys : clients[k].conn \in Nat /\ curls[k].easy \in Nat
    BY <1>1 DEF Curl
<1>3. \A t \in Tables, k \in Keys : Entry(t, k) \in Nat
    BY <1>1, <1>2 DEF Tables, Entry
<1>4. \A p \in Places : p[1] \in Tables /\ p[2] \in Keys
    BY DEF Places
<1>5. Entries \in [Places -> Nat]
    BY <1>3, <1>4 DEF Entries
<1>6. \A t \in Tables, k \in Keys : <<t, k>> \in Places /\ Entries[<<t, k>>] = Entry(t, k)
    BY DEF Entries, Places
<1> QED BY <1>5, <1>6 DEF Entry, Tables

\* One table is changed at one key.
LEMMA EntryMoves ==
    ASSUME Typed, NEW t \in Tables, NEW k \in Keys, NEW v,
           (t # "dbs" => dbs' = dbs), (t # "clients" => clients' = clients),
           (t # "memcs" => memcs' = memcs), (t # "curls" => curls' = curls),
           (t # "contexts" => contexts' = contexts),
           Entry(t, k)' = v, \A j \in Keys : j # k => Entry(t, j)' = Entry(t, j)
    PROVE  Entries' = [Entries EXCEPT ![<<t, k>>] = v]
<1>1. \A p \in Places : p[1] \in Tables /\ p[2] \in Keys /\ p = <<p[1], p[2]>>
    BY DEF Places
<1>2. ASSUME NEW s \in Tables, NEW j \in Keys, s # t
      PROVE  Entry(s, j)' = Entry(s, j)
    BY <1>2 DEF Tables, Entry
<1>3. ASSUME NEW p \in Places
      PROVE  Entry(p[1], p[2])' = IF p = <<t, k>> THEN v ELSE Entry(p[1], p[2])
    <2>1. CASE p[1] # t
        BY <1>1, <1>2, <2>1
    <2>2. CASE p[1] = t /\ p[2] # k
        BY <1>1, <2>2
    <2>3. CASE p[1] = t /\ p[2] = k
        BY <1>1, <2>3
    <2> QED BY <2>1, <2>2, <2>3
<1> QED BY <1>3 DEF Entries

LEMMA EntriesStay ==
    ASSUME UNCHANGED <<dbs, clients, memcs, curls, contexts>>
    PROVE  Entries' = Entries
BY DEF Entries, Entry

\* What Sound says of one entry.
LEMMA EntrySound ==
    ASSUME Typed, Sound(library, Entries, running), NEW t \in Tables, NEW k \in Keys
    PROVE  /\ Entry(t, k) # 0 => /\ Entry(t, k) \in DOMAIN library
                                 /\ library[Entry(t, k)].open /\ library[Entry(t, k)].of = Of(t)
           /\ \A s \in Tables, j \in Keys : Entry(t, k) # 0 /\ Entry(s, j) = Entry(t, k) => s = t /\ j = k
<1>1. \A s \in Tables, j \in Keys : <<s, j>> \in Places /\ Entries[<<s, j>>] = Entry(s, j)
    BY DEF Entries, Places
<1>2. PICK p \in Places : p = <<t, k>> /\ p[1] = t /\ Entries[p] = Entry(t, k)
    BY <1>1
<1>3. Entries[p] # 0 => Entries[p] \in DOMAIN library /\ library[Entries[p]].open /\ library[Entries[p]].of = Of(p[1])
    BY <1>2 DEF Sound
<1>4. \A q \in Places : Entries[p] # 0 /\ Entries[p] = Entries[q] => p = q
    BY <1>2 DEF Sound
<1>5. ASSUME NEW s \in Tables, NEW j \in Keys, Entry(t, k) # 0, Entry(s, j) = Entry(t, k)
      PROVE  s = t /\ j = k
    <2>1. PICK q \in Places : q = <<s, j>> /\ Entries[q] = Entry(s, j)
        BY <1>1
    <2>2. p = q
        BY <1>2, <1>4, <1>5, <2>1
    <2> QED BY <1>2, <2>1, <2>2
<1> QED BY <1>2, <1>3, <1>5

LEMMA EntriesSound ==
    ASSUME Typed, Sound(library, Entries, running), NEW k \in Keys
    PROVE  /\ dbs[k] # 0 => dbs[k] \in DOMAIN library /\ library[dbs[k]].of = "SQLite"
           /\ clients[k].conn # 0 => /\ clients[k].conn \in DOMAIN library
                                     /\ library[clients[k].conn].of = "MariaDBConnection"
           /\ \A j \in Keys : clients[k].conn # 0 /\ clients[j].conn = clients[k].conn => j = k
<1>1. dbs[k] = Entry("dbs", k) /\ \A j \in Keys : clients[j].conn = Entry("clients", j)
    BY DEF Entry
<1>2. "dbs" \in Tables /\ "clients" \in Tables /\ Of("dbs") = "SQLite" /\ Of("clients") = "MariaDBConnection"
    BY DEF Tables, Of
<1> QED BY <1>1, <1>2, EntrySound

\* A client that no step touches stays as it is, and so does its connection.
LEMMA ClientsStay ==
    ASSUME Typed, ClientsSound, Sound(library, Entries, running), UNCHANGED clients,
           \A h \in DOMAIN library : library[h].of = "MariaDBConnection" => library'[h].state = library[h].state
    PROVE  ClientsSound'
<1>1. \A k \in Keys : clients[k].conn # 0 => library'[clients[k].conn].state = library[clients[k].conn].state
    BY EntriesSound
<1> QED BY <1>1 DEF ClientsSound

LEMMA DatabaseHandles ==
    ASSUME Typed, IdentityInv, Sound(library, Entries, running), ClientsSound, Database
    PROVE  (Sound(library, Entries, running) /\ ClientsSound)'
<1>1. /\ dbs \in [Keys -> Nat] /\ memcs \in [Keys -> Nat]
      /\ clients \in [Keys -> [conn : Nat, connected : BOOLEAN]] /\ library \in Seq(Handle)
    BY DEF Typed, DatabasesTypeOK
<1>2. UNCHANGED <<curls, contexts, running>>
    BY DEF Database, httpVars, sdVars
<1>3. PICK e \in [Places -> Nat] : e = Entries
    BY EntriesIs
<1>4. Sound(library, e, running)
    BY <1>3
<1>5. \A o \in Known : Key(o) \in Keys
    BY KeysSuffice
<1>6. ASSUME UNCHANGED <<library, dbs, clients, memcs>>
      PROVE  (Sound(library, Entries, running) /\ ClientsSound)'
    <2>1. Entries' = Entries
        BY <1>2, <1>6, EntriesStay
    <2> QED BY <1>2, <1>6, <2>1 DEF ClientsSound
<1>7. ASSUME NEW k \in Keys, NEW v \in Nat, dbs' = [dbs EXCEPT ![k] = v], UNCHANGED <<clients, memcs>>
      PROVE  Entries' = [e EXCEPT ![<<"dbs", k>>] = v]
    BY <1>1, <1>2, <1>3, <1>7, EntryMoves DEF Tables, Entry
<1>8. ASSUME NEW k \in Keys, NEW v \in Nat, memcs' = [memcs EXCEPT ![k] = v], UNCHANGED <<clients, dbs>>
      PROVE  Entries' = [e EXCEPT ![<<"memcs", k>>] = v]
    BY <1>1, <1>2, <1>3, <1>8, EntryMoves DEF Tables, Entry
<1>9. ASSUME NEW k \in Keys, NEW c \in [conn : Nat, connected : BOOLEAN],
             clients' = [clients EXCEPT ![k] = c], UNCHANGED <<memcs, dbs>>
      PROVE  Entries' = [e EXCEPT ![<<"clients", k>>] = c.conn]
    BY <1>1, <1>2, <1>3, <1>9, EntryMoves DEF Tables, Entry
<1>10. \A k \in Keys : /\ <<"dbs", k>> \in Places /\ <<"clients", k>> \in Places /\ <<"memcs", k>> \in Places
                       /\ e[<<"dbs", k>>] = dbs[k] /\ e[<<"clients", k>>] = clients[k].conn
                       /\ e[<<"memcs", k>>] = memcs[k]
    BY <1>3, EntriesIs DEF Tables
<1>11. ASSUME NEW k \in Keys
       PROVE  /\ SqliteClosed(library, dbs[k]) \in Seq(Handle)
              /\ Sound(SqliteClosed(library, dbs[k]), [e EXCEPT ![<<"dbs", k>>] = 0], running)
              /\ DOMAIN SqliteClosed(library, dbs[k]) = DOMAIN library
              /\ \A h \in DOMAIN library : SqliteClosed(library, dbs[k])[h].state = library[h].state
    <2>1. CASE dbs[k] # 0 /\ library[dbs[k]].state = "pinned"
        <3>1. SqliteClosed(library, dbs[k]) = library
            BY <2>1 DEF SqliteClosed
        <3>2. LeftBehind(library[e[<<"dbs", k>>]])
            BY <1>10, <2>1, EntriesSound DEF LeftBehind
        <3>3. Sound(library, [e EXCEPT ![<<"dbs", k>>] = 0], running)
            BY <1>4, <1>10, <3>2, SoundLeave
        <3> QED BY <1>1, <3>1, <3>3
    <2>2. CASE ~(dbs[k] # 0 /\ library[dbs[k]].state = "pinned")
        <3>1. SqliteClosed(library, dbs[k]) = Closed(library, e[<<"dbs", k>>])
            BY <1>10, <2>2 DEF SqliteClosed
        <3>2. Sound(Closed(library, e[<<"dbs", k>>]), [e EXCEPT ![<<"dbs", k>>] = 0], running)
            BY <1>1, <1>4, <1>10, SoundDrop
        <3> QED BY <1>1, <3>1, <3>2, ClosedIs
    <2> QED BY <2>1, <2>2
<1>12. ASSUME NEW o \in Known, SqliteOpen(o)
       PROVE  (Sound(library, Entries, running) /\ ClientsSound)'
    <2>1. PICK k \in Keys : k = Key(o)
        BY <1>5
    <2>2. PICK lib \in Seq(Handle) : lib = SqliteClosed(library, dbs[k])
        BY <1>11
    <2>3. library' = Opened(lib, "SQLite", "used") /\ dbs' = [dbs EXCEPT ![k] = NextHandle(library)]
          /\ UNCHANGED <<clients, memcs>>
        BY <1>12, <2>1, <2>2 DEF SqliteOpen
    <2>4. /\ Sound(lib, [e EXCEPT ![<<"dbs", k>>] = 0], running)
          /\ DOMAIN lib = DOMAIN library /\ \A h \in DOMAIN library : lib[h].state = library[h].state
        BY <1>11, <2>2
    <2>5. NextHandle(library) = NextHandle(lib) /\ NextHandle(lib) \in Nat
        BY <1>1, <2>4 DEF NextHandle
    <2>6. Sound(Opened(lib, Of(<<"dbs", k>>[1]), "used"), [e EXCEPT ![<<"dbs", k>>] = NextHandle(lib)], running)
        BY <1>10, <2>4, SoundReplace DEF States
    <2>7. Entries' = [e EXCEPT ![<<"dbs", k>>] = NextHandle(lib)]
        BY <1>7, <2>3, <2>5
    <2>8. Sound(library', Entries', running')
        BY <1>2, <2>3, <2>6, <2>7 DEF Of
    <2>9. Grown(library', lib, NextHandle(lib), "SQLite", "used")
        BY <2>3, OpenedGrows DEF Classes, States
    <2>10. ClientsSound'
        BY <2>3, <2>4, <2>9, ClientsStay DEF Grown
    <2> QED BY <2>8, <2>10
<1>13. ASSUME NEW o \in Known, SqliteOpenFails(o) \/ SqliteClose(o)
       PROVE  (Sound(library, Entries, running) /\ ClientsSound)'
    <2>1. PICK k \in Keys : k = Key(o)
        BY <1>5
    <2>2. library' = SqliteClosed(library, dbs[k]) /\ dbs' = [dbs EXCEPT ![k] = 0]
          /\ UNCHANGED <<clients, memcs>>
        BY <1>13, <2>1 DEF SqliteOpenFails, SqliteClose
    <2>3. Entries' = [e EXCEPT ![<<"dbs", k>>] = 0]
        BY <1>7, <2>2
    <2>4. Sound(library', Entries', running')
        BY <1>2, <1>11, <2>2, <2>3
    <2>5. ClientsSound'
        BY <1>11, <2>2, ClientsStay
    <2> QED BY <2>4, <2>5
<1>14. ASSUME NEW o \in Known, SqliteBadParams(o)
       PROVE  (Sound(library, Entries, running) /\ ClientsSound)'
    <2>1. PICK k \in Keys : k = Key(o)
        BY <1>5
    <2>2. dbs[k] # 0 /\ library' = [library EXCEPT ![dbs[k]].state = "pinned"]
          /\ UNCHANGED <<dbs, clients, memcs>>
        BY <1>14, <2>1 DEF SqliteBadParams, dbVars
    <2>3. Entries' = e
        BY <1>2, <1>3, <2>2, EntriesStay
    <2>4. Sound([library EXCEPT ![e[<<"dbs", k>>]].state = "pinned"], e, running)
        BY <1>1, <1>4, <1>10, <2>2, SoundMark DEF States
    <2>5. Sound(library', Entries', running')
        <3>1. library' = [library EXCEPT ![e[<<"dbs", k>>]].state = "pinned"]
            BY <1>10, <2>2
        <3> QED BY <1>2, <2>3, <2>4, <3>1
    <2>6. library[dbs[k]].of = "SQLite"
        BY <2>2, EntriesSound
    <2>7. \A h \in DOMAIN library : h # dbs[k] => library'[h] = library[h]
        BY <2>2
    <2>8. ClientsSound'
        BY <2>2, <2>6, <2>7, ClientsStay
    <2> QED BY <2>5, <2>8
<1>15. ASSUME NEW k \in Keys, Attach(k)
       PROVE  (Sound(library, Entries, running) /\ ClientsSound)'
    <2>1. PICK lib \in Seq(Handle) : lib = Closed(library, memcs[k])
        BY <1>1, ClosedIs
    <2>2. /\ DOMAIN lib = DOMAIN library /\ \A h \in DOMAIN library : lib[h].state = library[h].state
        BY <1>1, <2>1, ClosedIs
    <2>3. Sound(lib, [e EXCEPT ![<<"memcs", k>>] = 0], running)
        BY <1>1, <1>4, <1>10, <2>1, SoundDrop
    <2>4. UNCHANGED <<dbs, clients>>
        BY <1>15 DEF Attach
    <2>5. CASE library' = Opened(lib, "MemcachedConnection", "used")
               /\ memcs' = [memcs EXCEPT ![k] = NextHandle(lib)]
        <3>1. NextHandle(lib) \in Nat
            BY OpenedIs DEF NextHandle
        <3>2. Entries' = [e EXCEPT ![<<"memcs", k>>] = NextHandle(lib)]
            BY <1>8, <2>4, <2>5, <3>1
        <3>3. Sound(Opened(lib, Of(<<"memcs", k>>[1]), "used"), [e EXCEPT ![<<"memcs", k>>] = NextHandle(lib)], running)
            BY <1>10, <2>3, SoundReplace DEF States
        <3>4. Sound(library', Entries', running')
            BY <1>2, <2>5, <3>2, <3>3 DEF Of
        <3>5. Grown(library', lib, NextHandle(lib), "MemcachedConnection", "used")
            BY <2>5, OpenedGrows DEF Classes, AtOnce, States
        <3>6. ClientsSound'
            BY <2>2, <2>4, <3>5, ClientsStay DEF Grown
        <3> QED BY <3>4, <3>6
    <2>6. CASE library' = lib /\ memcs' = [memcs EXCEPT ![k] = 0]
        <3>1. Entries' = [e EXCEPT ![<<"memcs", k>>] = 0]
            BY <1>8, <2>4, <2>6
        <3>2. ClientsSound'
            BY <2>2, <2>4, <2>6, ClientsStay
        <3> QED BY <1>2, <2>3, <2>6, <3>1, <3>2
    <2> QED BY <1>15, <2>1, <2>5, <2>6 DEF Attach
<1>16. ASSUME NEW o \in Known, MemcachedDisconnect(o)
       PROVE  (Sound(library, Entries, running) /\ ClientsSound)'
    <2>1. PICK k \in Keys : k = Key(o)
        BY <1>5
    <2>2. library' = Closed(library, memcs[k]) /\ memcs' = [memcs EXCEPT ![k] = 0]
          /\ UNCHANGED <<dbs, clients>>
        BY <1>16, <2>1 DEF MemcachedDisconnect
    <2>3. Sound(Closed(library, memcs[k]), [e EXCEPT ![<<"memcs", k>>] = 0], running)
        BY <1>1, <1>4, <1>10, SoundDrop
    <2>4. Entries' = [e EXCEPT ![<<"memcs", k>>] = 0]
        BY <1>8, <2>2
    <2>5. ClientsSound'
        BY <1>1, <2>2, ClosedIs, ClientsStay
    <2> QED BY <1>2, <2>2, <2>3, <2>4, <2>5
<1>17. ASSUME NEW k \in Keys, NEW c \in [conn : Nat, connected : BOOLEAN],
              clients' = [clients EXCEPT ![k] = c], c.connected => c.conn # 0,
              ~c.connected /\ c.conn # 0 => library'[c.conn].state = "new",
              \A h \in DOMAIN library : h # clients[k].conn => library'[h].state = library[h].state
       PROVE  ClientsSound'
    <2>1. ASSUME NEW j \in Keys, j # k, clients[j].conn # 0
          PROVE  library'[clients[j].conn].state = library[clients[j].conn].state
        <3>2. clients[j].conn # clients[k].conn /\ clients[j].conn \in DOMAIN library
            BY <2>1, EntriesSound
        <3> QED BY <1>17, <3>2
    <2>2. \A j \in Keys : clients'[j] = IF j = k THEN c ELSE clients[j]
        BY <1>1, <1>17
    <2>3. ASSUME NEW j \in Keys
          PROVE  /\ clients'[j].connected => clients'[j].conn # 0
                 /\ ~clients'[j].connected /\ clients'[j].conn # 0
                       => library'[clients'[j].conn].state = "new"
        <3>1. CASE j = k
            BY <1>17, <2>2, <3>1
        <3>2. CASE j # k
            BY <2>1, <2>2, <3>2 DEF ClientsSound
        <3> QED BY <3>1, <3>2
    <2> QED BY <2>3 DEF ClientsSound
<1>18. ASSUME NEW k \in Keys
       PROVE  Sound(Closed(library, clients[k].conn), [e EXCEPT ![<<"clients", k>>] = 0], running)
    BY <1>1, <1>4, <1>10, SoundDrop
<1>19. ASSUME NEW k \in Keys, Construct(k)
       PROVE  (Sound(library, Entries, running) /\ ClientsSound)'
    <2>1. PICK lib \in Seq(Handle) : lib = Disconnected(library, clients[k])
        BY <1>1, DisconnectedIs
    <2>2. /\ library' = Opened(lib, "MariaDBConnection", "new")
          /\ clients' = [clients EXCEPT ![k] = [conn |-> NextHandle(lib), connected |-> FALSE]]
          /\ UNCHANGED <<dbs, memcs>>
        BY <1>19, <2>1 DEF Construct
    <2>3. /\ Sound(lib, [e EXCEPT ![<<"clients", k>>] = 0], running)
          /\ DOMAIN lib = DOMAIN library /\ \A h \in DOMAIN library : lib[h].state = library[h].state
        <3>1. CASE clients[k].connected
            <4>1. lib = Closed(library, clients[k].conn)
                BY <2>1, <3>1 DEF Disconnected
            <4> QED BY <1>1, <1>18, <4>1, ClosedIs
        <3>2. CASE ~clients[k].connected
            <4>1. lib = library
                BY <2>1, <3>2 DEF Disconnected
            <4>2. e[<<"clients", k>>] # 0 => LeftBehind(library[e[<<"clients", k>>]])
                <5>1. e[<<"clients", k>>] = clients[k].conn
                    BY <1>10
                <5>2. clients[k].conn # 0 => /\ library[clients[k].conn].state = "new"
                                             /\ library[clients[k].conn].of = "MariaDBConnection"
                    BY <3>2, EntriesSound DEF ClientsSound
                <5> QED BY <5>1, <5>2 DEF LeftBehind
            <4> QED BY <1>4, <1>10, <4>1, <4>2, SoundLeave
        <3> QED BY <3>1, <3>2
    <2>4. NextHandle(lib) \in Nat
        BY DEF NextHandle
    <2>5. PICK c \in [conn : Nat, connected : BOOLEAN] : c = [conn |-> NextHandle(lib), connected |-> FALSE]
        BY <2>4
    <2>6. Entries' = [e EXCEPT ![<<"clients", k>>] = NextHandle(lib)]
        BY <1>9, <2>2, <2>5
    <2>7. Sound(Opened(lib, Of(<<"clients", k>>[1]), "new"), [e EXCEPT ![<<"clients", k>>] = NextHandle(lib)], running)
        BY <1>10, <2>3, SoundReplace DEF States
    <2>8. Sound(library', Entries', running')
        BY <1>2, <2>2, <2>6, <2>7 DEF Of
    <2>9. Grown(library', lib, NextHandle(lib), "MariaDBConnection", "new")
        BY <2>2, OpenedGrows DEF Classes, AtOnce, States
    <2>10. ClientsSound'
        <3>1. c.conn = NextHandle(lib) /\ ~c.connected /\ clients' = [clients EXCEPT ![k] = c]
            BY <2>2, <2>5
        <3>2. library'[c.conn].state = "new"
            BY <2>9, <3>1 DEF Grown
        <3>3. \A h \in DOMAIN library : h # clients[k].conn => library'[h].state = library[h].state
            BY <2>3, <2>9 DEF Grown
        <3> QED BY <1>17, <3>1, <3>2, <3>3
    <2> QED BY <2>8, <2>10
<1>20. ASSUME NEW o \in Known, MariaConnect(o)
       PROVE  (Sound(library, Entries, running) /\ ClientsSound)'
    <2>1. PICK k \in Keys : k = Key(o)
        BY <1>5
    <2>2. PICK lib, conn : /\ lib = IF clients[k].conn = 0 THEN Opened(library, "MariaDBConnection", "new")
                                    ELSE library
                           /\ conn = IF clients[k].conn = 0 THEN NextHandle(library) ELSE clients[k].conn
        OBVIOUS
    <2>3. /\ library' = [lib EXCEPT ![conn].state = "used"]
          /\ clients' = [clients EXCEPT ![k] = [conn |-> conn, connected |-> TRUE]]
          /\ UNCHANGED <<dbs, memcs>>
        BY <1>20, <2>1, <2>2 DEF MariaConnect
    <2>4. /\ Sound(lib, [e EXCEPT ![<<"clients", k>>] = conn], running)
          /\ conn \in Nat \ {0} /\ lib \in Seq(Handle)
          /\ DOMAIN library \subseteq DOMAIN lib
          /\ \A h \in DOMAIN library : lib[h] = library[h]
          /\ clients[k].conn \in {0, conn}
        <3>1. CASE clients[k].conn = 0
            <4>1. e[<<"clients", k>>] = 0
                BY <1>10, <3>1
            <4>2. Sound(Opened(library, Of(<<"clients", k>>[1]), "new"),
                        [e EXCEPT ![<<"clients", k>>] = NextHandle(library)], running)
                BY <1>1, <1>4, <1>10, <4>1, SoundAdd DEF States
            <4>3. lib = Opened(library, "MariaDBConnection", "new") /\ conn = NextHandle(library)
                BY <2>2, <3>1
            <4>4. lib \in Seq(Handle) /\ conn \in Nat \ {0}
                BY <1>1, <4>3, OpenedIs DEF Classes, AtOnce, States, NextHandle
            <4>5. Grown(lib, library, conn, "MariaDBConnection", "new")
                BY <1>1, <4>3, OpenedGrows DEF Classes, AtOnce, States
            <4>6. Sound(lib, [e EXCEPT ![<<"clients", k>>] = conn], running)
                BY <4>2, <4>3 DEF Of
            <4> QED BY <3>1, <4>4, <4>5, <4>6 DEF Grown
        <3>2. CASE clients[k].conn # 0
            <4>1. lib = library /\ conn = clients[k].conn
                BY <2>2, <3>2
            <4>2. conn \in Nat \ {0}
                BY <1>1, <3>2, <4>1
            <4>3. [e EXCEPT ![<<"clients", k>>] = conn] = e
                BY <1>10, <4>1
            <4> QED BY <1>1, <1>4, <4>1, <4>2, <4>3
        <3> QED BY <3>1, <3>2
    <2>5. PICK d \in [Places -> Nat] : d = [e EXCEPT ![<<"clients", k>>] = conn]
        BY <2>4
    <2>6. d[<<"clients", k>>] = conn
        BY <1>10, <2>5
    <2>7. Sound([lib EXCEPT ![d[<<"clients", k>>]].state = "used"], d, running)
        BY <1>10, <2>4, <2>5, <2>6, SoundMark DEF States
    <2>8. PICK c \in [conn : Nat, connected : BOOLEAN] :
             c = [conn |-> conn, connected |-> TRUE] /\ c.conn = conn /\ c.connected
        <3>1. PICK n \in Nat : n = conn
            BY <2>4
        <3>2. [conn |-> n, connected |-> TRUE] \in [conn : Nat, connected : BOOLEAN]
            OBVIOUS
        <3> QED BY <3>1, <3>2
    <2>9. Entries' = d
        BY <1>9, <2>3, <2>5, <2>8
    <2>10. Sound(library', Entries', running')
        BY <1>2, <2>3, <2>6, <2>7, <2>9
    <2>11. \A h \in DOMAIN library : h # clients[k].conn => library'[h].state = library[h].state
        <3> SUFFICES ASSUME NEW h \in DOMAIN library, h # clients[k].conn
                     PROVE  library'[h].state = library[h].state
            OBVIOUS
        <3>1. CASE clients[k].conn = 0
            <4>1. conn \notin DOMAIN library
                BY <1>1, <2>2, <3>1 DEF NextHandle
            <4> QED BY <2>3, <2>4, <4>1
        <3>2. CASE clients[k].conn # 0
            BY <2>3, <2>4, <3>2
        <3> QED BY <3>1, <3>2
    <2>12. ClientsSound'
        BY <1>17, <2>3, <2>4, <2>8, <2>11
    <2> QED BY <2>10, <2>12
<1>21. ASSUME NEW o \in Known, MariaConnectFails(o) \/ MariaDisconnect(o)
       PROVE  (Sound(library, Entries, running) /\ ClientsSound)'
    <2>1. PICK k \in Keys : k = Key(o)
        BY <1>5
    <2>2. /\ library' = Closed(library, clients[k].conn) /\ clients' = [clients EXCEPT ![k] = NoClient]
          /\ UNCHANGED <<dbs, memcs>>
        BY <1>21, <2>1 DEF MariaConnectFails, MariaDisconnect, Disconnected
    <2>3. NoClient \in [conn : Nat, connected : BOOLEAN] /\ NoClient.conn = 0 /\ ~NoClient.connected
        BY DEF NoClient
    <2>4. Entries' = [e EXCEPT ![<<"clients", k>>] = 0]
        BY <1>9, <2>2, <2>3
    <2>5. \A h \in DOMAIN library : library'[h].state = library[h].state
        BY <1>1, <2>2, ClosedIs
    <2>6. ClientsSound'
        BY <1>17, <2>2, <2>3, <2>5
    <2> QED BY <1>2, <1>18, <2>2, <2>4, <2>6
<1>22. CASE SqliteNew \/ (\E o \in Known : SqliteIsOpen(o) \/ MariaConnectAgain(o))
    BY <1>6, <1>22 DEF SqliteNew, SqliteIsOpen, MariaConnectAgain, dbVars
<1>23. CASE MariaNew
    BY <1>19, <1>23, KeysSuffice DEF MariaNew, Make
<1>24. CASE MemcachedNew
    BY <1>15, <1>24, KeysSuffice DEF MemcachedNew, Make
<1>25. ASSUME NEW o \in Known, MariaConstruct(o) \/ MemcachedConstruct(o)
       PROVE  (Sound(library, Entries, running) /\ ClientsSound)'
    BY <1>5, <1>15, <1>19, <1>25 DEF MariaConstruct, MemcachedConstruct
<1> QED BY <1>12, <1>13, <1>14, <1>16, <1>20, <1>21, <1>22, <1>23, <1>24, <1>25
        DEF Database, DatabaseNew, DatabaseCall

\* No option of a request is the handle itself.
LEMMA EasyStays ==
    ASSUME NEW curl \in Curl, NEW hs \in Headers, NEW t \in Nat, NEW verb \in Verbs, NEW n \in Nat
    PROVE  /\ WithHeaders(curl, hs, n).easy = curl.easy
           /\ Outgoing(curl, hs, t, verb, n).easy = curl.easy
<1>1. PICK w \in Curl : w = WithHeaders(curl, hs, n)
    BY WithHeadersTypes
<1>2. w.easy = curl.easy
    BY <1>1 DEF WithHeaders, Curl
<1>3. PICK d \in Curl : d = Timed(w, t)
    BY TimedTypes
<1>4. d.easy = w.easy
    BY <1>3 DEF Timed, Curl
<1>5. Prepared(d, verb, n).easy = d.easy
    BY DEF Prepared, Curl, Verbs
<1> QED BY <1>1, <1>2, <1>3, <1>4, <1>5 DEF Outgoing

LEMMA HttpHandles ==
    ASSUME Typed, IdentityInv, Sound(library, Entries, running), ClientsSound, Http
    PROVE  (Sound(library, Entries, running) /\ ClientsSound)'
<1>1. /\ curls \in [Keys -> Curl] /\ library \in Seq(Handle) /\ requests \in Nat
    BY DEF Typed, DatabasesTypeOK, HttpTypeOK, Curl
<1>2. UNCHANGED <<dbs, clients, memcs, contexts, running>>
    BY DEF Http, dbVars, sdVars
<1>3. PICK e \in [Places -> Nat] : e = Entries
    BY EntriesIs
<1>4. \A k \in Keys : <<"curls", k>> \in Places /\ e[<<"curls", k>>] = curls[k].easy
    BY <1>3, EntriesIs DEF Tables
<1>5. ASSUME NEW k \in Keys, NEW c \in Curl, curls' = [curls EXCEPT ![k] = c]
      PROVE  Entries' = [e EXCEPT ![<<"curls", k>>] = c.easy]
    BY <1>1, <1>2, <1>3, <1>5, EntryMoves DEF Tables, Entry
<1>6. ASSUME UNCHANGED library, Entries' = e
      PROVE  (Sound(library, Entries, running) /\ ClientsSound)'
    BY <1>2, <1>3, <1>6 DEF ClientsSound
<1>7. ASSUME NEW k \in Keys, NEW c \in Curl, curls' = [curls EXCEPT ![k] = c], c.easy = curls[k].easy,
             UNCHANGED library
      PROVE  (Sound(library, Entries, running) /\ ClientsSound)'
    <2>1. Entries' = [e EXCEPT ![<<"curls", k>>] = c.easy]
        BY <1>5, <1>7
    <2>2. c.easy = e[<<"curls", k>>]
        BY <1>4, <1>7
    <2>3. Entries' = e
        BY <2>1, <2>2
    <2> QED BY <1>6, <1>7, <2>3
<1>8. ASSUME UNCHANGED <<curls, library>>
      PROVE  (Sound(library, Entries, running) /\ ClientsSound)'
    <2>1. Entries' = e
        BY <1>2, <1>3, <1>8, EntriesStay
    <2> QED BY <1>6, <1>8, <2>1
<1>9. ASSUME NEW k \in Keys, NEW base, SetUp(k, base)
      PROVE  (Sound(library, Entries, running) /\ ClientsSound)'
    <2>1. PICK lib \in Seq(Handle) : lib = Closed(library, curls[k].easy)
        BY <1>1, ClosedIs
    <2>2. library' = Opened(lib, "CurlClient", "used")
          /\ curls' = [curls EXCEPT ![k] = [NoCurl EXCEPT !.easy = NextHandle(lib)]]
        BY <1>9, <2>1 DEF SetUp
    <2>3. NextHandle(lib) \in Nat
        BY DEF NextHandle
    <2>4. PICK c \in Curl : c = [NoCurl EXCEPT !.easy = NextHandle(lib)] /\ c.easy = NextHandle(lib)
        <3>1. [NoCurl EXCEPT !.easy = NextHandle(lib)] \in Curl
            BY <2>3 DEF NoCurl, Curl
        <3>2. [NoCurl EXCEPT !.easy = NextHandle(lib)].easy = NextHandle(lib)
            BY DEF NoCurl
        <3> QED BY <3>1, <3>2
    <2>5. Entries' = [e EXCEPT ![<<"curls", k>>] = NextHandle(lib)]
        BY <1>5, <2>2, <2>4
    <2>6. Sound(lib, [e EXCEPT ![<<"curls", k>>] = 0], running)
        BY <1>1, <1>3, <1>4, <2>1, SoundDrop
    <2>7. Sound(Opened(lib, Of(<<"curls", k>>[1]), "used"), [e EXCEPT ![<<"curls", k>>] = NextHandle(lib)], running)
        BY <1>4, <2>6, SoundReplace DEF States
    <2>8. Sound(library', Entries', running')
        BY <1>2, <2>2, <2>5, <2>7 DEF Of
    <2>9. Grown(library', lib, NextHandle(lib), "CurlClient", "used")
        BY <2>2, OpenedGrows DEF Classes, AtOnce, States
    <2>10. DOMAIN lib = DOMAIN library /\ \A h \in DOMAIN library : lib[h].state = library[h].state
        BY <1>1, <2>1, ClosedIs
    <2>11. ClientsSound'
        BY <1>2, <2>9, <2>10, ClientsStay DEF Grown
    <2> QED BY <2>8, <2>11
<1>10. ASSUME NEW o \in Known, NEW verb \in Verbs, Request(o, verb)
       PROVE  (Sound(library, Entries, running) /\ ClientsSound)'
    <2>1. PICK given, t, curl : RequestWith(o, verb, given, t, curl)
        BY <1>10, RequestIs
    <2>2. PICK k, n, hs : k = Key(o) /\ n = requests + 1 /\ hs = GivenHeaders(Key(o), given)
        OBVIOUS
    <2>3. /\ k \in Keys /\ curl \in Curl /\ curls' = [curls EXCEPT ![k] = curl] /\ UNCHANGED library
          /\ curl = Outgoing(curls[k], hs, t, verb, n)
          /\ t \in Nat /\ hs \in Headers
        BY <2>1, <2>2 DEF RequestWith, Headers
    <2>4. n \in Nat
        <3>1. requests \in Nat
            BY <1>1
        <3> QED BY <2>2, <3>1
    <2>5. curls[k] \in Curl
        BY <1>1, <2>3
    <2>6. curl.easy = curls[k].easy
        <3>1. PICK old \in Curl : old = curls[k]
            BY <2>5
        <3>2. Outgoing(old, hs, t, verb, n).easy = old.easy
            BY <2>3, <2>4, EasyStays
        <3> QED BY <2>3, <3>1, <3>2
    <2> QED BY <1>7, <2>3, <2>6
<1>11. ASSUME NEW o \in Known, RequestRefused(o)
       PROVE  (Sound(library, Entries, running) /\ ClientsSound)'
    <2>1. PICK k \in Keys : k = Key(o)
        BY KeysSuffice
    <2>2. curls' = [curls EXCEPT ![k] = WithHeaders(curls[k], "refused", 0)] /\ UNCHANGED library
        BY <1>11, <2>1 DEF RequestRefused
    <2>3. PICK old \in Curl : old = curls[k]
        BY <1>1
    <2>4. WithHeaders(old, "refused", 0) \in Curl
        BY WithHeadersTypes DEF Headers
    <2>5. WithHeaders(old, "refused", 0).easy = old.easy
        BY DEF WithHeaders, Curl
    <2> QED BY <1>7, <2>2, <2>3, <2>4, <2>5
<1>12. ASSUME NEW o \in Known, Configure(o) \/ ResponseConstruct(o)
       PROVE  (Sound(library, Entries, running) /\ ClientsSound)'
    BY <1>8, <1>12 DEF Configure, ResponseConstruct, Blank
<1>13. CASE ResponseNew
    BY <1>8, <1>13 DEF ResponseNew, Blank
<1>14. CASE CurlNew
    BY <1>9, <1>14, KeysSuffice DEF CurlNew, Make
<1>15. ASSUME NEW o \in Known, CurlConstruct(o)
       PROVE  (Sound(library, Entries, running) /\ ClientsSound)'
    BY <1>9, <1>15, KeysSuffice DEF CurlConstruct
<1> QED BY <1>10, <1>11, <1>12, <1>13, <1>14, <1>15 DEF Http, HttpNew, HttpCall

LEMMA GenerationHandles ==
    ASSUME Typed, IdentityInv, Sound(library, Entries, running), ClientsSound,
           Diffusion \/ GenerationStep, UNCHANGED <<dbs, clients, memcs, curls>>
    PROVE  (Sound(library, Entries, running) /\ ClientsSound)'
<1>1. /\ contexts \in [Keys -> Nat] /\ library \in Seq(Handle) /\ running \in Seq(Frame)
      /\ active \in Capture
    BY DEF Typed, DatabasesTypeOK, GenerationTypeOK
<1>2. PICK n \in Nat : n = Depth /\ n = Len(running) /\ DOMAIN running = 1..n
    BY <1>1 DEF Depth
<1>3. PICK e \in [Places -> Nat] : e = Entries
    BY EntriesIs
<1>4. \A k \in Keys : <<"contexts", k>> \in Places /\ e[<<"contexts", k>>] = contexts[k]
    BY <1>3, EntriesIs DEF Tables
<1>5. ASSUME NEW k \in Keys, NEW v \in Nat, contexts' = [contexts EXCEPT ![k] = v]
      PROVE  Entries' = [e EXCEPT ![<<"contexts", k>>] = v]
    BY <1>1, <1>3, <1>5, EntryMoves DEF Tables, Entry
<1>6. ASSUME UNCHANGED contexts
      PROVE  Entries' = e
    BY <1>3, <1>6, EntriesStay
<1>7. ASSUME NEW lib \in Seq(Handle), NEW h, lib = Closed(library, h)
      PROVE  DOMAIN lib = DOMAIN library /\ \A g \in DOMAIN library : lib[g].state = library[g].state
    BY <1>1, <1>7, ClosedIs
<1>8. ASSUME \A h \in DOMAIN library : library'[h].state = library[h].state
      PROVE  ClientsSound'
    BY <1>8, ClientsStay
<1>9. ASSUME NEW o \in Known, LoadModel(o)
      PROVE  (Sound(library, Entries, running) /\ ClientsSound)'
    <2>1. PICK k \in Keys : k = Key(o)
        BY KeysSuffice
    <2>2. PICK lib \in Seq(Handle) : lib = Closed(library, contexts[k])
        BY <1>1, ClosedIs
    <2>3. Sound(lib, [e EXCEPT ![<<"contexts", k>>] = 0], running)
        BY <1>1, <1>3, <1>4, <2>2, SoundDrop
    <2>4. UNCHANGED running
        BY <1>9 DEF LoadModel
    <2>5. CASE library' = Opened(lib, "StableDiffusion", "used")
               /\ contexts' = [contexts EXCEPT ![k] = NextHandle(lib)]
        <3>1. NextHandle(lib) \in Nat
            BY DEF NextHandle
        <3>2. Entries' = [e EXCEPT ![<<"contexts", k>>] = NextHandle(lib)]
            BY <1>5, <2>5, <3>1
        <3>3. Sound(Opened(lib, Of(<<"contexts", k>>[1]), "used"),
                    [e EXCEPT ![<<"contexts", k>>] = NextHandle(lib)], running)
            BY <1>4, <2>3, SoundReplace DEF States
        <3>4. Sound(library', Entries', running')
            BY <2>4, <2>5, <3>2, <3>3 DEF Of
        <3>5. Grown(library', lib, NextHandle(lib), "StableDiffusion", "used")
            BY <2>5, OpenedGrows DEF Classes, AtOnce, States
        <3>6. ClientsSound'
            BY <1>7, <1>8, <2>2, <3>5 DEF Grown
        <3> QED BY <3>4, <3>6
    <2>6. CASE library' = lib /\ contexts' = [contexts EXCEPT ![k] = 0]
        <3>1. Entries' = [e EXCEPT ![<<"contexts", k>>] = 0]
            BY <1>5, <2>6
        <3>2. ClientsSound'
            BY <1>7, <1>8, <2>2, <2>6
        <3> QED BY <2>3, <2>4, <2>6, <3>1, <3>2
    <2> QED BY <1>9, <2>1, <2>2, <2>5, <2>6 DEF LoadModel
<1>10. ASSUME NEW o \in Known, Unload(o)
       PROVE  (Sound(library, Entries, running) /\ ClientsSound)'
    <2>1. PICK k \in Keys : k = Key(o)
        BY KeysSuffice
    <2>2. PICK lib \in Seq(Handle) : lib = Closed(library, contexts[k])
        BY <1>1, ClosedIs
    <2>3. library' = lib /\ contexts' = [contexts EXCEPT ![k] = 0] /\ UNCHANGED running
        BY <1>10, <2>1, <2>2 DEF Unload
    <2>4. Sound(lib, [e EXCEPT ![<<"contexts", k>>] = 0], running)
        BY <1>1, <1>3, <1>4, <2>2, SoundDrop
    <2>5. Entries' = [e EXCEPT ![<<"contexts", k>>] = 0]
        BY <1>5, <2>3
    <2>6. ClientsSound'
        BY <1>7, <1>8, <2>2, <2>3
    <2> QED BY <2>3, <2>4, <2>5, <2>6
<1>11. ASSUME UNCHANGED <<library, contexts, running>>
       PROVE  (Sound(library, Entries, running) /\ ClientsSound)'
    BY <1>3, <1>6, <1>8, <1>11
<1>12. ASSUME NEW o \in Known, Generate(o)
       PROVE  (Sound(library, Entries, running) /\ ClientsSound)'
    <2>1. PICK k \in Keys : k = Key(o)
        BY KeysSuffice
    <2>2. PICK handler \in BOOLEAN : Begin(k, contexts[k], FALSE, handler)
        BY <1>12, <2>1 DEF Generate
    <2>3. contexts[k] \in Nat
        BY <1>1
    <2>4. /\ running' \in Seq(Frame) /\ Depth' = n + 1 /\ running'[n + 1] = Begun(k, contexts[k], FALSE, handler)
          /\ \A i \in 1..n : running[i] \in Frame /\ running'[i] = [running[i] EXCEPT !.nested = TRUE]
          /\ UNCHANGED contexts
        BY <1>1, <1>2, <2>2, <2>3, BeginIs
    <2>5. DOMAIN running' = 1..(n + 1) /\ ~running'[n + 1].upscaler
        BY <2>4 DEF Depth, Begun
    <2>6. \A i \in 1..n : running'[i].uses = running[i].uses /\ running'[i].upscaler = running[i].upscaler
        BY <2>4 DEF Frame
    <2>7. Sound(library, e, running')
        BY <1>2, <1>3, <2>5, <2>6, SoundPush
    <2>8. UNCHANGED library
        BY <1>12 DEF Generate
    <2> QED BY <1>6, <1>8, <2>4, <2>7, <2>8
<1>13. ASSUME NEW o \in Known, Upscale(o)
       PROVE  (Sound(library, Entries, running) /\ ClientsSound)'
    <2>1. PICK k \in Keys : k = Key(o)
        BY KeysSuffice
    <2>2. PICK handler \in BOOLEAN : Begin(k, NextHandle(library), TRUE, handler)
        BY <1>13, <2>1 DEF Upscale
    <2>3. NextHandle(library) \in Nat
        BY <1>1 DEF NextHandle
    <2>4. /\ running' \in Seq(Frame) /\ Depth' = n + 1
          /\ running'[n + 1] = Begun(k, NextHandle(library), TRUE, handler)
          /\ \A i \in 1..n : running[i] \in Frame /\ running'[i] = [running[i] EXCEPT !.nested = TRUE]
          /\ UNCHANGED contexts
        BY <1>1, <1>2, <2>2, <2>3, BeginIs
    <2>5. DOMAIN running' = 1..(n + 1) /\ running'[n + 1].upscaler
          /\ running'[n + 1].uses = NextHandle(library)
        BY <2>4 DEF Depth, Begun
    <2>6. \A i \in 1..n : running'[i].uses = running[i].uses /\ running'[i].upscaler = running[i].upscaler
        BY <2>4 DEF Frame
    <2>7. library' = Opened(library, "upscaler", "used")
        BY <1>13 DEF Upscale
    <2>8. Sound(Opened(library, "upscaler", "used"), e, running')
        BY <1>1, <1>2, <1>3, <2>5, <2>6, SoundPushUpscaler DEF States
    <2>9. Grown(library', library, NextHandle(library), "upscaler", "used")
        BY <1>1, <2>7, OpenedGrows DEF States
    <2>10. ClientsSound'
        BY <1>8, <2>9 DEF Grown
    <2> QED BY <1>6, <2>4, <2>7, <2>8, <2>10
<1>14. ASSUME NEW o \in Known, InputFails(o)
       PROVE  (Sound(library, Entries, running) /\ ClientsSound)'
    <2>1. library' = Opened(library, "input", "used") /\ UNCHANGED <<contexts, running>>
        BY <1>14 DEF InputFails, sdVars
    <2>2. Sound(Opened(library, "input", "used"), e, running)
        BY <1>1, <1>3, SoundLost DEF States
    <2>3. Grown(library', library, NextHandle(library), "input", "used")
        BY <1>1, <2>1, OpenedGrows DEF States
    <2>4. ClientsSound'
        BY <1>8, <2>3 DEF Grown
    <2> QED BY <1>6, <2>1, <2>2, <2>4
<1>21. ASSUME NEW o \in Known, UpscaleFails(o)
       PROVE  (Sound(library, Entries, running) /\ ClientsSound)'
    <2>1. PICK lib \in Seq(Handle) : lib = Opened(library, "upscaler", "new")
        BY <1>1, OpenedIs DEF States
    <2>2. PICK lib2 : lib2 = Opened(lib, "input", "used")
        OBVIOUS
    <2>3. library' \in {lib, lib2} /\ UNCHANGED <<contexts, running>>
        BY <1>21, <2>1, <2>2 DEF UpscaleFails, sdVars
    <2>4. Sound(lib, e, running)
        BY <1>1, <1>3, <2>1, SoundLost DEF States
    <2>5. Sound(lib2, e, running)
        BY <1>4, <2>2, <2>4, SoundLost DEF States
    <2>6. Grown(lib, library, NextHandle(library), "upscaler", "new")
        BY <1>1, <2>1, OpenedGrows DEF States
    <2>7. Grown(lib2, lib, NextHandle(lib), "input", "used")
        BY <2>2, OpenedGrows DEF States
    <2>8. \A g \in DOMAIN library : library'[g] = library[g]
        BY <2>3, <2>6, <2>7 DEF Grown
    <2>9. ClientsSound'
        BY <1>8, <2>8
    <2> QED BY <1>6, <2>3, <2>4, <2>5, <2>9
<1>15. ASSUME UNCHANGED <<library, contexts>>, DOMAIN running' = 1..n,
              \A i \in 1..n : running'[i].uses = running[i].uses /\ running'[i].upscaler = running[i].upscaler
       PROVE  (Sound(library, Entries, running) /\ ClientsSound)'
    <2>1. Sound(library, e, running')
        BY <1>2, <1>3, <1>15, SoundRun
    <2> QED BY <1>6, <1>8, <1>15, <2>1
<1>16. ASSUME NEW o \in Known, LoadControlNet(o)
       PROVE  (Sound(library, Entries, running) /\ ClientsSound)'
    <2>1. running' = Nested /\ UNCHANGED <<library, contexts>>
        BY <1>16 DEF LoadControlNet
    <2>2. DOMAIN running' = 1..n
          /\ \A i \in 1..n : running[i] \in Frame /\ running'[i] = [running[i] EXCEPT !.nested = TRUE]
        BY <1>1, <1>2, <2>1, NestedIs
    <2>3. \A i \in 1..n : running'[i].uses = running[i].uses /\ running'[i].upscaler = running[i].upscaler
        BY <2>2 DEF Frame
    <2> QED BY <1>15, <2>1, <2>2, <2>3
<1>17. ASSUME NEW f \in Frame, running' = [running EXCEPT ![Depth] = f], Depth > 0,
              f.uses = Top.uses, f.upscaler = Top.upscaler, UNCHANGED <<library, contexts>>
       PROVE  (Sound(library, Entries, running) /\ ClientsSound)'
    <2>1. DOMAIN running' = 1..n
        BY <1>2, <1>17
    <2>2. \A i \in 1..n : running'[i].uses = running[i].uses /\ running'[i].upscaler = running[i].upscaler
        BY <1>2, <1>17 DEF Top
    <2> QED BY <1>15, <1>17, <2>1, <2>2
<1>18. CASE Tick
    <2>1. Ticked \in Frame /\ running' = [running EXCEPT ![Depth] = Ticked]
          /\ Ticked.uses = Top.uses /\ Ticked.upscaler = Top.upscaler
        BY <1>1, <1>18, TickIs
    <2>2. Depth > 0 /\ UNCHANGED <<library, contexts>>
        BY <1>18 DEF Tick
    <2> QED BY <1>17, <2>1, <2>2
<1>19. CASE HandlerReturns
    <2>1. Depth > 0 /\ UNCHANGED <<library, contexts>>
          /\ running' = [running EXCEPT ![Depth] = [Top EXCEPT !.at = "library"]]
        BY <1>19 DEF HandlerReturns, Top
    <2>2. PICK r \in Frame : r = Top
        <3>1. Top \in Frame
            BY <1>1, <2>1, ElementOfSeq DEF Top, Depth
        <3> QED BY <3>1
    <2>3. [r EXCEPT !.at = "library"] \in Frame
        BY DEF Frame
    <2>4. PICK f \in Frame : f = [r EXCEPT !.at = "library"]
        BY <2>3
    <2>5. f.uses = r.uses /\ f.upscaler = r.upscaler
        BY <2>4 DEF Frame
    <2> QED BY <1>17, <2>1, <2>2, <2>4, <2>5
<1>20. CASE End
    <2>1. n \in Nat \ {0} /\ Depth > 0
        BY <1>2, <1>20 DEF End
    <2>2. running' = Popped /\ UNCHANGED contexts
          /\ library' = IF running[n].upscaler THEN Closed(library, running[n].uses) ELSE library
        BY <1>2, <1>20 DEF End, Popped, Top
    <2>3. DOMAIN running' = 1..(n - 1) /\ \A i \in 1..(n - 1) : running'[i] = running[i]
        BY <1>1, <1>2, <2>1, <2>2, PoppedIs
    <2>4. Sound(IF running[n].upscaler THEN Closed(library, running[n].uses) ELSE library, e, running')
        BY <1>1, <1>2, <1>3, <2>1, <2>3, SoundPop
    <2>5. \A h \in DOMAIN library : library'[h].state = library[h].state
        BY <1>1, <2>2, ClosedIs
    <2> QED BY <1>6, <1>8, <2>2, <2>4, <2>5
<1> QED BY <1>9, <1>10, <1>11, <1>12, <1>13, <1>14, <1>16, <1>18, <1>19, <1>20, <1>21
        DEF Diffusion, GenerationCall, GenerationStep, SdNew, ClearLog, Crash, sdVars


-----------------------------------------------------------------------------
(* The invariant. *)

LEMMA InvParts ==
    ASSUME NativesInv
    PROVE  /\ Typed /\ IdentityInv /\ Sound(library, Entries, running) /\ ClientsSound
           /\ OptionsAccounted /\ RequestsAsAsked /\ CapturesNested /\ CapturesAreOwn
BY DEF NativesInv, Typed, IdentityInv

\* What a step leaves alone stays as it was.
LEMMA HttpStays ==
    ASSUME Typed, OptionsAccounted, RequestsAsAsked, UNCHANGED httpVars
    PROVE  (HttpTypeOK /\ OptionsAccounted /\ RequestsAsAsked)'
<1>1. UNCHANGED <<curls, config, responses, requests, sent, before>>
    BY DEF httpVars
<1>2. HttpTypeOK'
    BY <1>1 DEF Typed, HttpTypeOK
<1>3. OptionsAccounted'
    BY <1>1 DEF OptionsAccounted
<1>4. RequestsAsAsked'
    BY <1>1 DEF RequestsAsAsked
<1> QED BY <1>2, <1>3, <1>4

LEMMA GenerationStays ==
    ASSUME Typed, CapturesNested, CapturesAreOwn, UNCHANGED sdVars
    PROVE  (GenerationTypeOK /\ CapturesNested /\ CapturesAreOwn)'
<1>1. UNCHANGED <<contexts, ticks, active, running>>
    BY DEF sdVars
<1>2. GenerationTypeOK'
    BY <1>1 DEF Typed, GenerationTypeOK
<1>3. (CapturesNested /\ CapturesAreOwn)'
    BY <1>1 DEF CapturesNested, CapturesAreOwn, Depth, Top
<1> QED BY <1>2, <1>3

LEMMA DatabasesStay ==
    ASSUME Typed, UNCHANGED <<dbs, clients, memcs>>, library' \in Seq(Handle),
           over' \in {"no", "locked", "crashed"}
    PROVE  DatabasesTypeOK'
BY DEF Typed, DatabasesTypeOK

LEMMA HandlesStay ==
    ASSUME Sound(library, Entries, running), ClientsSound,
           UNCHANGED <<library, dbs, clients, memcs, curls, contexts, running>>
    PROVE  (Sound(library, Entries, running) /\ ClientsSound)'
BY EntriesStay DEF ClientsSound

\* What the steps outside Database, Http and Diffusion leave alone.
LEMMA OtherSteps ==
    ASSUME [Next]_vars, ~Database, ~Http, ~Diffusion, ~(Library /\ GenerationStep)
    PROVE  UNCHANGED <<library, dbVars, httpVars, sdVars>>
BY DEF Next, Script, Library, Xml, Exit, Pass, vars, tableVars

LEMMA NativesNext ==
    ASSUME NativesInv, [Next]_vars
    PROVE  NativesInv'
<1>1. /\ Typed /\ IdentityInv /\ Sound(library, Entries, running) /\ ClientsSound
      /\ OptionsAccounted /\ RequestsAsAsked /\ CapturesNested /\ CapturesAreOwn
    BY InvParts
<1>2. IdentityInv'
    BY <1>1, StepOnIdentity, IdentityKept
<1>3. calls' \in 0..MaxCalls
    <2>1. calls \in 0..MaxCalls /\ MaxCalls \in Nat
        BY <1>1, NativesAssumption DEF Typed
    <2>2. UNCHANGED calls \/ (calls < MaxCalls /\ calls' = calls + 1)
        BY DEF Next, Script, Library, Xml, Exit, vars
    <2> QED BY <2>1, <2>2
<1>4. ASSUME (DatabasesTypeOK /\ HttpTypeOK /\ GenerationTypeOK)',
             (Sound(library, Entries, running) /\ ClientsSound)',
             (OptionsAccounted /\ RequestsAsAsked)', (CapturesNested /\ CapturesAreOwn)'
      PROVE  NativesInv'
    BY <1>2, <1>3, <1>4 DEF NativesInv, Typed, IdentityInv
<1>5. over \in {"no", "locked", "crashed"} /\ library \in Seq(Handle)
    BY <1>1 DEF Typed, DatabasesTypeOK
<1>6. CASE Database
    <2>1. UNCHANGED httpVars /\ UNCHANGED sdVars
        BY <1>6 DEF Database
    <2> QED BY <1>1, <1>4, <1>6, <2>1, DatabaseTypes, DatabaseHandles, HttpStays, GenerationStays
<1>7. CASE Http
    <2>1. UNCHANGED <<dbs, clients, memcs, over>> /\ UNCHANGED sdVars
        BY <1>7 DEF Http, dbVars
    <2>2. HttpTypeOK' /\ library' \in Seq(Handle)
        BY <1>1, <1>7, HttpTypes
    <2>3. DatabasesTypeOK'
        BY <1>1, <1>5, <2>1, <2>2, DatabasesStay
    <2> QED BY <1>1, <1>4, <1>7, <2>1, <2>2, <2>3, HttpHandles, RequestsKept, GenerationStays
<1>8. CASE Diffusion \/ Library
    <2>1. Diffusion \/ GenerationStep
        BY <1>8 DEF Library
    <2>2. UNCHANGED <<dbs, clients, memcs>> /\ UNCHANGED httpVars
        BY <1>8 DEF Diffusion, Library, dbVars
    <2>3. over' \in {"no", "locked", "crashed"}
        BY <1>5, <1>8 DEF Diffusion, Library, dbVars, GenerationStep, Tick, Crash, HandlerReturns, End
    <2>4. GenerationTypeOK' /\ library' \in Seq(Handle)
        BY <1>1, <2>1, GenerationTypes
    <2>5. DatabasesTypeOK'
        BY <1>1, <2>2, <2>3, <2>4, DatabasesStay
    <2>6. UNCHANGED curls
        BY <2>2 DEF httpVars
    <2> QED BY <1>1, <1>4, <2>1, <2>2, <2>4, <2>5, <2>6, GenerationHandles, CapturesKept, HttpStays
<1>9. CASE UNCHANGED <<library, dbVars, httpVars, sdVars>>
    <2>1. UNCHANGED <<library, dbs, clients, memcs, over, curls, contexts, running>>
          /\ UNCHANGED httpVars /\ UNCHANGED sdVars
        BY <1>9 DEF dbVars, httpVars, sdVars
    <2>2. DatabasesTypeOK'
        BY <1>1, <1>5, <2>1, DatabasesStay
    <2> QED BY <1>1, <1>4, <2>1, <2>2, HandlesStay, HttpStays, GenerationStays
<1> QED BY <1>6, <1>7, <1>8, <1>9, OtherSteps

LEMMA NativesStart ==
    ASSUME Init
    PROVE  NativesInv
<1> USE IdentityAssumption
<1>1. objects = <<>> /\ stamps = 1 /\ Known = {} /\ Len(objects) = 0 /\ calls = 0
    BY DEF Init, IdentityInit, Known
<1>2. library = <<>> /\ DOMAIN library = {} /\ running = <<>> /\ DOMAIN running = {} /\ Depth = 0
    BY DEF Init, DatabasesInit, GenerationInit, Depth
<1>3. /\ \A k \in Keys : dbs[k] = 0 /\ memcs[k] = 0 /\ clients[k] = NoClient
      /\ \A k \in Keys : curls[k] = NoCurl /\ before[k] = {} /\ contexts[k] = 0 /\ ticks[k] = <<>>
      /\ sent = NoSent /\ active = [on |-> FALSE, id |-> 0, handler |-> FALSE]
    BY DEF Init, DatabasesInit, HttpInit, GenerationInit
<1>4. IdentityTypeOK /\ Numbered /\ IdentityFollowsNew
    <2>1. objects \in Seq([class : Classes, id : {0} \cup Keys, origin : Addresses])
        BY <1>1
    <2>2. IdentityTypeOK
        BY <1>1, <2>1 DEF IdentityTypeOK
    <2> QED BY <1>1, <2>2 DEF Numbered, IdentityFollowsNew
<1>5. DatabasesTypeOK
    <2>1. library \in Seq(Handle)
        BY <1>2
    <2> QED BY <2>1 DEF Init, DatabasesInit, DatabasesTypeOK, NoClient
<1>6. HttpTypeOK
    <2>1. curls \in [Keys -> Curl]
        BY DEF Init, HttpInit, NoCurl, Curl
    <2>2. config \in [Keys -> [base : Bases \cup {""}, timeout : Nat, headers : BOOLEAN]]
        BY DEF Init, HttpInit, Settings, Default
    <2>3. responses \in [Keys -> Nat] /\ requests \in Nat /\ before \in [Keys -> SUBSET Uses]
        BY DEF Init, HttpInit
    <2> QED BY <2>1, <2>2, <2>3 DEF HttpTypeOK, Curl
<1>7. GenerationTypeOK
    <2>1. running \in Seq(Frame)
        BY <1>2
    <2>2. active \in Capture
        BY <1>3 DEF Capture
    <2>3. contexts \in [Keys -> Nat] /\ ticks \in [Keys -> Seq(Keys)]
        BY DEF Init, GenerationInit
    <2> QED BY <2>1, <2>2, <2>3 DEF GenerationTypeOK
<1>8. calls \in 0..MaxCalls /\ stamps # 0
    BY <1>1, NativesAssumption
<1>9. Sound(library, Entries, running)
    <2>1. ASSUME NEW p \in Places
          PROVE  Entries[p] = 0
        <3>1. PICK t \in Tables, k \in Keys : p = <<t, k>>
            BY DEF Places
        <3>2. NoClient.conn = 0 /\ NoCurl.easy = 0
            BY DEF NoClient, NoCurl
        <3>3. /\ dbs[k] = 0 /\ memcs[k] = 0 /\ contexts[k] = 0
              /\ clients[k].conn = 0 /\ curls[k].easy = 0
            BY <1>3, <3>2
        <3>4. Entry(t, k) = 0
            BY <3>3 DEF Entry, Tables
        <3>5. Entries[p] = Entry(p[1], p[2])
            BY DEF Entries
        <3> QED BY <3>1, <3>4, <3>5
    <2> QED BY <1>2, <2>1 DEF Sound
<1>10. ClientsSound
    <2>1. ~NoClient.connected /\ NoClient.conn = 0
        BY DEF NoClient
    <2>2. \A k \in Keys : ~clients[k].connected /\ clients[k].conn = 0
        BY <1>3, <2>1
    <2> QED BY <2>2 DEF ClientsSound
<1>11. OptionsAccounted /\ RequestsAsAsked
    <2>1. /\ NoCurl.custom = "" /\ ~NoCurl.post /\ NoCurl.body = 0 /\ NoCurl.headers = 0
          /\ ~NoCurl.freed /\ NoSent.n = 0
        BY DEF NoCurl, NoSent
    <2>2. OptionsAccounted
        BY <1>3, <2>1 DEF OptionsAccounted
    <2>3. RequestsAsAsked
        BY <1>3, <2>1 DEF RequestsAsAsked
    <2> QED BY <2>2, <2>3
<1>12. CapturesNested /\ CapturesAreOwn
    BY <1>2, <1>3 DEF CapturesNested, CapturesAreOwn
<1> QED BY <1>4, <1>5, <1>6, <1>7, <1>8, <1>9, <1>10, <1>11, <1>12 DEF NativesInv, Typed

(* NativesInv holds of every state that scripts and the modules reach: of  *)
(* the tables of the modules, the handles of their libraries, the options  *)
(* of the handles and the captures of the generations, together.           *)
THEOREM NativesInductive == Spec => []NativesInv
<1>1. Init => NativesInv
    BY NativesStart
<1>2. NativesInv /\ [Next]_vars => NativesInv'
    BY NativesNext
<1> QED BY <1>1, <1>2, PTL DEF Spec

-----------------------------------------------------------------------------
(* What it says of objects and handles. *)

(* Two objects share a number exactly if `new` made them one: numbers are  *)
(* never given twice by instanceId(), and never lost by a copy, but for a  *)
(* copy made before an object of SQLite had one.                           *)
THEOREM NumbersFollowNew == Spec => []IdentityFollowsNew
<1>1. NativesInv => IdentityFollowsNew
    BY DEF NativesInv
<1> QED BY <1>1, NativesInductive, PTL

(* Every handle in a table of a module is open and in one place, whatever  *)
(* the script opens, replaces, closes or copies; and every open one is in  *)
(* a table, or used by a generation that runs, but for the four kinds that *)
(* the code loses.                                                         *)
THEOREM HandlesHeld == Spec => []HandlesAreHeld
<1>1. ASSUME NativesInv PROVE HandlesAreHeld
    <2>1. Typed /\ Sound(library, Entries, running)
        BY <1>1, InvParts
    <2>2. Depth \in Nat /\ DOMAIN running = 1..Depth
        BY <2>1 DEF Typed, GenerationTypeOK, Depth
    <2>3. ASSUME NEW h \in DOMAIN library
          PROVE  /\ Held(h) => library[h].open /\ \A x, y \in Holders(h) : x = y
                 /\ library[h].open /\ ~Held(h) => LeftBehind(library[h])
        <3>1. h # 0
            BY <2>1, <2>3 DEF Typed, DatabasesTypeOK
        <3>2. ASSUME NEW p \in Holders(h)
              PROVE  p \in Places /\ Entries[p] = h
            BY DEF Holders, Places, Entries
        <3>3. ASSUME NEW p \in Places, Entries[p] = h
              PROVE  p \in Holders(h)
            BY <3>3 DEF Holders, Places, Entries
        <3>4. ASSUME NEW p \in Holders(h), NEW q \in Holders(h)
              PROVE  p = q
            BY <2>1, <3>1, <3>2 DEF Sound
        <3>5. Held(h) => library[h].open
            BY <2>1, <2>2, <3>1, <3>2 DEF Sound, Held
        <3>6. ASSUME library[h].open, ~Held(h)
              PROVE  LeftBehind(library[h])
            <4>1. ~InTable(Entries, h)
                BY <3>3, <3>6 DEF Held, InTable
            <4>2. ~InUse(running, h)
                BY <2>2, <3>6 DEF Held, InUse
            <4> QED BY <2>1, <3>6, <4>1, <4>2 DEF Sound
        <3> QED BY <3>4, <3>5, <3>6
    <2> QED BY <2>3 DEF HandlesAreHeld, LeftBehind
<1> QED BY <1>1, NativesInductive, PTL

(* A request differs from what the script asked for only by what its       *)
(* client was used for before, however many requests, clients, copies and  *)
(* constructions came between.                                             *)
THEOREM RequestsHonest == Spec => []RequestsAsAsked
<1>1. NativesInv => RequestsAsAsked
    BY DEF NativesInv
<1> QED BY <1>1, NativesInductive, PTL

(* However deep generations nest in each other's handlers, an object has   *)
(* recorded its own steps only, and a generation misses steps only if      *)
(* another captured inside it.                                             *)
THEOREM CapturesOwn == Spec => []CapturesAreOwn
<1>1. NativesInv => CapturesAreOwn
    BY DEF NativesInv
<1> QED BY <1>1, NativesInductive, PTL

-----------------------------------------------------------------------------
(* A step touches one instance. *)

\* Numbers that are on an object.
Given == {objects[o].id : o \in Known} \ {0}

\* What belongs to a number, but for one, stays.
OnlyAt(k) ==
    \A j \in Given : j # k =>
        /\ dbs'[j] = dbs[j] /\ clients'[j] = clients[j] /\ memcs'[j] = memcs[j]
        /\ curls'[j] = curls[j] /\ config'[j] = config[j] /\ responses'[j] = responses[j]
        /\ contexts'[j] = contexts[j] /\ ticks'[j] = ticks[j]

\* The tables of the modules, one by one.
OnlyDatabases(k) ==
    \A j \in Keys : j # k => dbs'[j] = dbs[j] /\ clients'[j] = clients[j] /\ memcs'[j] = memcs[j]
OnlyClients(k) ==
    \A j \in Given : j # k => curls'[j] = curls[j] /\ config'[j] = config[j] /\ responses'[j] = responses[j]
OnlyModels(k) ==
    \A j \in Keys : j # k => contexts'[j] = contexts[j] /\ ticks'[j] = ticks[j]

LEMMA GivenKeys ==
    ASSUME IdentityInv
    PROVE  Given \subseteq Keys /\ stamps \notin Given
<1>1. IdentityTypeOK /\ Numbered
    BY DEF IdentityInv
<1>2. ASSUME NEW o \in Known
      PROVE  objects[o].id \in {0} \cup Keys /\ objects[o].id < stamps /\ objects[o].id \in Nat /\ stamps \in Nat
    BY <1>1, ObjectTypes DEF Numbered
<1> QED BY <1>2 DEF Given

LEMMA DatabasesOnly ==
    ASSUME Typed, Database
    PROVE  \E k \in Nat : OnlyDatabases(k)
<1>1. /\ dbs \in [Keys -> Nat] /\ memcs \in [Keys -> Nat]
      /\ clients \in [Keys -> [conn : Nat, connected : BOOLEAN]]
      /\ stamps \in Nat /\ \A o \in Known : Key(o) \in Nat
    <2>1. \A o \in Known : objects[o].id \in Nat /\ stamps \in Nat
        BY ObjectTypes DEF Typed
    <2> QED BY <2>1 DEF Typed, DatabasesTypeOK, IdentityTypeOK, Key
<1>2. ASSUME NEW k \in Nat, NEW v,
             \/ dbs' = [dbs EXCEPT ![k] = v] /\ UNCHANGED <<clients, memcs>>
             \/ clients' = [clients EXCEPT ![k] = v] /\ UNCHANGED <<dbs, memcs>>
             \/ memcs' = [memcs EXCEPT ![k] = v] /\ UNCHANGED <<dbs, clients>>
             \/ UNCHANGED <<dbs, clients, memcs>>
      PROVE  \E j \in Nat : OnlyDatabases(j)
    BY <1>1, <1>2 DEF OnlyDatabases
<1>3. ASSUME NEW k \in Nat, Construct(k) PROVE \E j \in Nat : OnlyDatabases(j)
    BY <1>2, <1>3 DEF Construct
<1>4. ASSUME NEW k \in Nat, Attach(k) PROVE \E j \in Nat : OnlyDatabases(j)
    BY <1>2, <1>4 DEF Attach
<1>5. ASSUME NEW o \in Known,
             SqliteOpen(o) \/ SqliteOpenFails(o) \/ SqliteClose(o)
      PROVE  \E j \in Nat : OnlyDatabases(j)
    BY <1>1, <1>2, <1>5 DEF SqliteOpen, SqliteOpenFails, SqliteClose
<1>6. ASSUME NEW o \in Known,
             MariaConnect(o) \/ MariaConnectFails(o) \/ MariaDisconnect(o) \/ MemcachedDisconnect(o)
      PROVE  \E j \in Nat : OnlyDatabases(j)
    BY <1>1, <1>2, <1>6 DEF MariaConnect, MariaConnectFails, MariaDisconnect, MemcachedDisconnect
<1>7. ASSUME NEW o \in Known, SqliteIsOpen(o) \/ SqliteBadParams(o) \/ MariaConnectAgain(o)
      PROVE  \E j \in Nat : OnlyDatabases(j)
    <2>1. UNCHANGED <<dbs, clients, memcs>>
        BY <1>7 DEF SqliteIsOpen, SqliteBadParams, MariaConnectAgain, dbVars
    <2> QED BY <1>2, <2>1
<1>8. CASE SqliteNew
    <2>1. UNCHANGED <<dbs, clients, memcs>>
        BY <1>8 DEF SqliteNew, dbVars
    <2> QED BY <1>2, <2>1
<1> QED BY <1>1, <1>3, <1>4, <1>5, <1>6, <1>7, <1>8
        DEF Database, DatabaseNew, DatabaseCall, MariaNew, MariaConstruct, MemcachedNew, MemcachedConstruct

LEMMA ClientsOnly ==
    ASSUME Typed, IdentityInv, Http
    PROVE  \E k \in Nat : OnlyClients(k)
<1>1. /\ curls \in [Keys -> Curl] /\ responses \in [Keys -> Nat]
      /\ config \in [Keys -> [base : Bases \cup {""}, timeout : Nat, headers : BOOLEAN]]
      /\ stamps \in Nat /\ \A o \in Known : Key(o) \in Nat
    <2>1. \A o \in Known : objects[o].id \in Nat /\ stamps \in Nat
        BY ObjectTypes DEF Typed
    <2> QED BY <2>1 DEF Typed, HttpTypeOK, Curl, IdentityTypeOK, Key
<1>2. Given \subseteq Keys /\ stamps \notin Given
    BY GivenKeys
<1>3. ASSUME NEW k \in Nat, NEW base, SetUp(k, base)
      PROVE  \E j \in Nat : OnlyClients(j)
    <2>1. PICK c, s : /\ curls' = [curls EXCEPT ![k] = c] /\ config' = [config EXCEPT ![k] = s]
                      /\ UNCHANGED responses
        BY <1>3 DEF SetUp
    <2> QED BY <1>1, <1>2, <2>1 DEF OnlyClients
<1>4. ASSUME NEW o \in Known, Configure(o)
      PROVE  \E j \in Nat : OnlyClients(j)
    <2>1. PICK s : config' = [config EXCEPT ![Key(o)] = s] /\ UNCHANGED <<curls, responses>>
        BY <1>4 DEF Configure
    <2> QED BY <1>1, <1>2, <2>1 DEF OnlyClients
<1>5. ASSUME NEW o \in Known, NEW verb \in Verbs, Request(o, verb)
      PROVE  \E j \in Nat : OnlyClients(j)
    <2>1. PICK given, t, curl : RequestWith(o, verb, given, t, curl)
        BY <1>5, RequestIs
    <2>2. PICK n : /\ curls' = [curls EXCEPT ![Key(o)] = curl]
                   /\ responses' = [responses EXCEPT ![stamps] = n] /\ UNCHANGED config
        BY <2>1 DEF RequestWith
    <2> QED BY <1>1, <1>2, <2>2 DEF OnlyClients
<1>6. ASSUME NEW o \in Known, RequestRefused(o)
      PROVE  \E j \in Nat : OnlyClients(j)
    <2>1. PICK c : curls' = [curls EXCEPT ![Key(o)] = c] /\ UNCHANGED <<config, responses>>
        BY <1>6 DEF RequestRefused
    <2> QED BY <1>1, <1>2, <2>1 DEF OnlyClients
<1>7. ASSUME NEW k \in Nat, Blank(k)
      PROVE  \E j \in Nat : OnlyClients(j)
    <2>1. responses' = [responses EXCEPT ![k] = 0] /\ UNCHANGED <<curls, config>>
        BY <1>7 DEF Blank
    <2> QED BY <1>1, <1>2, <2>1 DEF OnlyClients
<1> QED BY <1>1, <1>3, <1>4, <1>5, <1>6, <1>7
        DEF Http, HttpNew, HttpCall, CurlNew, CurlConstruct, ResponseNew, ResponseConstruct

LEMMA ModelsOnly ==
    ASSUME Typed, IdentityInv, Diffusion \/ GenerationStep
    PROVE  \E k \in Nat : OnlyModels(k)
<1>1. /\ contexts \in [Keys -> Nat] /\ ticks \in [Keys -> Seq(Keys)] /\ active \in Capture
      /\ \A o \in Known : Key(o) \in Nat
    <2>1. \A o \in Known : objects[o].id \in Nat /\ stamps \in Nat
        BY ObjectTypes DEF Typed
    <2> QED BY <2>1 DEF Typed, GenerationTypeOK, Key
<1>2. ASSUME NEW k \in Nat, NEW v,
             \/ contexts' = [contexts EXCEPT ![k] = v] /\ UNCHANGED ticks
             \/ ticks' = [ticks EXCEPT ![k] = v] /\ UNCHANGED contexts
             \/ UNCHANGED <<contexts, ticks>>
      PROVE  \E j \in Nat : OnlyModels(j)
    BY <1>1, <1>2 DEF OnlyModels
<1>3. ASSUME NEW o \in Known, LoadModel(o) \/ Unload(o) \/ ClearLog(o)
      PROVE  \E j \in Nat : OnlyModels(j)
    BY <1>1, <1>2, <1>3 DEF LoadModel, Unload, ClearLog
<1>4. ASSUME UNCHANGED <<contexts, ticks>>
      PROVE  \E j \in Nat : OnlyModels(j)
    BY <1>2, <1>4
<1>5. ASSUME NEW o \in Known, Generate(o) \/ Upscale(o) \/ InputFails(o) \/ UpscaleFails(o)
                                      \/ LoadControlNet(o)
      PROVE  UNCHANGED <<contexts, ticks>>
    BY <1>5 DEF Generate, Upscale, Begin, InputFails, UpscaleFails, LoadControlNet, sdVars
<1>6. CASE Tick
    <2>1. active.id \in Nat
        BY <1>1, IdentityAssumption DEF Capture, Keys
    <2>2. UNCHANGED contexts /\ ticks' = IF active.on THEN [ticks EXCEPT ![active.id] = Append(@, Top.id)] ELSE ticks
        BY <1>6 DEF Tick
    <2> QED BY <1>2, <2>1, <2>2
<1>7. CASE SdNew \/ Crash \/ HandlerReturns \/ End
    <2>1. UNCHANGED <<contexts, ticks>>
        BY <1>7 DEF SdNew, Crash, HandlerReturns, End, sdVars
    <2> QED BY <1>4, <2>1
<1> QED BY <1>3, <1>4, <1>5, <1>6, <1>7 DEF Diffusion, GenerationCall, GenerationStep

\* Every step leaves all that is not of one number alone.
LEMMA StepOnlyAt ==
    ASSUME NativesInv, [Next]_vars
    PROVE  \E k \in Nat : OnlyAt(k)
<1>1. Typed /\ IdentityInv
    BY InvParts
<1>2. Given \subseteq Keys
    BY <1>1, GivenKeys
<1>3. CASE Database
    <2>1. PICK k \in Nat : OnlyDatabases(k)
        BY <1>1, <1>3, DatabasesOnly
    <2>2. UNCHANGED <<curls, config, responses, contexts, ticks>>
        BY <1>3 DEF Database, httpVars, sdVars
    <2> QED BY <1>2, <2>1, <2>2 DEF OnlyAt, OnlyDatabases
<1>4. CASE Http
    <2>1. PICK k \in Nat : OnlyClients(k)
        BY <1>1, <1>4, ClientsOnly
    <2>2. UNCHANGED <<dbs, clients, memcs, contexts, ticks>>
        BY <1>4 DEF Http, dbVars, sdVars
    <2> QED BY <2>1, <2>2 DEF OnlyAt, OnlyClients
<1>5. CASE Diffusion \/ Library
    <2>1. PICK k \in Nat : OnlyModels(k)
        BY <1>1, <1>5, ModelsOnly DEF Library
    <2>2. UNCHANGED <<dbs, clients, memcs, curls, config, responses>>
        BY <1>5 DEF Diffusion, Library, dbVars, httpVars
    <2> QED BY <1>2, <2>1, <2>2 DEF OnlyAt, OnlyModels
<1>6. CASE UNCHANGED <<library, dbVars, httpVars, sdVars>>
    <2>1. UNCHANGED <<dbs, clients, memcs, curls, config, responses, contexts, ticks>>
        BY <1>6 DEF dbVars, httpVars, sdVars
    <2> QED BY <2>1 DEF OnlyAt
<1> QED BY <1>3, <1>4, <1>5, <1>6, OtherSteps

\* A number that was given stays.
LEMMA NumbersStay ==
    ASSUME IdentityInv, [Next]_vars, NEW o \in Known, objects[o].id # 0
    PROVE  objects'[o].id = objects[o].id
<1>1. IdentityTypeOK
    BY DEF IdentityInv
<1>2. /\ Len(objects) \in Nat /\ Known = 1..Len(objects)
      /\ objects \in Seq([class : Classes, id : {0} \cup Keys, origin : Addresses])
    BY <1>1, ObjectTypes DEF IdentityTypeOK
<1>3. ASSUME NEW x, objects' = Append(objects, x)
      PROVE  objects'[o] = objects[o]
    BY <1>2, <1>3
<1>4. ASSUME NEW p \in Known, Identify(p)
      PROVE  objects'[o].id = objects[o].id
    <2>1. objects[o] \in [class : Classes, id : {0} \cup Keys, origin : Addresses]
        BY <1>1, ObjectTypes
    <2>2. objects' = [objects EXCEPT ![p] = [objects[p] EXCEPT !.id = Key(p)]]
        BY <1>4 DEF Identify
    <2>3. CASE o # p
        BY <1>2, <2>2, <2>3
    <2>4. CASE o = p
        BY <1>2, <2>1, <2>2, <2>4 DEF Key
    <2> QED BY <2>3, <2>4
<1>5. ASSUME NEW class \in Classes, Make(class)
      PROVE  objects'[o].id = objects[o].id
    BY <1>3, <1>5 DEF Make
<1>6. ASSUME NEW p \in Known, Copy(p)
      PROVE  objects'[o].id = objects[o].id
    BY <1>3, <1>6 DEF Copy
<1> QED BY <1>4, <1>5, <1>6, StepOnIdentity DEF IdentityStep

(* A step of a script, of a handler or of a library changes what belongs   *)
(* to one instance: whatever else is copied, numbered or generating, no    *)
(* object of another instance sees it.                                     *)
THEOREM InstancesIndependent == Spec => OneInstanceAtATime
<1> DEFINE Touched(m) == \A o \in Known :
               objects[o].id # 0 /\ Belongings(o)' # Belongings(o) => objects[o].origin = m
<1>1. ASSUME NativesInv, [Next]_vars
      PROVE  \E m \in Addresses : Touched(m)
    <2>1. IdentityInv /\ IdentityTypeOK /\ IdentityFollowsNew
        BY <1>1, InvParts DEF IdentityInv
    <2>2. PICK k \in Nat : OnlyAt(k)
        BY <1>1, StepOnlyAt
    <2>3. ASSUME NEW o \in Known, objects[o].id # 0, objects[o].id # k
          PROVE  Belongings(o)' = Belongings(o)
        <3>1. PICK j \in Given : j = objects[o].id
            BY <2>3 DEF Given
        <3>2. objects'[o].id = j /\ j # 0 /\ j # k
            BY <1>1, <2>1, <2>3, <3>1, NumbersStay
        <3> QED BY <2>2, <3>1, <3>2 DEF Belongings, OnlyAt
    <2>4. CASE \E o \in Known : objects[o].id # 0 /\ objects[o].id = k
        <3>1. PICK o \in Known : objects[o].id # 0 /\ objects[o].id = k
            BY <2>4
        <3>2. objects[o].origin \in Addresses
            <4>1. objects[o] \in [class : Classes, id : {0} \cup Keys, origin : Addresses]
                BY <2>1, ObjectTypes
            <4> QED BY <4>1
        <3>3. Touched(objects[o].origin)
            BY <2>1, <2>3, <3>1 DEF IdentityFollowsNew
        <3> QED BY <3>2, <3>3
    <2>5. CASE ~\E o \in Known : objects[o].id # 0 /\ objects[o].id = k
        <3>1. 1 \in Addresses
            BY IdentityAssumption DEF Addresses
        <3>2. Touched(1)
            BY <2>3, <2>5
        <3> QED BY <3>1, <3>2
    <2> QED BY <2>4, <2>5
<1>2. NativesInv /\ [Next]_vars => [\E m \in Addresses : Touched(m)]_vars
    BY <1>1
<1>3. Spec => [][\E m \in Addresses : Touched(m)]_vars
    BY <1>2, NativesInductive, PTL DEF Spec
<1> QED BY <1>3 DEF OneInstanceAtATime

-----------------------------------------------------------------------------
(* Trees of nodes. *)

\* Every set of numbers has a least one.
LEMMA LeastOf ==
    ASSUME NEW T \in SUBSET Nat, T # {}
    PROVE  \E m \in T : \A n \in T : m <= n
<1>1. PICK R : R = {ss \in Nat \X Nat : ss[1] < ss[2]}
    OBVIOUS
<1>2. IsWellFoundedOn(R, Nat)
    BY <1>1, NatLessThanWellFounded DEF OpToRel
<1>3. PICK m \in T : \A n \in T : ~ (<<n, m>> \in R)
    BY <1>2, WFMin
<1>4. ASSUME NEW n \in T PROVE m <= n
    <2>1. <<n, m>> \notin R /\ <<n, m>> \in Nat \X Nat
        BY <1>3
    <2>2. ~(n < m)
        BY <1>1, <2>1
    <2> QED BY <2>2
<1> QED BY <1>4

\* Parents come before their children.
Rising(ns) == \A n \in DOMAIN ns : ns[n].parent \in Nat /\ ns[n].parent < n

UpFrom(A, ns, n) == IF ns[n].parent = 0 THEN {} ELSE {ns[n].parent} \cup A[ns[n].parent]

\* Above, of any nodes.
AboveIn(ns) == [n \in DOMAIN ns |-> LET up[m \in DOMAIN ns] ==
                                          IF ns[m].parent = 0 THEN {}
                                          ELSE {ns[m].parent} \cup up[ns[m].parent]
                                    IN  up[n]]

LEMMA AboveStages ==
    ASSUME NEW ns, NEW m \in Nat, DOMAIN ns = 1..m, Rising(ns)
    PROVE  \E A : A = [n \in 1..m |-> UpFrom(A, ns, n)]
<1> DEFINE Missing == {k \in Nat : k <= m /\ ~ \E A : A = [n \in 1..k |-> UpFrom(A, ns, n)]}
<1> SUFFICES ASSUME Missing # {} PROVE FALSE
    OBVIOUS
<1>1. PICK k \in Missing : \A j \in Missing : k <= j
    BY LeastOf
<1>2. k \in Nat /\ k <= m
    OBVIOUS
<1>3. k # 0
    <2> SUFFICES ASSUME k = 0 PROVE FALSE
        OBVIOUS
    <2> DEFINE A == [n \in 1..0 |-> {}]
    <2>1. A = [n \in 1..0 |-> UpFrom(A, ns, n)]
        OBVIOUS
    <2> QED BY <2>1, <1>2
<1>4. PICK j \in Nat : k = j + 1
    <2>1. k - 1 \in Nat /\ k = (k - 1) + 1
        BY <1>2, <1>3
    <2> QED BY <2>1
<1>5. j \notin Missing /\ j <= m
    BY <1>1, <1>2, <1>4
<1>6. PICK A : A = [n \in 1..j |-> UpFrom(A, ns, n)]
    BY <1>5
<1> DEFINE top == UpFrom(A, ns, k)
           B   == [n \in 1..k |-> IF n = k THEN top ELSE A[n]]
<1>7. ASSUME NEW n \in 1..k
      PROVE  B[n] = UpFrom(B, ns, n)
    <2>1. n \in DOMAIN ns /\ k \in DOMAIN ns
        BY <1>2, <1>3
    <2>2. /\ ns[n].parent \in Nat /\ ns[n].parent < n
          /\ ns[n].parent # 0 => ns[n].parent \in 1..j /\ ns[n].parent \in 1..k /\ ns[n].parent # k
        <3>1. ns[n].parent \in Nat /\ ns[n].parent < n
            BY <2>1 DEF Rising
        <3> QED BY <3>1, <1>2, <1>4
    <2>3. ns[n].parent # 0 => B[ns[n].parent] = A[ns[n].parent]
        BY <2>2
    <2>4. UpFrom(B, ns, n) = UpFrom(A, ns, n)
        BY <2>3 DEF UpFrom
    <2>5. CASE n = k
        BY <2>4, <2>5
    <2>6. CASE n # k
        <3>1. n \in 1..j
            BY <2>6, <1>2, <1>4
        <3>2. A[n] = UpFrom(A, ns, n)
            BY <1>6, <3>1
        <3> QED BY <2>4, <2>6, <3>2
    <2> QED BY <2>5, <2>6
<1>8. B = [n \in 1..k |-> B[n]]
    OBVIOUS
<1> HIDE DEF B
<1>9. B = [n \in 1..k |-> UpFrom(B, ns, n)]
    BY <1>7, <1>8
<1> QED BY <1>9

\* A node's parent, and what is above that.
LEMMA AboveUnfolds ==
    ASSUME NEW ns, NEW m \in Nat, DOMAIN ns = 1..m, Rising(ns)
    PROVE  \A n \in DOMAIN ns : AboveIn(ns)[n] = UpFrom(AboveIn(ns), ns, n)
<1> DEFINE up[n \in DOMAIN ns] == IF ns[n].parent = 0 THEN {}
                                  ELSE {ns[n].parent} \cup up[ns[n].parent]
<1>1. \E A : A = [n \in DOMAIN ns |-> IF ns[n].parent = 0 THEN {}
                                      ELSE {ns[n].parent} \cup A[ns[n].parent]]
    <2>1. PICK A : A = [n \in 1..m |-> UpFrom(A, ns, n)]
        BY AboveStages
    <2>2. A = [n \in DOMAIN ns |-> IF ns[n].parent = 0 THEN {}
                                   ELSE {ns[n].parent} \cup A[ns[n].parent]]
        BY <2>1 DEF UpFrom
    <2> QED BY <2>2
<1>2. up = [n \in DOMAIN ns |-> IF ns[n].parent = 0 THEN {}
                                ELSE {ns[n].parent} \cup up[ns[n].parent]]
    BY <1>1
<1>3. AboveIn(ns) = [n \in DOMAIN ns |-> up[n]]
    BY DEF AboveIn
<1> HIDE DEF up
<1>4. \A n \in DOMAIN ns : AboveIn(ns)[n] = up[n]
    BY <1>3
<1>5. ASSUME NEW n \in DOMAIN ns
      PROVE  AboveIn(ns)[n] = UpFrom(AboveIn(ns), ns, n)
    <2>1. up[n] = IF ns[n].parent = 0 THEN {} ELSE {ns[n].parent} \cup up[ns[n].parent]
        BY <1>2
    <2>2. ns[n].parent # 0 => ns[n].parent \in DOMAIN ns
        <3>1. ns[n].parent \in Nat /\ ns[n].parent < n /\ n \in 1..m
            BY DEF Rising
        <3> QED BY <3>1
    <2>3. ns[n].parent # 0 => AboveIn(ns)[ns[n].parent] = up[ns[n].parent]
        BY <1>4, <2>2
    <2> QED BY <1>4, <2>1, <2>3 DEF UpFrom
<1> QED BY <1>5

\* What is above a node comes before it, and is a parent.
LEMMA AboveIsBefore ==
    ASSUME NEW ns, NEW m \in Nat, DOMAIN ns = 1..m, Rising(ns)
    PROVE  \A n \in DOMAIN ns : \A r \in AboveIn(ns)[n] :
              /\ r \in DOMAIN ns /\ r < n /\ ns[n].parent # 0
              /\ \E p \in DOMAIN ns : ns[p].parent # 0 /\ ns[p].parent = r
<1> DEFINE A == AboveIn(ns)
           Good(n) == \A r \in A[n] :
              /\ r \in DOMAIN ns /\ r < n /\ ns[n].parent # 0
              /\ \E p \in DOMAIN ns : ns[p].parent # 0 /\ ns[p].parent = r
           Bad == {n \in DOMAIN ns : ~Good(n)}
<1>0. \A n \in DOMAIN ns : A[n] = UpFrom(A, ns, n)
    BY AboveUnfolds
<1> HIDE DEF A
<1> SUFFICES ASSUME Bad # {} PROVE FALSE
    BY DEF A
<1>1. PICK n \in Bad : \A j \in Bad : n <= j
    <2>1. Bad \in SUBSET Nat
        OBVIOUS
    <2> HIDE DEF Bad
    <2> QED BY <2>1, LeastOf
<1>2. n \in 1..m /\ n \in DOMAIN ns /\ ~Good(n)
    OBVIOUS
<1>3. ns[n].parent \in Nat /\ ns[n].parent < n
    BY <1>2 DEF Rising
<1>4. CASE ns[n].parent = 0
    <2>1. A[n] = {}
        BY <1>0, <1>2, <1>4 DEF UpFrom
    <2> QED BY <1>2, <2>1
<1>5. CASE ns[n].parent # 0
    <2>1. PICK p \in DOMAIN ns : p = ns[n].parent
        BY <1>2, <1>3, <1>5
    <2>2. p \in Nat /\ p < n
        BY <1>3, <2>1
    <2>3. Good(p)
        <3>1. p \notin Bad
            <4>1. ~(n <= p)
                BY <1>2, <2>2
            <4> HIDE DEF Bad
            <4> QED BY <1>1, <4>1
        <3> QED BY <3>1
    <2>4. A[n] = {p} \cup A[p]
        BY <1>0, <1>2, <1>5, <2>1 DEF UpFrom
    <2>5. ASSUME NEW r \in A[n]
          PROVE  /\ r \in DOMAIN ns /\ r < n /\ ns[n].parent # 0
                 /\ \E q \in DOMAIN ns : ns[q].parent # 0 /\ ns[q].parent = r
        <3>1. CASE r = p
            BY <3>1, <1>2, <1>5, <2>1, <2>2
        <3>2. CASE r \in A[p]
            <4>1. /\ r \in DOMAIN ns /\ r < p
                  /\ \E q \in DOMAIN ns : ns[q].parent # 0 /\ ns[q].parent = r
                BY <2>3, <3>2
            <4>2. r \in Nat /\ n \in Nat
                BY <4>1, <1>2
            <4>3. r < n
                BY <4>1, <4>2, <2>2
            <4> QED BY <4>1, <4>3, <1>5
        <3> QED BY <2>4, <3>1, <3>2
    <2> QED BY <1>2, <2>5
<1> QED BY <1>4, <1>5

\* Every node is in the tree of one root.
LEMMA OneRoot ==
    ASSUME NEW ns, NEW m \in Nat, DOMAIN ns = 1..m, Rising(ns)
    PROVE  \A n \in DOMAIN ns :
              /\ \E r \in DOMAIN ns : ns[r].parent = 0 /\ (n = r \/ r \in AboveIn(ns)[n])
              /\ \A r, s \in DOMAIN ns :
                    /\ ns[r].parent = 0 /\ (n = r \/ r \in AboveIn(ns)[n])
                    /\ ns[s].parent = 0 /\ (n = s \/ s \in AboveIn(ns)[n])
                    => r = s
<1> DEFINE A == AboveIn(ns)
           Under(n, r) == ns[r].parent = 0 /\ (n = r \/ r \in A[n])
           Good(n) == /\ \E r \in DOMAIN ns : Under(n, r)
                      /\ \A r, s \in DOMAIN ns : Under(n, r) /\ Under(n, s) => r = s
           Bad == {n \in DOMAIN ns : ~Good(n)}
<1>0. \A n \in DOMAIN ns : A[n] = UpFrom(A, ns, n)
    BY AboveUnfolds
<1>a. SUFFICES \A n \in DOMAIN ns : Good(n)
    OBVIOUS
<1> HIDE DEF A
<1> SUFFICES ASSUME Bad # {} PROVE FALSE
    OBVIOUS
<1>1. PICK n \in Bad : \A j \in Bad : n <= j
    <2>1. Bad \in SUBSET Nat
        OBVIOUS
    <2> HIDE DEF Bad
    <2> QED BY <2>1, LeastOf
<1>2. n \in 1..m /\ n \in DOMAIN ns /\ ~Good(n)
    OBVIOUS
<1>3. ns[n].parent \in Nat /\ ns[n].parent < n
    BY <1>2 DEF Rising
<1>4. CASE ns[n].parent = 0
    <2>1. A[n] = {}
        BY <1>0, <1>2, <1>4 DEF UpFrom
    <2>2. Good(n)
        BY <1>2, <1>4, <2>1
    <2> QED BY <1>2, <2>2
<1>5. CASE ns[n].parent # 0
    <2>1. PICK p \in DOMAIN ns : p = ns[n].parent
        BY <1>2, <1>3, <1>5
    <2>2. p \in Nat /\ p < n
        BY <1>3, <2>1
    <2>3. Good(p)
        <3>1. p \notin Bad
            <4>1. ~(n <= p)
                BY <1>2, <2>2
            <4> HIDE DEF Bad
            <4> QED BY <1>1, <4>1
        <3> QED BY <3>1
    <2>4. A[n] = {p} \cup A[p]
        BY <1>0, <1>2, <1>5, <2>1 DEF UpFrom
    <2>5. \A r \in DOMAIN ns : Under(n, r) <=> Under(p, r)
        BY <1>5, <2>1, <2>4
    <2> HIDE DEF Under
    <2>6. Good(n)
        BY <2>3, <2>5
    <2> QED BY <1>2, <2>6
<1> QED BY <1>4, <1>5

\* The same parents, the same trees.
LEMMA AboveByParents ==
    ASSUME NEW ns, NEW m \in Nat, DOMAIN ns = 1..m, Rising(ns),
           NEW os, DOMAIN os = 1..m, \A n \in 1..m : os[n].parent = ns[n].parent
    PROVE  AboveIn(os) = AboveIn(ns)
<1>1. Rising(os)
    BY DEF Rising
<1> DEFINE A == AboveIn(ns)
           B == AboveIn(os)
           Bad == {n \in 1..m : A[n] # B[n]}
<1>2. /\ \A n \in DOMAIN ns : A[n] = UpFrom(A, ns, n)
      /\ \A n \in DOMAIN os : B[n] = UpFrom(B, os, n)
    <2>1. \A n \in DOMAIN ns : A[n] = UpFrom(A, ns, n)
        BY AboveUnfolds
    <2>2. \A n \in DOMAIN os : B[n] = UpFrom(B, os, n)
        BY <1>1, AboveUnfolds
    <2> QED BY <2>1, <2>2
<1>3. A = [n \in 1..m |-> A[n]] /\ B = [n \in 1..m |-> B[n]]
    BY DEF AboveIn
<1> HIDE DEF A, B
<1>4. Bad = {}
    <2> SUFFICES ASSUME Bad # {} PROVE FALSE
        OBVIOUS
    <2>1. PICK n \in Bad : \A j \in Bad : n <= j
        <3>1. Bad \in SUBSET Nat
            OBVIOUS
        <3> HIDE DEF Bad
        <3> QED BY <3>1, LeastOf
    <2>2. n \in 1..m /\ A[n] # B[n]
        OBVIOUS
    <2>3. ns[n].parent \in Nat /\ ns[n].parent < n
        BY <2>2 DEF Rising
    <2>4. ns[n].parent # 0 => A[ns[n].parent] = B[ns[n].parent]
        <3> SUFFICES ASSUME ns[n].parent # 0 PROVE A[ns[n].parent] = B[ns[n].parent]
            OBVIOUS
        <3>1. PICK p \in 1..m : p = ns[n].parent
            BY <2>2, <2>3
        <3>2. p \notin Bad
            <4>1. ~(n <= p)
                BY <2>2, <2>3, <3>1
            <4> HIDE DEF Bad
            <4> QED BY <2>1, <4>1
        <3> QED BY <3>1, <3>2
    <2>5. A[n] = UpFrom(A, ns, n) /\ B[n] = UpFrom(B, os, n)
        BY <1>2, <2>2
    <2> QED BY <2>2, <2>4, <2>5 DEF UpFrom
<1>5. \A n \in 1..m : A[n] = B[n]
    BY <1>4
<1>6. A = B
    BY <1>3, <1>5
<1> QED BY <1>6 DEF A, B

-----------------------------------------------------------------------------
(* Lists of nodes. *)

LEMMA RankIs ==
    ASSUME NEW S \in SUBSET Nat, IsFiniteSet(S), NEW m \in Nat
    PROVE  /\ Rank(m, S) \in 0..Cardinality(S)
           /\ m \in S => Rank(m, S) # 0
           /\ \A k \in S : m < k => Rank(m, S) < Rank(k, S)
           /\ \A k \in S : k <= m => Rank(m, S) # 0
<1> DEFINE Up(k) == {j \in S : j <= k}
<1>1. Cardinality(S) \in Nat
    BY FS_CardinalityType
<1>2. ASSUME NEW k \in Nat
      PROVE  /\ IsFiniteSet(Up(k)) /\ Cardinality(Up(k)) \in Nat
             /\ Cardinality(Up(k)) <= Cardinality(S)
             /\ Rank(k, S) = Cardinality(Up(k))
    <2>1. Up(k) \in SUBSET S
        OBVIOUS
    <2>2. IsFiniteSet(Up(k)) /\ Cardinality(Up(k)) <= Cardinality(S)
        BY <2>1, FS_Subset
    <2>3. Cardinality(Up(k)) \in Nat
        BY <2>2, FS_CardinalityType
    <2>4. Rank(k, S) = Cardinality(Up(k))
        BY DEF Rank
    <2> QED BY <2>2, <2>3, <2>4
<1>3. Rank(m, S) \in 0..Cardinality(S)
    <2>1. Cardinality(Up(m)) \in Nat /\ Cardinality(Up(m)) <= Cardinality(S)
          /\ Rank(m, S) = Cardinality(Up(m))
        BY <1>2
    <2> QED BY <1>1, <2>1
<1>4. ASSUME NEW k \in S, k <= m
      PROVE  Rank(m, S) # 0
    <2>1. k \in Up(m)
        BY <1>4
    <2>2. Up(m) # {} /\ IsFiniteSet(Up(m)) /\ Rank(m, S) = Cardinality(Up(m))
        BY <1>2, <2>1
    <2> HIDE DEF Up
    <2>3. Cardinality(Up(m)) # 0
        BY <2>2, FS_EmptySet
    <2> QED BY <2>2, <2>3
<1>5. ASSUME NEW k \in S, m < k
      PROVE  Rank(m, S) < Rank(k, S)
    <2>1. k \in Nat
        OBVIOUS
    <2>2. Up(m) \in SUBSET Up(k)
        <3> SUFFICES ASSUME NEW j \in S, j <= m PROVE j <= k
            OBVIOUS
        <3>1. j \in Nat
            OBVIOUS
        <3> QED BY <1>5, <2>1, <3>1
    <2>3. k \in Up(k) /\ k \notin Up(m)
        BY <1>5, <2>1
    <2>4. /\ IsFiniteSet(Up(k)) /\ Cardinality(Up(k)) \in Nat /\ Rank(k, S) = Cardinality(Up(k))
          /\ Cardinality(Up(m)) \in Nat /\ Rank(m, S) = Cardinality(Up(m))
        BY <1>2, <2>1
    <2> HIDE DEF Up
    <2>5. /\ Cardinality(Up(m)) <= Cardinality(Up(k))
          /\ Cardinality(Up(k)) = Cardinality(Up(m)) => Up(k) = Up(m)
        BY <2>2, <2>4, FS_Subset
    <2>6. Cardinality(Up(m)) # Cardinality(Up(k))
        BY <2>3, <2>5
    <2> QED BY <2>4, <2>5, <2>6
<1>6. m \in S => Rank(m, S) # 0
    <2>1. m <= m
        OBVIOUS
    <2> QED BY <1>4, <2>1
<1> QED BY <1>3, <1>4, <1>5, <1>6

LEMMA InOrderIs ==
    ASSUME NEW S \in SUBSET Nat, IsFiniteSet(S)
    PROVE  /\ Cardinality(S) \in Nat
           /\ InOrder(S) \in Seq(S)
           /\ Len(InOrder(S)) = Cardinality(S) /\ DOMAIN InOrder(S) = 1..Cardinality(S)
           /\ \A i \in 1..Cardinality(S) : InOrder(S)[i] \in S /\ Rank(InOrder(S)[i], S) = i
           /\ Range(InOrder(S)) \subseteq S
<1>1. PICK c \in Nat : c = Cardinality(S)
    BY FS_CardinalityType
<1> DEFINE f == [m \in S |-> Rank(m, S)]
<1>2. \A m \in S : Rank(m, S) \in 1..c
    <2> TAKE m \in S
    <2>1. Rank(m, S) \in 0..c /\ Rank(m, S) # 0
        BY <1>1, RankIs
    <2> QED BY <2>1
<1>3. \A m, k \in S : Rank(m, S) = Rank(k, S) => m = k
    <2> SUFFICES ASSUME NEW m \in S, NEW k \in S, m # k
                 PROVE  Rank(m, S) # Rank(k, S)
        OBVIOUS
    <2>1. m \in Nat /\ k \in Nat
        OBVIOUS
    <2>2. m < k => Rank(m, S) < Rank(k, S)
        BY <2>1, RankIs
    <2>3. k < m => Rank(k, S) < Rank(m, S)
        BY <2>1, RankIs
    <2>4. Rank(m, S) \in 1..c /\ Rank(k, S) \in 1..c
        BY <1>2
    <2>5. m < k \/ k < m
        BY <2>1
    <2> QED BY <2>2, <2>3, <2>4, <2>5
<1>4. f \in Injection(S, 1..c)
    <2>1. f \in [S -> 1..c]
        BY <1>2
    <2>2. \A m, k \in S : f[m] = f[k] => m = k
        BY <1>3
    <2> HIDE DEF f
    <2> QED BY <2>1, <2>2 DEF Injection, IsInjective
<1>5. IsFiniteSet(1..c) /\ Cardinality(1..c) = c
    <2>1. 1 \in Int /\ c \in Int
        OBVIOUS
    <2>2. IsFiniteSet(1..c) /\ Cardinality(1..c) = IF 1 > c THEN 0 ELSE c - 1 + 1
        BY <2>1, FS_Interval
    <2> QED BY <2>2
<1>6. f \in Surjection(S, 1..c)
    <2> HIDE DEF f
    <2> QED BY <1>1, <1>4, <1>5, FS_Injection
<1>7. \A i \in 1..c : \E m \in S : Rank(m, S) = i
    <2>1. \A i \in 1..c : \E m \in S : f[m] = i
        <3> HIDE DEF f
        <3> QED BY <1>6 DEF Surjection
    <2> QED BY <2>1
<1>8. InOrder(S) = [i \in 1..c |-> CHOOSE m \in S : Rank(m, S) = i]
    BY <1>1 DEF InOrder
<1>9. \A i \in 1..c : InOrder(S)[i] \in S /\ Rank(InOrder(S)[i], S) = i
    BY <1>7, <1>8
<1>10. DOMAIN InOrder(S) = 1..c /\ InOrder(S) \in [1..c -> S]
    BY <1>8, <1>9
<1>11. InOrder(S) \in Seq(S)
    <2>1. \E n \in Nat : InOrder(S) \in [1..n -> S]
        BY <1>10
    <2> QED BY <2>1, SeqDef
<1>12. Len(InOrder(S)) = c
    BY <1>10, <1>11
<1>13. Range(InOrder(S)) \subseteq S
    BY <1>9, <1>10 DEF Range
<1> QED BY <1>1, <1>9, <1>10, <1>11, <1>12, <1>13

-----------------------------------------------------------------------------
(* The invariant of the documents. *)

LoadedKinds == {"schema", "parser", "dtd"}
Loaders     == {"XmlSchema", "XmlDtd"}

\* A node comes after its parent; trees are of elements, attributes and texts;
\* a document is known by the id of what made it.
NodeSound(n, ns, hs) ==
    /\ ns[n].parent < n
    /\ ns[n].parent # 0 => ns[n].kind \in TreeKinds /\ ns[ns[n].parent].kind \in TreeKinds
    /\ ns[n].doc # 0 => ns[n].doc \in DOMAIN hs /\ hs[ns[n].doc].class \in {"XmlDocument", "Xml2"}

\* What an object points to, by its class, and which objects own.
KeepsItsKind(o, ns) ==
    /\ \A n \in Range(o.at) : ns[n].kind \in IF o.class \in Loaders THEN LoadedKinds
                                             ELSE TreeKinds \cup {"namespace"}
    /\ o.owns => o.class \in Range(Destroyed)
    /\ o.class \in Loaders => o.owns
    /\ o.class \in {"XmlNode", "raw node", "Xml2"} => o.at # <<>>

\* The roots by which the destructor of an object finds what to free.
Owns(o, ns, r) == /\ o.owns /\ r \in Range(o.at)
                  /\ o.class = "XmlXPathResult" => ns[r].kind = "namespace"

\* What is owned is a root, and no call freed it.
OwnedAreRoots(ns, hs, ct) ==
    \A h \in DOMAIN hs : \A r \in DOMAIN ns :
        Owns(hs[h], ns, r) => ns[r].parent = 0 /\ r \notin ct

OneOwner(ns, hs) ==
    \A h, k \in DOMAIN hs : \A r \in DOMAIN ns :
        Owns(hs[h], ns, r) /\ Owns(hs[k], ns, r) => h = k

\* A root has an owner, or is of an Xml2; one of a schema or DTD may have
\* none, and the namespace of a selection is freed with it.
Rooted(r, ns, hs, ct) ==
    \/ ns[r].kind \in LoadedKinds
    \/ r \in ct /\ ns[r].kind = "namespace"
    \/ \E h \in DOMAIN hs : Owns(hs[h], ns, r)
    \/ \E h \in DOMAIN hs : hs[h].class = "Xml2" /\ hs[h].at[1] = r

Belongs(n, h) == \E r \in Nodes : Owns(handles[h], nodes, r) /\ (n = r \/ r \in Above[n])
Done(h) == \E i \in 1..gone : handles[h].class = Destroyed[i]

\* A call of the script freed it, or the destructor of its owner, or nothing.
FreedOnce ==
    \A n \in Nodes :
        nodes[n].freed = IF n \in cut \/ \E h \in DOMAIN handles : Done(h) /\ Belongs(n, h)
                         THEN 1 ELSE 0

DocumentsInv == /\ DocumentsTypeOK
                /\ \A n \in Nodes : NodeSound(n, nodes, handles)
                /\ \A h \in DOMAIN handles : KeepsItsKind(handles[h], nodes)
                /\ OwnedAreRoots(nodes, handles, cut) /\ OneOwner(nodes, handles)
                /\ \A r \in Nodes : nodes[r].parent = 0 => Rooted(r, nodes, handles, cut)
                /\ FreedOnce
                /\ wild \subseteq cut
                /\ process = "runs" => gone = 0

-----------------------------------------------------------------------------
(* Types of the documents. *)

NodeType == [kind : Kinds, parent : Nat, doc : Nat, freed : Nat]
ObjectType(ns) == [class : XmlClasses, at : Seq(ns), owns : BOOLEAN]

LEMMA ValuesOfSeq ==
    ASSUME NEW S, NEW s \in Seq(S)
    PROVE  /\ Range(s) \subseteq S
           /\ s # <<>> => 1 \in DOMAIN s /\ s[1] \in Range(s) /\ s[1] \in S
<1>1. Len(s) \in Nat /\ s \in [1..Len(s) -> S] /\ DOMAIN s = 1..Len(s)
    BY LenProperties
<1>2. Range(s) \subseteq S
    BY <1>1 DEF Range
<1>3. s # <<>> => Len(s) # 0
    BY <1>1, EmptySeq
<1>4. s # <<>> => 1 \in DOMAIN s
    BY <1>1, <1>3
<1>5. s # <<>> => s[1] \in Range(s)
    BY <1>4 DEF Range
<1> QED BY <1>2, <1>4, <1>5

LEMMA RangeOfOne ==
    ASSUME NEW x
    PROVE  /\ Range(<<x>>) = {x} /\ <<x>>[1] = x /\ <<x>> # <<>> /\ Range(<<>>) = {}
<1>1. DOMAIN <<x>> = {1} /\ <<x>>[1] = x /\ <<x>> # <<>>
    OBVIOUS
<1>2. Range(<<x>>) = {x}
    BY <1>1 DEF Range
<1>3. Range(<<>>) = {}
    BY DEF Range
<1> QED BY <1>1, <1>2, <1>3

LEMMA SeqOfOne ==
    ASSUME NEW S, NEW x \in S
    PROVE  <<x>> \in Seq(S)
OBVIOUS

LEMMA ConcatIs ==
    ASSUME NEW S, NEW s \in Seq(S), NEW t \in Seq(S)
    PROVE  /\ s \o t \in Seq(S)
           /\ Len(s) \in Nat /\ Len(t) \in Nat /\ Len(s \o t) = Len(s) + Len(t)
           /\ DOMAIN s = 1..Len(s) /\ DOMAIN t = 1..Len(t) /\ DOMAIN (s \o t) = 1..(Len(s) + Len(t))
           /\ \A i \in DOMAIN s : i \in DOMAIN (s \o t) /\ (s \o t)[i] = s[i]
           /\ \A i \in DOMAIN t : /\ Len(s) + i \in DOMAIN (s \o t) /\ Len(s) + i \notin DOMAIN s
                                  /\ (s \o t)[Len(s) + i] = t[i]
           /\ \A i \in DOMAIN (s \o t) :
                 i \notin DOMAIN s => /\ i - Len(s) \in DOMAIN t /\ i = Len(s) + (i - Len(s))
                                      /\ (s \o t)[i] = t[i - Len(s)]
<1>1. /\ s \o t \in Seq(S) /\ Len(s \o t) = Len(s) + Len(t)
      /\ \A i \in 1 .. Len(s) + Len(t) : (s \o t)[i] = IF i <= Len(s) THEN s[i] ELSE t[i - Len(s)]
    BY ConcatProperties
<1>2. /\ Len(s) \in Nat /\ Len(t) \in Nat
      /\ DOMAIN s = 1..Len(s) /\ DOMAIN t = 1..Len(t)
    BY LenProperties
<1>3. DOMAIN (s \o t) = 1..(Len(s) + Len(t))
    BY <1>1, LenProperties
<1>4. PICK a \in Nat, b \in Nat : a = Len(s) /\ b = Len(t)
    BY <1>2
<1>5. ASSUME NEW i \in 1..a
      PROVE  i \in 1..(a + b) /\ i <= a
    OBVIOUS
<1>6. ASSUME NEW i \in 1..b
      PROVE  a + i \in 1..(a + b) /\ ~(a + i <= a) /\ (a + i) - a = i /\ a + i \notin 1..a
    OBVIOUS
<1>7. ASSUME NEW i \in 1..(a + b), i \notin 1..a
      PROVE  i - a \in 1..b /\ i = a + (i - a) /\ ~(i <= a)
    BY <1>7
<1>8. /\ s \o t \in Seq(S) /\ Len(s \o t) = a + b
      /\ \A i \in 1..(a + b) : (s \o t)[i] = IF i <= a THEN s[i] ELSE t[i - a]
      /\ DOMAIN s = 1..a /\ DOMAIN t = 1..b /\ DOMAIN (s \o t) = 1..(a + b)
    BY <1>1, <1>2, <1>3, <1>4
<1>9. \A i \in DOMAIN s : i \in DOMAIN (s \o t) /\ (s \o t)[i] = s[i]
    BY <1>5, <1>8
<1>10. \A i \in DOMAIN t : a + i \in DOMAIN (s \o t) /\ a + i \notin DOMAIN s /\ (s \o t)[a + i] = t[i]
    <2> TAKE i \in DOMAIN t
    <2>1. i \in 1..b
        BY <1>8
    <2>2. a + i \in 1..(a + b) /\ ~(a + i <= a) /\ (a + i) - a = i /\ a + i \notin 1..a
        BY <1>6, <2>1
    <2>3. (s \o t)[a + i] = t[(a + i) - a]
        BY <1>8, <2>2
    <2> QED BY <1>8, <2>2, <2>3
<1>11. \A i \in DOMAIN (s \o t) :
          i \notin DOMAIN s => i - a \in DOMAIN t /\ i = a + (i - a) /\ (s \o t)[i] = t[i - a]
    BY <1>7, <1>8
<1> QED BY <1>1, <1>2, <1>3, <1>4, <1>9, <1>10, <1>11

LEMMA AppendIs ==
    ASSUME NEW S, NEW s \in Seq(S), NEW x \in S
    PROVE  Append(s, x) = s \o <<x>> /\ <<x>> \in Seq(S)
<1>1. Append(s, x) = s \o <<x>>
    BY AppendIsConcat
<1>2. <<x>> \in Seq(S)
    OBVIOUS
<1> QED BY <1>1, <1>2

LEMMA DocumentTypes ==
    ASSUME DocumentsTypeOK
    PROVE  /\ nodes \in Seq(NodeType) /\ Len(nodes) \in Nat /\ Nodes = 1..Len(nodes)
           /\ \A n \in Nodes : /\ nodes[n] \in NodeType
                               /\ nodes[n].kind \in Kinds /\ nodes[n].parent \in Nat
                               /\ nodes[n].doc \in Nat /\ nodes[n].freed \in Nat
           /\ handles \in Seq(ObjectType(Nodes))
           /\ Len(handles) \in Nat /\ DOMAIN handles = 1..Len(handles)
           /\ \A h \in DOMAIN handles :
                 /\ handles[h] \in ObjectType(Nodes)
                 /\ handles[h].class \in XmlClasses /\ handles[h].at \in Seq(Nodes)
                 /\ handles[h].owns \in BOOLEAN
                 /\ Range(handles[h].at) \subseteq Nodes
                 /\ handles[h].at # <<>> => /\ 1 \in DOMAIN handles[h].at
                                            /\ handles[h].at[1] \in Range(handles[h].at)
                                            /\ handles[h].at[1] \in Nodes
<1>1. nodes \in Seq(NodeType) /\ handles \in Seq(ObjectType(Nodes))
    BY DEF DocumentsTypeOK, NodeType, ObjectType
<1>2. /\ Len(nodes) \in Nat /\ Nodes = 1..Len(nodes)
      /\ Len(handles) \in Nat /\ DOMAIN handles = 1..Len(handles)
    <2>1. Len(nodes) \in Nat /\ DOMAIN nodes = 1..Len(nodes)
        BY <1>1, LenProperties
    <2>2. Len(handles) \in Nat /\ DOMAIN handles = 1..Len(handles)
        BY <1>1, LenProperties
    <2> QED BY <2>1, <2>2 DEF Nodes
<1>3. ASSUME NEW n \in Nodes
      PROVE  /\ nodes[n] \in NodeType
             /\ nodes[n].kind \in Kinds /\ nodes[n].parent \in Nat
             /\ nodes[n].doc \in Nat /\ nodes[n].freed \in Nat
    <2>1. nodes[n] \in NodeType
        BY <1>1, <1>2, ElementOfSeq
    <2> QED BY <2>1 DEF NodeType
<1>4. ASSUME NEW h \in DOMAIN handles
      PROVE  /\ handles[h] \in ObjectType(Nodes)
             /\ handles[h].class \in XmlClasses /\ handles[h].at \in Seq(Nodes)
             /\ handles[h].owns \in BOOLEAN
    <2>1. handles[h] \in ObjectType(Nodes)
        BY <1>1, <1>2, ElementOfSeq
    <2> QED BY <2>1 DEF ObjectType
<1>5. ASSUME NEW h \in DOMAIN handles
      PROVE  /\ Range(handles[h].at) \subseteq Nodes
             /\ handles[h].at # <<>> => /\ 1 \in DOMAIN handles[h].at
                                        /\ handles[h].at[1] \in Range(handles[h].at)
                                        /\ handles[h].at[1] \in Nodes
    <2>1. PICK s \in Seq(Nodes) : s = handles[h].at
        BY <1>4
    <2>2. /\ Range(s) \subseteq Nodes
          /\ s # <<>> => 1 \in DOMAIN s /\ s[1] \in Range(s) /\ s[1] \in Nodes
        BY ValuesOfSeq
    <2> QED BY <2>1, <2>2
<1> QED BY <1>1, <1>2, <1>3, <1>4, <1>5

\* Objects stay objects when nodes are added.
LEMMA ObjectsStay ==
    ASSUME NEW ns, NEW more, ns \subseteq more
    PROVE  ObjectType(ns) \subseteq ObjectType(more)
<1>1. \A s \in Seq(ns) : s \in Seq(more)
    BY SeqMonotonic
<1> QED BY <1>1 DEF ObjectType

-----------------------------------------------------------------------------
(* Calls of the script, by what they add. *)

\* While the script runs, calls alone have freed something.
LEMMA FreedByCalls ==
    ASSUME gone = 0
    PROVE  FreedOnce <=> \A n \in Nodes : nodes[n].freed = IF n \in cut THEN 1 ELSE 0
<1>1. \A h : ~Done(h)
    BY DEF Done
<1> QED BY <1>1 DEF FreedOnce

LEMMA FreedByCallsNext ==
    ASSUME gone' = 0, \A n \in Nodes' : nodes'[n].freed = IF n \in cut' THEN 1 ELSE 0
    PROVE  FreedOnce'
<1>1. \A h : ~Done(h)'
    BY DEF Done
<1> QED BY <1>1 DEF FreedOnce

\* The nodes that were there have the kind, parent and document they had.
SameNodes == /\ Nodes \subseteq Nodes'
             /\ \A n \in Nodes : /\ nodes'[n].kind = nodes[n].kind
                                 /\ nodes'[n].parent = nodes[n].parent
                                 /\ nodes'[n].doc = nodes[n].doc

\* An object that stays points to what it pointed to.
LEMMA ObjectStays ==
    ASSUME SameNodes, NEW o, Range(o.at) \subseteq Nodes
    PROVE  /\ KeepsItsKind(o, nodes) => KeepsItsKind(o, nodes')
           /\ \A r : Owns(o, nodes', r) <=> Owns(o, nodes, r)
           /\ \A r : Owns(o, nodes, r) => r \in Nodes
<1>1. \A n \in Range(o.at) : nodes'[n].kind = nodes[n].kind
    BY DEF SameNodes
<1>2. KeepsItsKind(o, nodes) => KeepsItsKind(o, nodes')
    BY <1>1 DEF KeepsItsKind
<1>3. \A r : Owns(o, nodes', r) <=> Owns(o, nodes, r)
    BY <1>1 DEF Owns
<1>4. \A r : Owns(o, nodes, r) => r \in Nodes
    BY DEF Owns
<1> QED BY <1>2, <1>3, <1>4

\* A call adds nodes and objects: it frees what is no root, and new objects
\* own new roots, each its own.
LEMMA DocumentsGrow ==
    ASSUME DocumentsInv, gone = 0, gone' = 0, process' \in {"runs", "undefined"}, wild' = wild,
           nodes' \in Seq(NodeType), SameNodes, cut \subseteq cut', cut' \subseteq Nodes',
           \A n \in Nodes' : nodes'[n].freed = IF n \in cut' THEN 1 ELSE 0,
           \A n \in Nodes : n \in cut' => n \in cut \/ nodes[n].parent # 0,
           NEW more \in Seq(ObjectType(Nodes')), handles' = handles \o more,
           \A n \in Nodes' \ Nodes : NodeSound(n, nodes', handles'),
           \A i \in DOMAIN more : KeepsItsKind(more[i], nodes'),
           \A i \in DOMAIN more : \A r \in Nodes' :
               Owns(more[i], nodes', r) => r \notin Nodes /\ nodes'[r].parent = 0 /\ r \notin cut',
           \A i, j \in DOMAIN more : \A r \in Nodes' :
               Owns(more[i], nodes', r) /\ Owns(more[j], nodes', r) => i = j,
           \A r \in Nodes' \ Nodes : nodes'[r].parent = 0 => Rooted(r, nodes', handles', cut')
    PROVE  DocumentsInv'
<1>1. /\ DocumentsTypeOK
      /\ \A n \in Nodes : NodeSound(n, nodes, handles)
      /\ \A h \in DOMAIN handles : KeepsItsKind(handles[h], nodes)
      /\ OwnedAreRoots(nodes, handles, cut) /\ OneOwner(nodes, handles)
      /\ \A r \in Nodes : nodes[r].parent = 0 => Rooted(r, nodes, handles, cut)
      /\ wild \subseteq cut
    BY DEF DocumentsInv
<1>2. /\ handles \in Seq(ObjectType(Nodes)) /\ Nodes = 1..Len(nodes)
      /\ \A n \in Nodes : nodes[n].parent \in Nat
      /\ \A h \in DOMAIN handles : Range(handles[h].at) \subseteq Nodes
    BY <1>1, DocumentTypes
<1>3. /\ Nodes \subseteq Nodes'
      /\ \A n \in Nodes : /\ nodes'[n].kind = nodes[n].kind
                          /\ nodes'[n].parent = nodes[n].parent
                          /\ nodes'[n].doc = nodes[n].doc
    BY DEF SameNodes
<1>4. handles \in Seq(ObjectType(Nodes'))
    <2>1. ObjectType(Nodes) \subseteq ObjectType(Nodes')
        BY <1>3, ObjectsStay
    <2> QED BY <1>2, <2>1, SeqMonotonic
<1>5. /\ handles' \in Seq(ObjectType(Nodes'))
      /\ Len(handles) \in Nat
      /\ \A h \in DOMAIN handles : h \in DOMAIN handles' /\ handles'[h] = handles[h]
      /\ \A i \in DOMAIN more : /\ Len(handles) + i \in DOMAIN handles'
                                /\ handles'[Len(handles) + i] = more[i]
      /\ \A h \in DOMAIN handles' : h \notin DOMAIN handles =>
            /\ h - Len(handles) \in DOMAIN more /\ h = Len(handles) + (h - Len(handles))
            /\ handles'[h] = more[h - Len(handles)]
    <2>1. PICK t : t = handles \o more
        OBVIOUS
    <2>2. /\ t \in Seq(ObjectType(Nodes'))
          /\ Len(handles) \in Nat
          /\ \A h \in DOMAIN handles : h \in DOMAIN t /\ t[h] = handles[h]
          /\ \A i \in DOMAIN more : /\ Len(handles) + i \in DOMAIN t
                                    /\ t[Len(handles) + i] = more[i]
          /\ \A h \in DOMAIN t : h \notin DOMAIN handles =>
                /\ h - Len(handles) \in DOMAIN more /\ h = Len(handles) + (h - Len(handles))
                /\ t[h] = more[h - Len(handles)]
        BY <1>4, <2>1, ConcatIs
    <2>3. handles' = t
        BY <2>1
    <2> QED BY <2>2, <2>3
<1>6. DocumentsTypeOK'
    <2>1. wild' \subseteq Nodes'
        BY <1>1, <1>3 DEF DocumentsTypeOK
    <2>2. gone' \in 0..Len(Destroyed)
        BY <1>1 DEF DocumentsTypeOK
    <2> QED BY <1>5, <2>1, <2>2 DEF DocumentsTypeOK, NodeType, ObjectType
<1>7. ASSUME NEW h \in DOMAIN handles, NEW r
      PROVE  /\ KeepsItsKind(handles[h], nodes')
             /\ Owns(handles[h], nodes', r) <=> Owns(handles[h], nodes, r)
             /\ Owns(handles[h], nodes, r) => r \in Nodes
    <2>1. Range(handles[h].at) \subseteq Nodes
        BY <1>2
    <2>2. KeepsItsKind(handles[h], nodes)
        BY <1>1
    <2> QED BY <2>1, <2>2, ObjectStays
<1>8. \A n \in Nodes' : NodeSound(n, nodes', handles')
    <2> SUFFICES ASSUME NEW n \in Nodes PROVE NodeSound(n, nodes', handles')
        OBVIOUS
    <2>1. NodeSound(n, nodes, handles)
        BY <1>1
    <2>2. nodes[n].parent # 0 => nodes[n].parent \in Nodes
        <3>1. nodes[n].parent \in Nat /\ nodes[n].parent < n /\ n \in 1..Len(nodes)
            BY <1>2, <2>1 DEF NodeSound
        <3> QED BY <3>1, <1>2
    <2>3. nodes[n].doc \in DOMAIN handles =>
             nodes[n].doc \in DOMAIN handles' /\ handles'[nodes[n].doc] = handles[nodes[n].doc]
        BY <1>5
    <2> QED BY <1>3, <2>1, <2>2, <2>3 DEF NodeSound
<1>9. \A h \in DOMAIN handles' : KeepsItsKind(handles'[h], nodes')
    <2> TAKE h \in DOMAIN handles'
    <2>1. CASE h \in DOMAIN handles
        BY <1>5, <1>7, <2>1
    <2>2. CASE h \notin DOMAIN handles
        BY <1>5, <2>2
    <2> QED BY <2>1, <2>2
<1>10. ASSUME NEW h \in DOMAIN handles', NEW r \in Nodes', Owns(handles'[h], nodes', r)
       PROVE  \/ h \in DOMAIN handles /\ r \in Nodes /\ Owns(handles[h], nodes, r)
              \/ /\ h \notin DOMAIN handles /\ r \notin Nodes
                 /\ nodes'[r].parent = 0 /\ r \notin cut'
                 /\ h - Len(handles) \in DOMAIN more
                 /\ Owns(more[h - Len(handles)], nodes', r)
    <2>1. CASE h \in DOMAIN handles
        BY <1>5, <1>7, <1>10, <2>1
    <2>2. CASE h \notin DOMAIN handles
        BY <1>5, <1>10, <2>2
    <2> QED BY <2>1, <2>2
<1>11. OwnedAreRoots(nodes', handles', cut')
    <2> SUFFICES ASSUME NEW h \in DOMAIN handles', NEW r \in DOMAIN nodes',
                        Owns(handles'[h], nodes', r)
                 PROVE  nodes'[r].parent = 0 /\ r \notin cut'
        BY DEF OwnedAreRoots
    <2>1. r \in Nodes'
        BY DEF Nodes
    <2>2. CASE h \in DOMAIN handles /\ r \in Nodes /\ Owns(handles[h], nodes, r)
        <3>1. nodes[r].parent = 0 /\ r \notin cut
            BY <1>1, <2>2 DEF OwnedAreRoots, Nodes
        <3> QED BY <1>3, <2>2, <3>1
    <2> QED BY <1>10, <2>1, <2>2
<1>12. OneOwner(nodes', handles')
    <2> SUFFICES ASSUME NEW h \in DOMAIN handles', NEW k \in DOMAIN handles',
                        NEW r \in DOMAIN nodes',
                        Owns(handles'[h], nodes', r), Owns(handles'[k], nodes', r)
                 PROVE  h = k
        BY DEF OneOwner
    <2>1. r \in Nodes'
        BY DEF Nodes
    <2>2. CASE r \in Nodes
        <3>1. /\ h \in DOMAIN handles /\ Owns(handles[h], nodes, r)
              /\ k \in DOMAIN handles /\ Owns(handles[k], nodes, r)
            BY <1>10, <2>1, <2>2
        <3> QED BY <1>1, <2>2, <3>1 DEF OneOwner, Nodes
    <2>3. CASE r \notin Nodes
        <3>1. /\ h \notin DOMAIN handles /\ k \notin DOMAIN handles
              /\ h - Len(handles) \in DOMAIN more /\ Owns(more[h - Len(handles)], nodes', r)
              /\ k - Len(handles) \in DOMAIN more /\ Owns(more[k - Len(handles)], nodes', r)
            BY <1>10, <2>1, <2>3
        <3>2. h - Len(handles) = k - Len(handles)
            BY <2>1, <3>1
        <3>3. h = Len(handles) + (h - Len(handles)) /\ k = Len(handles) + (k - Len(handles))
            BY <1>5, <3>1
        <3> QED BY <3>2, <3>3
    <2> QED BY <2>2, <2>3
<1>13. \A r \in Nodes' : nodes'[r].parent = 0 => Rooted(r, nodes', handles', cut')
    <2> SUFFICES ASSUME NEW r \in Nodes, nodes'[r].parent = 0
                 PROVE  Rooted(r, nodes', handles', cut')
        OBVIOUS
    <2>1. Rooted(r, nodes, handles, cut)
        BY <1>1, <1>3
    <2>2. CASE nodes[r].kind \in LoadedKinds \/ (r \in cut /\ nodes[r].kind = "namespace")
        BY <1>3, <2>2 DEF Rooted
    <2>3. CASE \E h \in DOMAIN handles : Owns(handles[h], nodes, r)
        <3>1. PICK h \in DOMAIN handles : Owns(handles[h], nodes, r)
            BY <2>3
        <3>2. h \in DOMAIN handles' /\ Owns(handles'[h], nodes', r)
            BY <1>5, <1>7, <3>1
        <3> QED BY <3>2 DEF Rooted
    <2>4. CASE \E h \in DOMAIN handles : handles[h].class = "Xml2" /\ handles[h].at[1] = r
        <3>1. PICK h \in DOMAIN handles : handles[h].class = "Xml2" /\ handles[h].at[1] = r
            BY <2>4
        <3>2. h \in DOMAIN handles' /\ handles'[h].class = "Xml2" /\ handles'[h].at[1] = r
            BY <1>5, <3>1
        <3> QED BY <3>2 DEF Rooted
    <2> QED BY <2>1, <2>2, <2>3, <2>4 DEF Rooted
<1>14. FreedOnce'
    BY FreedByCallsNext
<1>15. wild' \subseteq cut'
    BY <1>1
<1>16. \A n \in Nodes' : NodeSound(n, nodes', handles')
    BY <1>8
<1> QED BY <1>6, <1>9, <1>11, <1>12, <1>13, <1>14, <1>15, <1>16 DEF DocumentsInv

\* A call that keeps objects and neither makes nor frees a node: they own
\* nothing.
LEMMA ViewsKept ==
    ASSUME DocumentsInv, process = "runs", UNCHANGED <<nodes, cut, wild, gone, process>>,
           NEW more \in Seq(ObjectType(Nodes)), handles' = handles \o more,
           \A i \in DOMAIN more : KeepsItsKind(more[i], nodes),
           \A i \in DOMAIN more : \A r \in Nodes : ~Owns(more[i], nodes, r)
    PROVE  DocumentsInv'
<1>1. DocumentsTypeOK /\ gone = 0
    BY DEF DocumentsInv
<1>2. Nodes' = Nodes /\ nodes' = nodes /\ cut' = cut /\ wild' = wild /\ gone' = 0 /\ process' = "runs"
    BY <1>1 DEF Nodes
<1>3. SameNodes
    BY <1>2 DEF SameNodes
<1>4. nodes' \in Seq(NodeType)
    BY <1>1, <1>2, DocumentTypes
<1>5. \A n \in Nodes' : nodes'[n].freed = IF n \in cut' THEN 1 ELSE 0
    BY <1>1, <1>2, FreedByCalls DEF DocumentsInv
<1>6. cut \subseteq cut' /\ cut' \subseteq Nodes'
    BY <1>1, <1>2 DEF DocumentsTypeOK
<1>7. more \in Seq(ObjectType(Nodes'))
    BY <1>2
<1>8. \A n \in Nodes : n \in cut' => n \in cut \/ nodes[n].parent # 0
    BY <1>2
<1>9. \A n \in Nodes' \ Nodes : NodeSound(n, nodes', handles')
    BY <1>2
<1>10. \A i \in DOMAIN more : KeepsItsKind(more[i], nodes')
    BY <1>2
<1>11. \A i \in DOMAIN more : \A r \in Nodes' :
           Owns(more[i], nodes', r) => r \notin Nodes /\ nodes'[r].parent = 0 /\ r \notin cut'
    BY <1>2
<1>12. \A i, j \in DOMAIN more : \A r \in Nodes' :
           Owns(more[i], nodes', r) /\ Owns(more[j], nodes', r) => i = j
    BY <1>2
<1>13. \A r \in Nodes' \ Nodes : nodes'[r].parent = 0 => Rooted(r, nodes', handles', cut')
    BY <1>2
<1>14. process' \in {"runs", "undefined"} /\ wild' = wild /\ gone' = 0
    BY <1>2
<1> QED BY <1>1, <1>3, <1>4, <1>5, <1>6, <1>7, <1>8, <1>9, <1>10, <1>11, <1>12, <1>13, <1>14,
           DocumentsGrow

\* One object.
LEMMA ObjectKept ==
    ASSUME DocumentsTypeOK, NEW class \in XmlClasses, NEW at \in Seq(Nodes'), NEW owns \in BOOLEAN,
           Nodes \subseteq Nodes', Keep(class, at, owns)
    PROVE  /\ <<Object(class, at, owns)>> \in Seq(ObjectType(Nodes'))
           /\ handles' = handles \o <<Object(class, at, owns)>>
           /\ NextId \in DOMAIN handles' /\ handles'[NextId] = Object(class, at, owns)
           /\ \A h \in DOMAIN handles : h \in DOMAIN handles' /\ handles'[h] = handles[h]
<1>1. Object(class, at, owns) \in ObjectType(Nodes')
    BY DEF Object, ObjectType
<1>2. PICK o \in ObjectType(Nodes') : o = Object(class, at, owns)
    BY <1>1
<1>3. handles \in Seq(ObjectType(Nodes'))
    <2>1. ObjectType(Nodes) \subseteq ObjectType(Nodes')
        BY ObjectsStay
    <2>2. handles \in Seq(ObjectType(Nodes))
        BY DocumentTypes
    <2> QED BY <2>1, <2>2, SeqMonotonic
<1>4. handles' = Append(handles, o)
    BY <1>2 DEF Keep
<1>5. Append(handles, o) = handles \o <<o>> /\ <<o>> \in Seq(ObjectType(Nodes'))
    BY <1>3, AppendIs
<1>6. /\ Len(handles) \in Nat /\ DOMAIN handles = 1..Len(handles)
      /\ Append(handles, o) \in Seq(ObjectType(Nodes'))
      /\ Len(Append(handles, o)) = Len(handles) + 1
      /\ \A i \in 1..Len(handles) : Append(handles, o)[i] = handles[i]
      /\ Append(handles, o)[Len(handles) + 1] = o
    BY <1>3, AppendProperties, LenProperties
<1>7. DOMAIN handles' = 1..(Len(handles) + 1)
    BY <1>4, <1>6, LenProperties
<1>8. NextId \in DOMAIN handles' /\ handles'[NextId] = o
    BY <1>4, <1>6, <1>7 DEF NextId
<1>9. \A h \in DOMAIN handles : h \in DOMAIN handles' /\ handles'[h] = handles[h]
    BY <1>4, <1>6, <1>7
<1> QED BY <1>2, <1>4, <1>5, <1>8, <1>9

LEMMA ViewKept ==
    ASSUME DocumentsInv, process = "runs", UNCHANGED <<nodes, cut, wild, gone, process>>,
           NEW class \in XmlClasses, NEW at \in Seq(Nodes), NEW owns \in BOOLEAN,
           Keep(class, at, owns),
           KeepsItsKind(Object(class, at, owns), nodes),
           \A r \in Nodes : ~Owns(Object(class, at, owns), nodes, r)
    PROVE  DocumentsInv'
<1>1. PICK o : o = Object(class, at, owns)
    OBVIOUS
<1>2. DocumentsTypeOK
    BY DEF DocumentsInv
<1>3. Nodes' = Nodes
    BY DEF Nodes
<1>4. <<o>> \in Seq(ObjectType(Nodes)) /\ handles' = handles \o <<o>>
    <2>1. at \in Seq(Nodes') /\ Nodes \subseteq Nodes'
        BY <1>3
    <2>2. /\ <<Object(class, at, owns)>> \in Seq(ObjectType(Nodes'))
          /\ handles' = handles \o <<Object(class, at, owns)>>
        BY <1>2, <2>1, ObjectKept
    <2> QED BY <1>1, <1>3, <2>2
<1>5. DOMAIN <<o>> = {1} /\ <<o>>[1] = o
    OBVIOUS
<1>6. \A i \in DOMAIN <<o>> : KeepsItsKind(<<o>>[i], nodes)
    BY <1>1, <1>5
<1>7. \A i \in DOMAIN <<o>> : \A r \in Nodes : ~Owns(<<o>>[i], nodes, r)
    BY <1>1, <1>5
<1> QED BY <1>4, <1>6, <1>7, ViewsKept

\* A call that makes a tree and keeps an object of its root, and is done with
\* it if nothing owns it.
LEMMA TreeMade ==
    ASSUME DocumentsInv, process = "runs", UNCHANGED <<wild, gone, process>>,
           NEW made \in Seq(NodeType), made # <<>>, nodes' = nodes \o made,
           NEW class \in XmlClasses, NEW owns \in BOOLEAN, Keep(class, <<NextNode>>, owns),
           KeepsItsKind(Object(class, << 1 >>, owns), made),
           made[1].parent = 0,
           class = "XmlXPathResult" => made[1].kind = "namespace",
           owns \/ class = "Xml2" => cut' = cut,
           ~(owns \/ class = "Xml2") => cut' = cut \cup {NextNode} /\ made[1].kind = "namespace",
           \A i \in DOMAIN made :
               /\ made[i].freed = IF Len(nodes) + i \in cut' THEN 1 ELSE 0
               /\ i # 1 => /\ made[i].kind \in TreeKinds
                           /\ \E j \in DOMAIN made : /\ made[i].parent = Len(nodes) + j /\ j < i
                                                     /\ made[j].kind \in TreeKinds
               /\ made[i].doc # 0 => /\ made[i].doc \in DOMAIN handles'
                                     /\ handles'[made[i].doc].class \in {"XmlDocument", "Xml2"}
    PROVE  DocumentsInv'
<1>1. DocumentsTypeOK /\ gone = 0
    BY DEF DocumentsInv
<1>2. /\ nodes \in Seq(NodeType) /\ Len(nodes) \in Nat /\ Nodes = 1..Len(nodes)
      /\ \A n \in Nodes : nodes[n].freed \in Nat
    BY <1>1, DocumentTypes
<1>3. /\ nodes' \in Seq(NodeType)
      /\ \A n \in Nodes : n \in Nodes' /\ nodes'[n] = nodes[n]
      /\ \A i \in DOMAIN made : /\ Len(nodes) + i \in Nodes' /\ Len(nodes) + i \notin Nodes
                                /\ nodes'[Len(nodes) + i] = made[i]
      /\ \A n \in Nodes' : n \notin Nodes =>
            /\ n - Len(nodes) \in DOMAIN made /\ n = Len(nodes) + (n - Len(nodes))
            /\ nodes'[n] = made[n - Len(nodes)]
    <2>1. PICK t : t = nodes \o made
        OBVIOUS
    <2>2. /\ t \in Seq(NodeType)
          /\ \A n \in DOMAIN nodes : n \in DOMAIN t /\ t[n] = nodes[n]
          /\ \A i \in DOMAIN made : /\ Len(nodes) + i \in DOMAIN t /\ Len(nodes) + i \notin DOMAIN nodes
                                    /\ t[Len(nodes) + i] = made[i]
          /\ \A n \in DOMAIN t : n \notin DOMAIN nodes =>
                /\ n - Len(nodes) \in DOMAIN made /\ n = Len(nodes) + (n - Len(nodes))
                /\ t[n] = made[n - Len(nodes)]
        BY <1>2, <2>1, ConcatIs
    <2>3. nodes' = t
        BY <2>1
    <2> QED BY <2>2, <2>3 DEF Nodes
<1>4. SameNodes
    BY <1>3 DEF SameNodes
<1>5. 1 \in DOMAIN made /\ Len(nodes) + 1 = NextNode
    BY ValuesOfSeq DEF NextNode
<1>6. NextNode \in Nodes' /\ NextNode \notin Nodes /\ nodes'[NextNode] = made[1]
    BY <1>3, <1>5
<1>7. cut \subseteq cut' /\ cut' \subseteq Nodes' /\ cut \subseteq Nodes
      /\ \A n \in Nodes : n \in cut' => n \in cut
    <2>1. cut \subseteq Nodes
        BY <1>1 DEF DocumentsTypeOK
    <2>2. cut' = cut \/ cut' = cut \cup {NextNode}
        OBVIOUS
    <2> QED BY <1>3, <1>6, <2>1, <2>2
<1>8. \A n \in Nodes' : nodes'[n].freed = IF n \in cut' THEN 1 ELSE 0
    <2> TAKE n \in Nodes'
    <2>1. CASE n \in Nodes
        <3>1. nodes[n].freed = IF n \in cut THEN 1 ELSE 0
            BY <1>1, <2>1, FreedByCalls DEF DocumentsInv
        <3>2. n \in cut' <=> n \in cut
            BY <1>7, <2>1
        <3> QED BY <1>3, <2>1, <3>1, <3>2
    <2>2. CASE n \notin Nodes
        <3>1. PICK i \in DOMAIN made : n = Len(nodes) + i /\ nodes'[n] = made[i]
            BY <1>3, <2>2
        <3>2. made[i].freed = IF Len(nodes) + i \in cut' THEN 1 ELSE 0
            OBVIOUS
        <3> QED BY <3>1, <3>2
    <2> QED BY <2>1, <2>2
<1> DEFINE o == Object(class, <<NextNode>>, owns)
<1>9. /\ <<o>> \in Seq(ObjectType(Nodes')) /\ handles' = handles \o <<o>>
      /\ NextId \in DOMAIN handles' /\ handles'[NextId] = o
    <2>1. <<NextNode>> \in Seq(Nodes') /\ Nodes \subseteq Nodes'
        BY <1>3, <1>6
    <2> QED BY <1>1, <2>1, ObjectKept
<1>10. o.class = class /\ o.at = <<NextNode>> /\ o.owns = owns /\ Range(o.at) = {NextNode}
       /\ o.at[1] = NextNode /\ o.at # <<>>
    BY RangeOfOne DEF Object
<1>11. DOMAIN <<o>> = {1} /\ <<o>>[1] = o
    OBVIOUS
<1> HIDE DEF o
<1>12. \A n \in Nodes' \ Nodes : NodeSound(n, nodes', handles')
    <2> TAKE n \in Nodes' \ Nodes
    <2>1. PICK i \in DOMAIN made : n = Len(nodes) + i /\ nodes'[n] = made[i]
        BY <1>3
    <2>2. i \in Nat /\ n \in Nat /\ 0 < n
        <3>1. i \in 1..Len(made) /\ Len(made) \in Nat
            BY LenProperties
        <3> QED BY <1>2, <2>1, <3>1
    <2>3. CASE i = 1
        <3>1. nodes'[n].parent = 0
            BY <2>1, <2>3
        <3> QED BY <2>1, <2>2, <3>1 DEF NodeSound
    <2>4. CASE i # 1
        <3>1. PICK j \in DOMAIN made : /\ made[i].parent = Len(nodes) + j /\ j < i
                                       /\ made[j].kind \in TreeKinds
            BY <2>4
        <3>2. j \in Nat
            <4>1. j \in 1..Len(made) /\ Len(made) \in Nat
                BY LenProperties
            <4> QED BY <4>1
        <3>3. Len(nodes) + j < n
            BY <1>2, <2>1, <2>2, <3>1, <3>2
        <3>4. nodes'[Len(nodes) + j] = made[j]
            BY <1>3
        <3>5. made[i].kind \in TreeKinds
            BY <2>4
        <3>6. made[i].doc # 0 => /\ made[i].doc \in DOMAIN handles'
                                 /\ handles'[made[i].doc].class \in {"XmlDocument", "Xml2"}
            OBVIOUS
        <3> QED BY <2>1, <3>1, <3>3, <3>4, <3>5, <3>6 DEF NodeSound
    <2> QED BY <2>3, <2>4
<1>13. KeepsItsKind(o, nodes')
    <2>1. Range(<< 1 >>) = {1}
        BY RangeOfOne
    <2>2. /\ Object(class, << 1 >>, owns).at = << 1 >> /\ Object(class, << 1 >>, owns).class = class
          /\ Object(class, << 1 >>, owns).owns = owns
        BY DEF Object
    <2>3. /\ made[1].kind \in IF class \in Loaders THEN LoadedKinds ELSE TreeKinds \cup {"namespace"}
          /\ owns => class \in Range(Destroyed)
          /\ class \in Loaders => owns
        BY <2>1, <2>2 DEF KeepsItsKind
    <2> QED BY <1>6, <1>10, <2>3 DEF KeepsItsKind
<1>14. ASSUME NEW r, Owns(o, nodes', r)
       PROVE  r = NextNode /\ r \notin Nodes /\ nodes'[r].parent = 0 /\ r \notin cut'
    <2>1. owns /\ r = NextNode
        BY <1>10, <1>14 DEF Owns
    <2>2. cut' = cut
        BY <2>1
    <2> QED BY <1>6, <1>7, <2>1, <2>2
<1>15. Rooted(NextNode, nodes', handles', cut')
    <2>1. CASE owns
        <3>1. Owns(o, nodes', NextNode)
            BY <1>6, <1>10, <2>1 DEF Owns
        <3> QED BY <1>9, <3>1 DEF Rooted
    <2>2. CASE class = "Xml2"
        <3>1. handles'[NextId].class = "Xml2" /\ handles'[NextId].at[1] = NextNode
            BY <1>9, <1>10, <2>2
        <3> QED BY <1>9, <3>1 DEF Rooted
    <2>3. CASE ~(owns \/ class = "Xml2")
        BY <1>6, <2>3 DEF Rooted
    <2> QED BY <2>1, <2>2, <2>3
<1>16. \A r \in Nodes' \ Nodes : nodes'[r].parent = 0 => Rooted(r, nodes', handles', cut')
    <2> SUFFICES ASSUME NEW r \in Nodes' \ Nodes, nodes'[r].parent = 0
                 PROVE  r = NextNode
        BY <1>15
    <2>1. PICK i \in DOMAIN made : r = Len(nodes) + i /\ nodes'[r] = made[i]
        BY <1>3
    <2>2. i = 1
        <3> SUFFICES ASSUME i # 1 PROVE FALSE
            OBVIOUS
        <3>1. PICK j \in DOMAIN made : made[i].parent = Len(nodes) + j
            OBVIOUS
        <3>2. j \in Nat /\ j # 0
            <4>1. j \in 1..Len(made) /\ Len(made) \in Nat
                BY LenProperties
            <4> QED BY <4>1
        <3>3. Len(nodes) + j # 0
            BY <1>2, <3>2
        <3> QED BY <2>1, <3>1, <3>3
    <2> QED BY <1>5, <2>1, <2>2
<1>17. gone' = 0 /\ process' \in {"runs", "undefined"} /\ wild' = wild
    BY <1>1
<1>18. \A n \in Nodes : n \in cut' => n \in cut \/ nodes[n].parent # 0
    BY <1>7
<1>19. \A i \in DOMAIN <<o>> : KeepsItsKind(<<o>>[i], nodes')
    BY <1>11, <1>13
<1>20. \A i \in DOMAIN <<o>> : \A r \in Nodes' :
           Owns(<<o>>[i], nodes', r) => r \notin Nodes /\ nodes'[r].parent = 0 /\ r \notin cut'
    BY <1>11, <1>14
<1>21. \A i, j \in DOMAIN <<o>> : \A r \in Nodes' :
           Owns(<<o>>[i], nodes', r) /\ Owns(<<o>>[j], nodes', r) => i = j
    BY <1>11
<1>22. cut \subseteq cut' /\ cut' \subseteq Nodes'
    BY <1>7
<1>23. nodes' \in Seq(NodeType)
    BY <1>3
<1>24. <<o>> \in Seq(ObjectType(Nodes')) /\ handles' = handles \o <<o>>
    BY <1>9
<1> QED BY <1>1, <1>4, <1>8, <1>12, <1>16, <1>17, <1>18, <1>19, <1>20, <1>21, <1>22, <1>23, <1>24,
           DocumentsGrow

LEMMA FreedIs ==
    ASSUME DocumentsTypeOK, NEW ns \in SUBSET Nodes
    PROVE  /\ Freed(ns) \in Seq(NodeType) /\ DOMAIN Freed(ns) = Nodes /\ Len(Freed(ns)) = Len(nodes)
           /\ \A n \in Nodes : /\ Freed(ns)[n].kind = nodes[n].kind
                               /\ Freed(ns)[n].parent = nodes[n].parent
                               /\ Freed(ns)[n].doc = nodes[n].doc
                               /\ n \notin ns => Freed(ns)[n].freed = nodes[n].freed
                               /\ n \in ns => Freed(ns)[n].freed = nodes[n].freed + 1
<1>1. Len(nodes) \in Nat /\ Nodes = 1..Len(nodes)
    BY DocumentTypes
<1>2. DOMAIN Freed(ns) = Nodes
    BY DEF Freed
<1>3. ASSUME NEW n \in Nodes
      PROVE  /\ Freed(ns)[n] \in NodeType
             /\ Freed(ns)[n].kind = nodes[n].kind
             /\ Freed(ns)[n].parent = nodes[n].parent
             /\ Freed(ns)[n].doc = nodes[n].doc
             /\ n \notin ns => Freed(ns)[n].freed = nodes[n].freed
             /\ n \in ns => Freed(ns)[n].freed = nodes[n].freed + 1
    <2>1. Freed(ns)[n] = IF n \in ns THEN [nodes[n] EXCEPT !.freed = @ + 1] ELSE nodes[n]
        BY DEF Freed
    <2>2. PICK a \in NodeType : a = nodes[n]
        BY DocumentTypes
    <2>3. a.freed + 1 \in Nat
        BY DEF NodeType
    <2>4. /\ [a EXCEPT !.freed = @ + 1] \in NodeType
          /\ [a EXCEPT !.freed = @ + 1].kind = a.kind
          /\ [a EXCEPT !.freed = @ + 1].parent = a.parent
          /\ [a EXCEPT !.freed = @ + 1].doc = a.doc
          /\ [a EXCEPT !.freed = @ + 1].freed = a.freed + 1
        BY <2>3 DEF NodeType
    <2>5. CASE n \in ns
        BY <2>1, <2>2, <2>4, <2>5
    <2>6. CASE n \notin ns
        BY <2>1, <2>2, <2>6
    <2> QED BY <2>5, <2>6
<1>4. Freed(ns) \in [1..Len(nodes) -> NodeType]
    <2>1. Freed(ns) = [n \in Nodes |-> Freed(ns)[n]]
        BY DEF Freed
    <2> QED BY <1>1, <1>3, <2>1
<1>5. Freed(ns) \in Seq(NodeType)
    <2>1. \E k \in Nat : Freed(ns) \in [1..k -> NodeType]
        BY <1>1, <1>4
    <2> QED BY <2>1, SeqDef
<1>6. Len(Freed(ns)) = Len(nodes)
    <2>1. Len(Freed(ns)) \in Nat /\ DOMAIN Freed(ns) = 1..Len(Freed(ns))
        BY <1>5, LenProperties
    <2> QED BY <1>1, <1>2, <2>1
<1> QED BY <1>2, <1>3, <1>5, <1>6

\* A call that frees nodes below others, which were there, and may add some
\* below others.
LEMMA NodesEdited ==
    ASSUME DocumentsInv, process = "runs", UNCHANGED <<handles, wild, gone, process>>,
           NEW ns \in SUBSET Nodes, cut' = cut \cup ns,
           \A n \in ns : Alive(n) /\ nodes[n].parent # 0,
           NEW made \in Seq(NodeType), nodes' = Freed(ns) \o made,
           \A i \in DOMAIN made :
               /\ made[i].freed = 0 /\ made[i].kind \in TreeKinds
               /\ made[i].parent \in Nodes /\ nodes[made[i].parent].kind \in TreeKinds
               /\ made[i].doc # 0 => /\ made[i].doc \in DOMAIN handles
                                     /\ handles[made[i].doc].class \in {"XmlDocument", "Xml2"}
    PROVE  DocumentsInv'
<1>1. DocumentsTypeOK /\ gone = 0
    BY DEF DocumentsInv
<1>2. Len(nodes) \in Nat /\ Nodes = 1..Len(nodes) /\ cut \subseteq Nodes
    BY <1>1, DocumentTypes DEF DocumentsTypeOK
<1>3. /\ Freed(ns) \in Seq(NodeType) /\ DOMAIN Freed(ns) = Nodes /\ Len(Freed(ns)) = Len(nodes)
      /\ \A n \in Nodes : /\ Freed(ns)[n].kind = nodes[n].kind
                          /\ Freed(ns)[n].parent = nodes[n].parent
                          /\ Freed(ns)[n].doc = nodes[n].doc
                          /\ n \notin ns => Freed(ns)[n].freed = nodes[n].freed
                          /\ n \in ns => Freed(ns)[n].freed = nodes[n].freed + 1
    BY <1>1, FreedIs
<1>4. /\ nodes' \in Seq(NodeType)
      /\ \A n \in Nodes : n \in Nodes' /\ nodes'[n] = Freed(ns)[n]
      /\ \A n \in Nodes' : n \notin Nodes =>
            /\ n - Len(nodes) \in DOMAIN made /\ n = Len(nodes) + (n - Len(nodes))
            /\ nodes'[n] = made[n - Len(nodes)]
    <2>1. PICK s : s = Freed(ns)
        OBVIOUS
    <2>2. s \in Seq(NodeType) /\ DOMAIN s = Nodes /\ Len(s) = Len(nodes)
        BY <1>3, <2>1
    <2>3. PICK t : t = s \o made
        OBVIOUS
    <2>4. /\ t \in Seq(NodeType)
          /\ \A n \in DOMAIN s : n \in DOMAIN t /\ t[n] = s[n]
          /\ \A n \in DOMAIN t : n \notin DOMAIN s =>
                /\ n - Len(s) \in DOMAIN made /\ n = Len(s) + (n - Len(s))
                /\ t[n] = made[n - Len(s)]
        BY <2>2, <2>3, ConcatIs
    <2>5. nodes' = t
        BY <2>1, <2>3
    <2> QED BY <2>1, <2>2, <2>4, <2>5 DEF Nodes
<1>5. SameNodes
    BY <1>3, <1>4 DEF SameNodes
<1>6. \A n \in Nodes' : nodes'[n].freed = IF n \in cut' THEN 1 ELSE 0
    <2> TAKE n \in Nodes'
    <2>1. CASE n \in Nodes
        <3>1. nodes[n].freed = IF n \in cut THEN 1 ELSE 0
            BY <1>1, <2>1, FreedByCalls DEF DocumentsInv
        <3>2. CASE n \in ns
            <4>1. nodes[n].freed = 0
                BY <3>2 DEF Alive
            <4>2. nodes'[n].freed = 1
                BY <1>3, <1>4, <2>1, <3>2, <4>1
            <4> QED BY <3>2, <4>2
        <3>3. CASE n \notin ns
            BY <1>3, <1>4, <2>1, <3>1, <3>3
        <3> QED BY <3>2, <3>3
    <2>2. CASE n \notin Nodes
        <3>1. PICK i \in DOMAIN made : nodes'[n] = made[i]
            BY <1>4, <2>2
        <3>2. n \notin cut'
            BY <1>2, <2>2
        <3> QED BY <3>1, <3>2
    <2> QED BY <2>1, <2>2
<1>7. \A n \in Nodes' \ Nodes : NodeSound(n, nodes', handles')
    <2> TAKE n \in Nodes' \ Nodes
    <2>1. PICK i \in DOMAIN made : n = Len(nodes) + i /\ nodes'[n] = made[i]
        BY <1>4
    <2>2. i \in Nat /\ 0 < i
        <3>1. i \in 1..Len(made) /\ Len(made) \in Nat
            BY LenProperties
        <3> QED BY <3>1
    <2>3. PICK p \in 1..Len(nodes) : p = made[i].parent
        BY <1>2
    <2>4. nodes'[n].parent < n
        <3>1. p < Len(nodes) + i
            BY <1>2, <2>2
        <3> QED BY <2>1, <2>3, <3>1
    <2>5. nodes'[nodes'[n].parent].kind \in TreeKinds
        <3>1. p \in Nodes /\ nodes[p].kind \in TreeKinds
            BY <2>3
        <3>2. nodes'[p].kind = nodes[p].kind
            BY <1>3, <1>4, <3>1
        <3>3. nodes'[n].parent = p
            BY <2>1, <2>3
        <3> QED BY <3>1, <3>2, <3>3
    <2> QED BY <2>1, <2>4, <2>5 DEF NodeSound
<1>8. cut \subseteq cut' /\ cut' \subseteq Nodes'
    BY <1>2, <1>4
<1>9. \A n \in Nodes : n \in cut' => n \in cut \/ nodes[n].parent # 0
    OBVIOUS
<1>10. \A r \in Nodes' \ Nodes : nodes'[r].parent = 0 => Rooted(r, nodes', handles', cut')
    <2> SUFFICES ASSUME NEW r \in Nodes' \ Nodes PROVE nodes'[r].parent # 0
        OBVIOUS
    <2>1. PICK i \in DOMAIN made : nodes'[r] = made[i]
        BY <1>4
    <2>2. made[i].parent \in 1..Len(nodes)
        BY <1>2
    <2> QED BY <1>2, <2>1, <2>2
<1> DEFINE more == <<>>
<1>11. more \in Seq(ObjectType(Nodes')) /\ DOMAIN more = {}
    OBVIOUS
<1>12. handles' = handles \o more
    <2>1. handles \in Seq(ObjectType(Nodes))
        BY <1>1, DocumentTypes
    <2>2. handles \o <<>> = handles
        BY <2>1, ConcatEmptySeq
    <2> QED BY <2>2
<1> HIDE DEF more
<1>13. \A i \in DOMAIN more : KeepsItsKind(more[i], nodes')
    BY <1>11
<1>14. \A i \in DOMAIN more : \A r \in Nodes' :
           Owns(more[i], nodes', r) => r \notin Nodes /\ nodes'[r].parent = 0 /\ r \notin cut'
    BY <1>11
<1>15. \A i, j \in DOMAIN more : \A r \in Nodes' :
           Owns(more[i], nodes', r) /\ Owns(more[j], nodes', r) => i = j
    BY <1>11
<1>16. gone' = 0 /\ process' \in {"runs", "undefined"} /\ wild' = wild
    BY <1>1
<1>17. nodes' \in Seq(NodeType) /\ more \in Seq(ObjectType(Nodes'))
    BY <1>4, <1>11
<1> QED BY <1>1, <1>5, <1>6, <1>7, <1>8, <1>9, <1>10, <1>12, <1>13, <1>14, <1>15, <1>16, <1>17,
           DocumentsGrow

\* A load, of a schema or a DTD: the object points to what it made, or to
\* something of what it pointed to.
LEMMA PointersReplaced ==
    ASSUME DocumentsInv, process = "runs", UNCHANGED <<cut, wild, gone, process>>,
           NEW h \in DOMAIN handles, handles[h].class \in Loaders,
           NEW made \in Seq(NodeType), nodes' = nodes \o made,
           \A i \in DOMAIN made : /\ made[i].parent = 0 /\ made[i].doc = 0 /\ made[i].freed = 0
                                  /\ made[i].kind \in LoadedKinds,
           NEW at \in Seq(Nodes'), handles' = [handles EXCEPT ![h].at = at],
           \A n \in Range(at) : n \in Range(handles[h].at) \/ n \notin Nodes
    PROVE  DocumentsInv'
<1>1. /\ DocumentsTypeOK /\ gone = 0
      /\ \A n \in Nodes : NodeSound(n, nodes, handles)
      /\ \A k \in DOMAIN handles : KeepsItsKind(handles[k], nodes)
      /\ OwnedAreRoots(nodes, handles, cut) /\ OneOwner(nodes, handles)
      /\ \A r \in Nodes : nodes[r].parent = 0 => Rooted(r, nodes, handles, cut)
      /\ wild \subseteq cut
    BY DEF DocumentsInv
<1>2. /\ nodes \in Seq(NodeType) /\ Len(nodes) \in Nat /\ Nodes = 1..Len(nodes)
      /\ \A n \in Nodes : nodes[n].parent \in Nat
      /\ handles \in Seq(ObjectType(Nodes)) /\ Len(handles) \in Nat
      /\ DOMAIN handles = 1..Len(handles)
      /\ \A k \in DOMAIN handles : Range(handles[k].at) \subseteq Nodes
    BY <1>1, DocumentTypes
<1>3. cut \subseteq Nodes
    BY <1>1 DEF DocumentsTypeOK
<1>4. /\ nodes' \in Seq(NodeType)
      /\ \A n \in Nodes : n \in Nodes' /\ nodes'[n] = nodes[n]
      /\ \A n \in Nodes' : n \notin Nodes => \E i \in DOMAIN made : nodes'[n] = made[i] /\ 0 < n
    <2>1. PICK t : t = nodes \o made
        OBVIOUS
    <2>2. /\ t \in Seq(NodeType) /\ DOMAIN t = 1..(Len(nodes) + Len(made)) /\ Len(made) \in Nat
          /\ \A n \in DOMAIN nodes : n \in DOMAIN t /\ t[n] = nodes[n]
          /\ \A n \in DOMAIN t : n \notin DOMAIN nodes =>
                n - Len(nodes) \in DOMAIN made /\ t[n] = made[n - Len(nodes)]
        BY <1>2, <2>1, ConcatIs
    <2>3. nodes' = t
        BY <2>1
    <2>4. \A n \in DOMAIN t : 0 < n
        BY <1>2, <2>2
    <2> QED BY <2>2, <2>3, <2>4 DEF Nodes
<1>5. SameNodes
    BY <1>4 DEF SameNodes
<1>6. ASSUME NEW n \in Nodes', n \notin Nodes
      PROVE  /\ nodes'[n].parent = 0 /\ nodes'[n].doc = 0 /\ nodes'[n].freed = 0
             /\ nodes'[n].kind \in LoadedKinds /\ 0 < n
    <2>1. PICK i \in DOMAIN made : nodes'[n] = made[i] /\ 0 < n
        BY <1>4, <1>6
    <2> QED BY <2>1
<1>7. /\ DOMAIN handles' = DOMAIN handles
      /\ \A k \in DOMAIN handles : k # h => handles'[k] = handles[k]
      /\ handles'[h] = [handles[h] EXCEPT !.at = at]
    OBVIOUS
<1>8. PICK o \in ObjectType(Nodes) : o = handles[h]
    BY <1>1, DocumentTypes
<1>9. /\ handles'[h] \in ObjectType(Nodes') /\ handles'[h].at = at
      /\ handles'[h].class = handles[h].class /\ handles'[h].owns = handles[h].owns
    <2>1. /\ [o EXCEPT !.at = at] \in ObjectType(Nodes') /\ [o EXCEPT !.at = at].at = at
          /\ [o EXCEPT !.at = at].class = o.class /\ [o EXCEPT !.at = at].owns = o.owns
        BY DEF ObjectType
    <2> QED BY <1>7, <1>8, <2>1
<1>10. handles' \in Seq(ObjectType(Nodes'))
    <2>1. handles \in Seq(ObjectType(Nodes'))
        <3>1. Nodes \subseteq Nodes'
            BY <1>4
        <3>2. ObjectType(Nodes) \subseteq ObjectType(Nodes')
            BY <3>1, ObjectsStay
        <3> QED BY <1>2, <3>2, SeqMonotonic
    <2>2. PICK e \in ObjectType(Nodes') : e = handles'[h]
        BY <1>9
    <2>3. h \in 1..Len(handles)
        BY <1>2
    <2>4. [handles EXCEPT ![h] = e] \in Seq(ObjectType(Nodes'))
        BY <2>1, <2>3, ExceptSeq
    <2>5. handles' = [handles EXCEPT ![h] = e]
        BY <1>7, <2>2
    <2> QED BY <2>4, <2>5
<1>11. DocumentsTypeOK'
    <2>1. cut' \subseteq Nodes' /\ wild' \subseteq Nodes'
        BY <1>1, <1>3, <1>4
    <2>2. gone' \in 0..Len(Destroyed) /\ process' \in {"runs", "exits", "undefined"}
        BY <1>1 DEF DocumentsTypeOK
    <2> QED BY <1>4, <1>10, <2>1, <2>2 DEF DocumentsTypeOK, NodeType, ObjectType
<1>12. \A k \in DOMAIN handles : handles'[k].class = handles[k].class
    BY <1>7, <1>9
<1>13. \A n \in Nodes' : NodeSound(n, nodes', handles')
    <2> TAKE n \in Nodes'
    <2>1. CASE n \in Nodes
        <3>1. NodeSound(n, nodes, handles)
            BY <1>1, <2>1
        <3>2. nodes[n].parent # 0 => nodes[n].parent \in Nodes
            <4>1. nodes[n].parent \in Nat /\ nodes[n].parent < n /\ n \in 1..Len(nodes)
                BY <1>2, <2>1, <3>1 DEF NodeSound
            <4> QED BY <4>1, <1>2
        <3> QED BY <1>4, <1>7, <1>12, <2>1, <3>1, <3>2 DEF NodeSound
    <2>2. CASE n \notin Nodes
        BY <1>6, <2>2 DEF NodeSound
    <2> QED BY <2>1, <2>2
<1>14. \A n \in Range(at) : nodes'[n].kind \in LoadedKinds /\ n \in Nodes'
    <2> TAKE n \in Range(at)
    <2>1. n \in Nodes'
        BY ValuesOfSeq
    <2>2. CASE n \in Range(handles[h].at)
        <3>1. n \in Nodes
            BY <1>2, <2>2
        <3>2. nodes[n].kind \in LoadedKinds
            BY <1>1, <2>2 DEF KeepsItsKind
        <3> QED BY <1>4, <2>1, <3>1, <3>2
    <2>3. CASE n \notin Nodes
        BY <1>6, <2>1, <2>3
    <2> QED BY <2>2, <2>3
<1>15. handles[h].owns /\ handles[h].class # "XmlXPathResult"
       /\ handles[h].class \notin {"XmlNode", "raw node", "Xml2"}
    BY <1>1 DEF KeepsItsKind, Loaders
<1>16. ASSUME NEW k \in DOMAIN handles, k # h
       PROVE  /\ KeepsItsKind(handles'[k], nodes')
              /\ \A r : Owns(handles'[k], nodes', r) <=> Owns(handles[k], nodes, r)
              /\ \A r : Owns(handles[k], nodes, r) => r \in Nodes
    <2>1. Range(handles[k].at) \subseteq Nodes /\ KeepsItsKind(handles[k], nodes)
        BY <1>1, <1>2
    <2>2. handles'[k] = handles[k]
        BY <1>7, <1>16
    <2>3. /\ KeepsItsKind(handles[k], nodes')
          /\ \A r : Owns(handles[k], nodes', r) <=> Owns(handles[k], nodes, r)
          /\ \A r : Owns(handles[k], nodes, r) => r \in Nodes
        BY <1>5, <2>1, ObjectStays
    <2> QED BY <2>2, <2>3
<1>17. \A k \in DOMAIN handles' : KeepsItsKind(handles'[k], nodes')
    <2>1. KeepsItsKind(handles'[h], nodes')
        <3>1. KeepsItsKind(handles[h], nodes)
            BY <1>1
        <3> QED BY <1>9, <1>14, <1>15, <3>1 DEF KeepsItsKind
    <2> QED BY <1>7, <1>16, <2>1
<1>18. ASSUME NEW r, Owns(handles'[h], nodes', r)
       PROVE  \/ r \in Nodes /\ Owns(handles[h], nodes, r)
              \/ r \in Nodes' /\ r \notin Nodes
    <2>1. r \in Range(at)
        BY <1>9, <1>18 DEF Owns
    <2>2. CASE r \in Range(handles[h].at)
        BY <1>2, <1>15, <2>2 DEF Owns
    <2>3. CASE r \notin Nodes
        BY <1>14, <2>1, <2>3
    <2> QED BY <2>1, <2>2, <2>3
<1>19. ASSUME NEW k \in DOMAIN handles, NEW r, Owns(handles'[k], nodes', r)
       PROVE  \/ r \in Nodes /\ Owns(handles[k], nodes, r)
              \/ k = h /\ r \in Nodes' /\ r \notin Nodes
    <2>1. CASE k = h
        BY <1>18, <1>19, <2>1
    <2>2. CASE k # h
        BY <1>16, <1>19, <2>2
    <2> QED BY <2>1, <2>2
<1>20. OwnedAreRoots(nodes', handles', cut')
    <2> SUFFICES ASSUME NEW k \in DOMAIN handles, NEW r \in DOMAIN nodes',
                        Owns(handles'[k], nodes', r)
                 PROVE  nodes'[r].parent = 0 /\ r \notin cut'
        BY <1>7 DEF OwnedAreRoots
    <2>1. CASE r \in Nodes /\ Owns(handles[k], nodes, r)
        <3>1. nodes[r].parent = 0 /\ r \notin cut
            BY <1>1, <2>1 DEF OwnedAreRoots, Nodes
        <3> QED BY <1>4, <2>1, <3>1
    <2>2. CASE r \in Nodes' /\ r \notin Nodes
        BY <1>3, <1>6, <2>2
    <2> QED BY <1>19, <2>1, <2>2
<1>21. OneOwner(nodes', handles')
    <2> SUFFICES ASSUME NEW j \in DOMAIN handles, NEW k \in DOMAIN handles, NEW r \in DOMAIN nodes',
                        Owns(handles'[j], nodes', r), Owns(handles'[k], nodes', r)
                 PROVE  j = k
        BY <1>7 DEF OneOwner
    <2>1. CASE r \in Nodes
        <3>1. Owns(handles[j], nodes, r) /\ Owns(handles[k], nodes, r)
            BY <1>19, <2>1
        <3> QED BY <1>1, <2>1, <3>1 DEF OneOwner, Nodes
    <2>2. CASE r \notin Nodes
        BY <1>19, <2>2
    <2> QED BY <2>1, <2>2
<1>22. \A r \in Nodes' : nodes'[r].parent = 0 => Rooted(r, nodes', handles', cut')
    <2> SUFFICES ASSUME NEW r \in Nodes', nodes'[r].parent = 0
                 PROVE  Rooted(r, nodes', handles', cut')
        OBVIOUS
    <2>1. CASE r \notin Nodes
        BY <1>6, <2>1 DEF Rooted
    <2>2. CASE r \in Nodes
        <3>1. nodes'[r] = nodes[r] /\ Rooted(r, nodes, handles, cut)
            BY <1>1, <1>4, <2>2
        <3>2. CASE nodes[r].kind \in LoadedKinds \/ (r \in cut /\ nodes[r].kind = "namespace")
            BY <3>1, <3>2 DEF Rooted
        <3>3. CASE \E k \in DOMAIN handles : Owns(handles[k], nodes, r)
            <4>1. PICK k \in DOMAIN handles : Owns(handles[k], nodes, r)
                BY <3>3
            <4>2. CASE k = h
                <5>1. r \in Range(handles[h].at)
                    BY <4>1, <4>2 DEF Owns
                <5>2. nodes[r].kind \in LoadedKinds
                    BY <1>1, <5>1 DEF KeepsItsKind
                <5> QED BY <3>1, <5>2 DEF Rooted
            <4>3. CASE k # h
                <5>1. k \in DOMAIN handles' /\ Owns(handles'[k], nodes', r)
                    BY <1>7, <1>16, <4>1, <4>3
                <5> QED BY <5>1 DEF Rooted
            <4> QED BY <4>2, <4>3
        <3>4. CASE \E k \in DOMAIN handles : handles[k].class = "Xml2" /\ handles[k].at[1] = r
            <4>1. PICK k \in DOMAIN handles : handles[k].class = "Xml2" /\ handles[k].at[1] = r
                BY <3>4
            <4>2. k # h
                BY <1>15, <4>1
            <4>3. k \in DOMAIN handles' /\ handles'[k] = handles[k]
                BY <1>7, <4>2
            <4> QED BY <4>1, <4>3 DEF Rooted
        <3> QED BY <3>1, <3>2, <3>3, <3>4 DEF Rooted
    <2> QED BY <2>1, <2>2
<1>23. FreedOnce'
    <2>1. ASSUME NEW n \in Nodes'
          PROVE  nodes'[n].freed = IF n \in cut' THEN 1 ELSE 0
        <3>1. CASE n \in Nodes
            <4>1. nodes[n].freed = IF n \in cut THEN 1 ELSE 0
                BY <1>1, <3>1, FreedByCalls DEF DocumentsInv
            <4> QED BY <1>4, <3>1, <4>1
        <3>2. CASE n \notin Nodes
            BY <1>3, <1>6, <3>2
        <3> QED BY <3>1, <3>2
    <2>2. gone' = 0
        BY <1>1
    <2> QED BY <2>1, <2>2, FreedByCallsNext
<1>24. wild' \subseteq cut' /\ (process' = "runs" => gone' = 0)
    BY <1>1
<1> QED BY <1>11, <1>13, <1>17, <1>20, <1>21, <1>22, <1>23, <1>24 DEF DocumentsInv

-----------------------------------------------------------------------------
(* The calls, one by one. *)

LEMMA DestroyedIs ==
    /\ Range(Destroyed) = {"XmlDtd", "XmlSchema", "XmlXPathResult", "XmlNode", "XmlDocument"}
    /\ Len(Destroyed) = 5 /\ DOMAIN Destroyed = 1..5
    /\ Destroyed[1] = "XmlDtd" /\ Destroyed[2] = "XmlSchema" /\ Destroyed[3] = "XmlXPathResult"
    /\ Destroyed[4] = "XmlNode" /\ Destroyed[5] = "XmlDocument"
<1>1. /\ Len(Destroyed) = 5 /\ DOMAIN Destroyed = 1..5
      /\ Destroyed[1] = "XmlDtd" /\ Destroyed[2] = "XmlSchema" /\ Destroyed[3] = "XmlXPathResult"
      /\ Destroyed[4] = "XmlNode" /\ Destroyed[5] = "XmlDocument"
    BY DEF Destroyed
<1>2. \A i \in 1..5 : i = 1 \/ i = 2 \/ i = 3 \/ i = 4 \/ i = 5
    OBVIOUS
<1>3. \A x : x \in Range(Destroyed) <=> \E i \in 1..5 : x = Destroyed[i]
    BY <1>1 DEF Range
<1>4. 1 \in 1..5 /\ 2 \in 1..5 /\ 3 \in 1..5 /\ 4 \in 1..5 /\ 5 \in 1..5
    OBVIOUS
<1>5. \A x : x \in Range(Destroyed)
                <=> x \in {"XmlDtd", "XmlSchema", "XmlXPathResult", "XmlNode", "XmlDocument"}
    BY <1>1, <1>2, <1>3, <1>4
<1>6. Range(Destroyed) = {"XmlDtd", "XmlSchema", "XmlXPathResult", "XmlNode", "XmlDocument"}
    BY <1>5
<1> QED BY <1>1, <1>6

LEMMA NodesFinite ==
    ASSUME DocumentsTypeOK, NEW S \in SUBSET Nodes
    PROVE  S \in SUBSET Nat /\ IsFiniteSet(S)
<1>1. Len(nodes) \in Nat /\ Nodes = 1..Len(nodes)
    BY DocumentTypes
<1>2. IsFiniteSet(1..Len(nodes))
    <2>1. 1 \in Int /\ Len(nodes) \in Int
        BY <1>1
    <2> QED BY <2>1, FS_Interval
<1>3. IsFiniteSet(S)
    BY <1>1, <1>2, FS_Subset
<1> QED BY <1>1, <1>3

LEMMA PartsIs ==
    ASSUME DocumentsTypeOK, NEW n, NEW kinds
    PROVE  /\ Parts(n, kinds) \in Seq(Nodes)
           /\ \A m \in Range(Parts(n, kinds)) :
                 m \in Nodes /\ nodes[m].parent = n /\ nodes[m].kind \in kinds /\ Alive(m)
<1> DEFINE S == {m \in Nodes : nodes[m].parent = n /\ nodes[m].kind \in kinds /\ Alive(m)}
<1>1. S \in SUBSET Nodes
    OBVIOUS
<1>2. Parts(n, kinds) = InOrder(S)
    BY DEF Parts
<1>3. \A m \in S : m \in Nodes /\ nodes[m].parent = n /\ nodes[m].kind \in kinds /\ Alive(m)
    OBVIOUS
<1> HIDE DEF S
<1>4. S \in SUBSET Nat /\ IsFiniteSet(S)
    BY <1>1, NodesFinite
<1>5. InOrder(S) \in Seq(S) /\ Range(InOrder(S)) \subseteq S
    BY <1>4, InOrderIs
<1>6. InOrder(S) \in Seq(Nodes)
    BY <1>1, <1>5, SeqMonotonic
<1> QED BY <1>2, <1>3, <1>5, <1>6

LEMMA FoundIs ==
    ASSUME DocumentsTypeOK, NEW doc, NEW kind
    PROVE  /\ Found(doc, kind) \in Seq(Nodes)
           /\ \A m \in Range(Found(doc, kind)) : m \in Nodes /\ nodes[m].kind = kind
<1> DEFINE S == {m \in Nodes : /\ handles[doc].at # <<>> /\ m \in Subtree(handles[doc].at[1])
                               /\ nodes[m].kind = kind}
<1>1. S \in SUBSET Nodes
    OBVIOUS
<1>2. Found(doc, kind) = InOrder(S)
    BY DEF Found
<1>3. \A m \in S : m \in Nodes /\ nodes[m].kind = kind
    OBVIOUS
<1> HIDE DEF S
<1>4. S \in SUBSET Nat /\ IsFiniteSet(S)
    BY <1>1, NodesFinite
<1>5. InOrder(S) \in Seq(S) /\ Range(InOrder(S)) \subseteq S
    BY <1>4, InOrderIs
<1>6. InOrder(S) \in Seq(Nodes)
    BY <1>1, <1>5, SeqMonotonic
<1> QED BY <1>2, <1>3, <1>5, <1>6

LEMMA AboveIs == Above = AboveIn(nodes)
BY DEF Above, AboveIn, Nodes

LEMMA NodesRise ==
    ASSUME DocumentsInv
    PROVE  /\ Len(nodes) \in Nat /\ DOMAIN nodes = 1..Len(nodes) /\ Nodes = 1..Len(nodes)
           /\ Rising(nodes)
<1>1. DocumentsTypeOK
    BY DEF DocumentsInv
<1>2. /\ Len(nodes) \in Nat /\ Nodes = 1..Len(nodes)
      /\ \A n \in Nodes : nodes[n].parent \in Nat
    BY <1>1, DocumentTypes
<1>3. \A n \in Nodes : nodes[n].parent < n
    BY DEF DocumentsInv, NodeSound
<1> QED BY <1>2, <1>3 DEF Rising, Nodes

LEMMA SubtreeIs ==
    ASSUME DocumentsInv, NEW n \in Nodes
    PROVE  \A m \in Subtree(n) :
              /\ m \in Nodes /\ Alive(m)
              /\ m # n => /\ n < m /\ nodes[m].parent \in Nodes
                          /\ nodes[m].parent # 0 /\ n <= nodes[m].parent /\ nodes[m].parent < m
                          /\ nodes[m].kind \in TreeKinds
<1> SUFFICES ASSUME NEW m \in Subtree(n)
             PROVE  /\ m \in Nodes /\ Alive(m)
                    /\ m # n => /\ n < m /\ nodes[m].parent \in Nodes
                                /\ nodes[m].parent # 0 /\ n <= nodes[m].parent
                                /\ nodes[m].parent < m
                                /\ nodes[m].kind \in TreeKinds
    OBVIOUS
<1>1. m \in Nodes /\ Alive(m) /\ (m # n => n \in Above[m])
    BY DEF Subtree
<1>2. ASSUME m # n
      PROVE  /\ n < m /\ nodes[m].parent \in Nodes
             /\ nodes[m].parent # 0 /\ n <= nodes[m].parent /\ nodes[m].parent < m
             /\ nodes[m].kind \in TreeKinds
    <2>1. /\ Len(nodes) \in Nat /\ DOMAIN nodes = 1..Len(nodes) /\ Nodes = 1..Len(nodes)
          /\ Rising(nodes)
        BY NodesRise
    <2>2. n \in AboveIn(nodes)[m]
        BY <1>1, <1>2, AboveIs
    <2>3. \A k \in DOMAIN nodes : \A r \in AboveIn(nodes)[k] : r < k /\ nodes[k].parent # 0
        BY <2>1, AboveIsBefore
    <2>4. n < m /\ nodes[m].parent # 0
        BY <1>1, <2>1, <2>2, <2>3
    <2>5. nodes[m].parent \in Nodes /\ nodes[m].parent < m
        <3>1. nodes[m].parent \in Nat /\ nodes[m].parent < m /\ m \in 1..Len(nodes)
            BY <1>1, <2>1 DEF Rising
        <3> QED BY <2>1, <2>4, <3>1
    <2>6. AboveIn(nodes)[m] = UpFrom(AboveIn(nodes), nodes, m)
        BY <1>1, <2>1, AboveUnfolds
    <2>7. n = nodes[m].parent \/ n \in AboveIn(nodes)[nodes[m].parent]
        BY <2>2, <2>4, <2>6 DEF UpFrom
    <2>8. n <= nodes[m].parent
        <3>1. PICK p \in Nat, k \in Nat : p = nodes[m].parent /\ k = n
            BY <2>1, <2>5
        <3>2. k = p \/ k < p
            BY <2>1, <2>3, <2>5, <2>7, <3>1
        <3>3. k <= p
            BY <3>2
        <3> QED BY <3>1, <3>3
    <2>9. nodes[m].kind \in TreeKinds
        BY <1>1, <2>4 DEF DocumentsInv, NodeSound
    <2> QED BY <2>4, <2>5, <2>8, <2>9
<1> QED BY <1>1, <1>2

LEMMA NodeOf ==
    ASSUME DocumentsInv, NEW h \in DOMAIN handles, handles[h].class \in {"XmlNode", "raw node"}
    PROVE  /\ Node(h) \in Nodes
           /\ Usable(h) => Alive(Node(h)) /\ nodes[Node(h)].kind \in TreeKinds
<1>1. DocumentsTypeOK /\ KeepsItsKind(handles[h], nodes)
    BY DEF DocumentsInv
<1>2. handles[h].at # <<>>
    BY <1>1 DEF KeepsItsKind
<1>3. handles[h].at[1] \in Range(handles[h].at) /\ handles[h].at[1] \in Nodes
    BY <1>1, <1>2, DocumentTypes
<1>4. nodes[handles[h].at[1]].kind \in TreeKinds \cup {"namespace"}
    BY <1>1, <1>3 DEF KeepsItsKind, Loaders
<1> QED BY <1>3, <1>4 DEF Node, Usable

\* An object of nodes that are there, which owns none of them.
LEMMA PointersKept ==
    ASSUME DocumentsInv, process = "runs", UNCHANGED <<nodes, cut, wild, gone, process>>,
           NEW class \in {"XmlNode", "raw node", "XmlNodeList"},
           NEW at \in Seq(Nodes), at # <<>> \/ class = "XmlNodeList",
           \A n \in Range(at) : nodes[n].kind \in TreeKinds \cup {"namespace"},
           Keep(class, at, FALSE)
    PROVE  DocumentsInv'
<1>1. class \in XmlClasses
    BY DEF XmlClasses, Owners
<1>2. /\ Object(class, at, FALSE).class = class /\ Object(class, at, FALSE).at = at
      /\ Object(class, at, FALSE).owns = FALSE
    BY DEF Object
<1>3. KeepsItsKind(Object(class, at, FALSE), nodes)
    BY <1>2 DEF KeepsItsKind, Loaders
<1>4. \A r \in Nodes : ~Owns(Object(class, at, FALSE), nodes, r)
    BY <1>2 DEF Owns
<1>5. FALSE \in BOOLEAN
    OBVIOUS
<1> QED BY <1>1, <1>3, <1>4, <1>5, ViewKept

LEMMA PointerKept ==
    ASSUME DocumentsInv, process = "runs", UNCHANGED <<nodes, cut, wild, gone, process>>,
           NEW class \in {"XmlNode", "raw node", "XmlNodeList"}, NEW n \in Nodes,
           nodes[n].kind \in TreeKinds \cup {"namespace"}, Keep(class, <<n>>, FALSE)
    PROVE  DocumentsInv'
<1>1. <<n>> \in Seq(Nodes) /\ <<n>> # <<>>
    <2>1. <<n>> \in Seq(Nodes)
        BY SeqOfOne
    <2> QED BY <2>1, RangeOfOne
<1>2. \A m \in Range(<<n>>) : nodes[m].kind \in TreeKinds \cup {"namespace"}
    BY RangeOfOne
<1> QED BY <1>1, <1>2, PointersKept

LEMMA NeighboursIs ==
    ASSUME DocumentsInv, NEW n \in Nodes
    PROVE  \A m \in Neighbours(n) : m \in Nodes /\ nodes[m].kind \in TreeKinds
<1>1. DocumentsTypeOK
    BY DEF DocumentsInv
<1>2. ASSUME NEW p, NEW kinds \in SUBSET TreeKinds, NEW s, s = Parts(p, kinds)
      PROVE  /\ \A m \in Ends(s) : m \in Nodes /\ nodes[m].kind \in TreeKinds
             /\ \A m \in Adjacent(n, s) : m \in Nodes /\ nodes[m].kind \in TreeKinds
    <2>1. s \in Seq(Nodes) /\ \A m \in Range(s) : m \in Nodes /\ nodes[m].kind \in kinds
        BY <1>1, <1>2, PartsIs
    <2>2. Len(s) \in Nat /\ DOMAIN s = 1..Len(s)
        BY <2>1, LenProperties
    <2>3. \A i \in 1..Len(s) : s[i] \in Range(s)
        BY <2>2 DEF Range
    <2>4. ASSUME NEW m \in Ends(s) PROVE m \in Range(s)
        <3>1. s # <<>> /\ (m = s[1] \/ m = s[Len(s)])
            BY <2>4 DEF Ends
        <3>2. Len(s) \in Nat \ {0}
            BY <2>1, <3>1, EmptySeq
        <3>3. 1 \in 1..Len(s) /\ Len(s) \in 1..Len(s)
            BY <3>2
        <3> QED BY <2>3, <3>1, <3>3
    <2>5. ASSUME NEW m \in Adjacent(n, s) PROVE m \in Range(s)
        <3>1. PICK i \in 1..(Len(s) - 1) : {s[i], s[i + 1]} = {n, m}
            BY <2>5 DEF Adjacent
        <3>2. i \in 1..Len(s) /\ i + 1 \in 1..Len(s)
            BY <2>2
        <3>3. m = s[i] \/ m = s[i + 1]
            BY <3>1
        <3> QED BY <2>3, <3>2, <3>3
    <2> QED BY <2>1, <2>4, <2>5
<1>3. /\ {"attribute"} \in SUBSET TreeKinds /\ {"element", "text"} \in SUBSET TreeKinds
    BY DEF TreeKinds
<1>4. \A m \in Ends(Children(n)) : m \in Nodes /\ nodes[m].kind \in TreeKinds
    BY <1>2, <1>3 DEF Children
<1> DEFINE kinds == IF nodes[n].kind = "attribute" THEN {"attribute"} ELSE {"element", "text"}
           up    == nodes[n].parent
<1>5. \A m \in Adjacent(n, Parts(up, kinds)) : m \in Nodes /\ nodes[m].kind \in TreeKinds
    BY <1>2, <1>3
<1>6. up # 0 => up \in Nodes /\ nodes[up].kind \in TreeKinds
    <2>1. /\ Len(nodes) \in Nat /\ Nodes = 1..Len(nodes) /\ DOMAIN nodes = 1..Len(nodes)
          /\ Rising(nodes)
        BY NodesRise
    <2>2. up \in Nat /\ up < n /\ n \in 1..Len(nodes)
        BY <2>1 DEF Rising
    <2>3. up # 0 => up \in Nodes
        BY <2>1, <2>2
    <2>4. up # 0 => nodes[up].kind \in TreeKinds
        BY DEF DocumentsInv, NodeSound
    <2> QED BY <2>3, <2>4
<1>7. Neighbours(n) = Ends(Children(n))
                      \cup (IF up = 0 THEN {} ELSE {up} \cup Adjacent(n, Parts(up, kinds)))
    BY DEF Neighbours
<1> HIDE DEF up, kinds
<1> QED BY <1>4, <1>5, <1>6, <1>7

LEMMA OnlyOne ==
    ASSUME NEW a \in NodeType
    PROVE  /\ <<a>> \in Seq(NodeType) /\ <<a>> # <<>> /\ DOMAIN <<a>> = {1} /\ <<a>>[1] = a
OBVIOUS

LEMMA AllocationIs ==
    ASSUME NEW kind \in Kinds, NEW parent \in Nat, NEW doc \in Nat
    PROVE  /\ Allocation(kind, parent, doc) \in NodeType
           /\ Allocation(kind, parent, doc).kind = kind
           /\ Allocation(kind, parent, doc).parent = parent
           /\ Allocation(kind, parent, doc).doc = doc
           /\ Allocation(kind, parent, doc).freed = 0
BY DEF Allocation, NodeType

\* A node that an object of its own owns.
LEMMA NodeMade ==
    ASSUME DocumentsInv, process = "runs", UNCHANGED <<cut, wild, gone, process>>,
           NEW kind \in Kinds, NEW doc \in Nat, nodes' = Append(nodes, Allocation(kind, 0, doc)),
           doc # 0 => doc \in DOMAIN handles /\ handles[doc].class \in {"XmlDocument", "Xml2"},
           NEW class \in XmlClasses, Keep(class, <<NextNode>>, TRUE),
           \/ class = "XmlNode" /\ kind \in TreeKinds
           \/ class = "XmlXPathResult" /\ kind = "namespace"
    PROVE  DocumentsInv'
<1>1. DocumentsTypeOK
    BY DEF DocumentsInv
<1>2. PICK a \in NodeType : a = Allocation(kind, 0, doc)
    BY AllocationIs
<1>3. a.kind = kind /\ a.parent = 0 /\ a.doc = doc /\ a.freed = 0
    BY <1>2, AllocationIs
<1> DEFINE made == <<a>>
<1>4. made \in Seq(NodeType) /\ made # <<>> /\ DOMAIN made = {1} /\ made[1] = a
    BY OnlyOne
<1>5. nodes' = nodes \o made
    <2>1. nodes \in Seq(NodeType)
        BY <1>1, DocumentTypes
    <2> QED BY <1>2, <2>1, AppendIs
<1> HIDE DEF made
<1>6. /\ Len(nodes) \in Nat /\ Nodes = 1..Len(nodes) /\ cut \subseteq Nodes
    BY <1>1, DocumentTypes DEF DocumentsTypeOK
<1>7. Len(nodes) + 1 \notin cut /\ NextNode = Len(nodes) + 1
    BY <1>6 DEF NextNode
<1>8. \A h \in DOMAIN handles : h \in DOMAIN handles' /\ handles'[h] = handles[h]
    <2>1. Nodes \subseteq Nodes' /\ NextNode \in Nodes'
        <3>1. nodes \in Seq(NodeType)
            BY <1>1, DocumentTypes
        <3>2. PICK t : t = nodes \o made
            OBVIOUS
        <3>3. DOMAIN t = 1..(Len(nodes) + Len(made)) /\ DOMAIN made = 1..Len(made) /\ Len(made) \in Nat
            BY <1>4, <3>1, <3>2, ConcatIs
        <3>4. 1 \in 1..Len(made)
            BY <1>4, <3>3
        <3>5. Nodes' = 1..(Len(nodes) + Len(made))
            BY <1>5, <3>2, <3>3 DEF Nodes
        <3> QED BY <1>6, <1>7, <3>3, <3>4, <3>5
    <2>2. <<NextNode>> \in Seq(Nodes')
        BY <2>1
    <2>3. TRUE \in BOOLEAN
        OBVIOUS
    <2> QED BY <1>1, <2>1, <2>2, <2>3, ObjectKept
<1>9. KeepsItsKind(Object(class, << 1 >>, TRUE), made)
    <2>1. Range(<< 1 >>) = {1} /\ << 1 >> # <<>>
        BY RangeOfOne
    <2>2. /\ Object(class, << 1 >>, TRUE).at = << 1 >> /\ Object(class, << 1 >>, TRUE).class = class
          /\ Object(class, << 1 >>, TRUE).owns = TRUE
        BY DEF Object
    <2>3. class \in Range(Destroyed) /\ class \notin Loaders
        BY DestroyedIs DEF Loaders
    <2> QED BY <1>3, <1>4, <2>1, <2>2, <2>3 DEF KeepsItsKind
<1>10. \A i \in DOMAIN made :
           /\ made[i].freed = IF Len(nodes) + i \in cut' THEN 1 ELSE 0
           /\ i # 1 => /\ made[i].kind \in TreeKinds
                       /\ \E j \in DOMAIN made : /\ made[i].parent = Len(nodes) + j /\ j < i
                                                 /\ made[j].kind \in TreeKinds
           /\ made[i].doc # 0 => /\ made[i].doc \in DOMAIN handles'
                                 /\ handles'[made[i].doc].class \in {"XmlDocument", "Xml2"}
    BY <1>3, <1>4, <1>7, <1>8
<1>11. made[1].parent = 0 /\ (class = "XmlXPathResult" => made[1].kind = "namespace")
    BY <1>3, <1>4
<1>12. TRUE \in BOOLEAN
    OBVIOUS
<1> QED BY <1>4, <1>5, <1>9, <1>10, <1>11, <1>12, TreeMade

\* What is parsed is a tree whose parents come first.
LEMMA TextIs ==
    ASSUME NEW text \in Texts
    PROVE  /\ Len(text) \in Nat /\ DOMAIN text = 1..Len(text) /\ 1 \in DOMAIN text
           /\ text[1].parent = 0
<1>1. text \in Seq([kind : TreeKinds, parent : Nat]) /\ text # <<>> /\ text[1].parent = 0
    BY DocumentsAssumption
<1> QED BY <1>1

LEMMA PieceIs ==
    ASSUME NEW text \in Texts, NEW i \in DOMAIN text
    PROVE  /\ text[i].kind \in TreeKinds /\ text[i].parent \in Nat
           /\ i # 1 => text[i].parent \in 1..(i - 1)
<1>1. /\ text \in Seq([kind : TreeKinds, parent : Nat])
      /\ text # <<>> /\ text[1].parent = 0
      /\ \A k \in 2..Len(text) : text[k].parent \in 1..(k - 1)
    BY DocumentsAssumption
<1>2. Len(text) \in Nat /\ i \in 1..Len(text)
    BY TextIs
<1>3. text[i] \in [kind : TreeKinds, parent : Nat]
    <2>1. PICK Piece : Piece = [kind : TreeKinds, parent : Nat]
        OBVIOUS
    <2>2. text \in Seq(Piece)
        BY <1>1, <2>1
    <2>3. text[i] \in Piece
        BY <1>2, <2>2
    <2> QED BY <2>1, <2>3
<1>4. i # 1 => i \in 2..Len(text)
    BY <1>2
<1> QED BY <1>1, <1>3, <1>4

LEMMA DocumentMade ==
    ASSUME DocumentsInv, process = "runs", MakeDocument, UNCHANGED <<gone, process>>
    PROVE  DocumentsInv'
<1>1. DocumentsTypeOK
    BY DEF DocumentsInv
<1>2. UNCHANGED <<cut, wild, gone, process>>
    BY DEF MakeDocument
<1>3. CASE Keep("XmlDocument", <<>>, TRUE) /\ UNCHANGED nodes
    <2>1. "XmlDocument" \in XmlClasses /\ <<>> \in Seq(Nodes) /\ TRUE \in BOOLEAN
        BY DEF XmlClasses, Owners
    <2>2. Range(<<>>) = {}
        BY RangeOfOne
    <2>3. /\ Object("XmlDocument", <<>>, TRUE).at = <<>>
          /\ Object("XmlDocument", <<>>, TRUE).class = "XmlDocument"
          /\ Object("XmlDocument", <<>>, TRUE).owns = TRUE
        BY DEF Object
    <2>4. KeepsItsKind(Object("XmlDocument", <<>>, TRUE), nodes)
        BY <2>2, <2>3, DestroyedIs DEF KeepsItsKind, Loaders
    <2>5. \A r \in Nodes : ~Owns(Object("XmlDocument", <<>>, TRUE), nodes, r)
        BY <2>2, <2>3 DEF Owns
    <2>6. UNCHANGED <<nodes, cut, wild, gone, process>>
        BY <1>2, <1>3
    <2> QED BY <1>3, <2>1, <2>4, <2>5, <2>6, ViewKept
<1>4. CASE \E class \in {"XmlDocument", "Xml2"}, text \in Texts :
               /\ Keep(class, <<NextNode>>, class = "XmlDocument")
               /\ nodes' = nodes \o Parsed(text, NextId)
    <2>1. PICK class \in {"XmlDocument", "Xml2"}, text \in Texts :
              /\ Keep(class, <<NextNode>>, class = "XmlDocument")
              /\ nodes' = nodes \o Parsed(text, NextId)
        BY <1>4
    <2>2. PICK owns \in BOOLEAN : owns = (class = "XmlDocument")
        OBVIOUS
    <2>3. Keep(class, <<NextNode>>, owns) /\ (owns <=> class = "XmlDocument")
        BY <2>1, <2>2, Zenon
    <2>4. PICK made : made = Parsed(text, NextId)
        OBVIOUS
    <2>5. /\ Len(nodes) \in Nat /\ Nodes = 1..Len(nodes) /\ cut \subseteq Nodes
          /\ Len(handles) \in Nat
        BY <1>1, DocumentTypes DEF DocumentsTypeOK
    <2>6. /\ NextNode = Len(nodes) + 1 /\ NextId = Len(handles) + 1 /\ NextId \in Nat /\ NextNode \in Nat
        BY <2>5 DEF NextNode, NextId
    <2>7. PICK d \in Nat : d = NextId
        BY <2>6
    <2>8. PICK k \in Nat : k = Len(text)
        BY TextIs
    <2>9. /\ DOMAIN made = 1..k /\ 1 \in 1..k /\ made # <<>>
          /\ \A i \in 1..k : /\ made[i].kind = text[i].kind /\ made[i].doc = d /\ made[i].freed = 0
                             /\ made[i].parent = IF text[i].parent = 0 THEN 0
                                                ELSE Len(nodes) + text[i].parent
        <3>1. DOMAIN text = 1..k /\ 1 \in 1..k
            BY <2>8, TextIs
        <3> DEFINE up(i)   == IF text[i].parent = 0 THEN 0 ELSE Len(nodes) + text[i].parent
                   piece(i) == [kind |-> text[i].kind, parent |-> up(i), doc |-> d, freed |-> 0]
        <3>2. made = [i \in 1..k |-> piece(i)]
            BY <2>4, <2>7, <3>1 DEF Parsed, Allocation
        <3>3. \A i \in 1..k : /\ piece(i).kind = text[i].kind /\ piece(i).doc = d
                              /\ piece(i).freed = 0 /\ piece(i).parent = up(i)
            <4> HIDE DEF up
            <4> QED OBVIOUS
        <3>4. DOMAIN made = 1..k /\ \A i \in 1..k : made[i] = piece(i)
            <4> HIDE DEF piece
            <4> QED BY <3>2
        <3>5. made # <<>>
            <4>1. 1 \in DOMAIN made
                BY <3>1, <3>4
            <4> QED BY <4>1
        <3>6. \A i \in 1..k : /\ made[i].kind = text[i].kind /\ made[i].doc = d
                              /\ made[i].freed = 0 /\ made[i].parent = up(i)
            <4> HIDE DEF piece, up
            <4> QED BY <3>3, <3>4
        <3> QED BY <3>1, <3>4, <3>5, <3>6
    <2>10. \A i \in 1..k : /\ text[i].kind \in TreeKinds /\ text[i].parent \in Nat
                           /\ i # 1 => text[i].parent \in 1..(i - 1)
        <3> TAKE i \in 1..k
        <3>1. i \in DOMAIN text
            BY <2>8, TextIs
        <3> QED BY <3>1, PieceIs
    <2>11. text[1].parent = 0 /\ made[1].parent = 0
        <3>1. text[1].parent = 0
            BY TextIs
        <3>2. made[1].parent = IF text[1].parent = 0 THEN 0 ELSE Len(nodes) + text[1].parent
            BY <2>9
        <3> QED BY <3>1, <3>2
    <2>12. made \in Seq(NodeType)
        <3>1. ASSUME NEW i \in 1..k
              PROVE  made[i] \in NodeType
            <4>1. text[i].kind \in Kinds
                BY <2>10 DEF Kinds
            <4>2. made[i].parent \in Nat
                BY <2>5, <2>9, <2>10
            <4>3. made[i] = [kind |-> text[i].kind, parent |-> made[i].parent, doc |-> d, freed |-> 0]
                BY <2>4, <2>7, <2>9 DEF Parsed, Allocation
            <4> QED BY <4>1, <4>2, <4>3 DEF NodeType
        <3>2. made = [i \in 1..k |-> made[i]]
            BY <2>4, <2>9 DEF Parsed
        <3>3. made \in [1..k -> NodeType]
            BY <3>1, <3>2
        <3>4. \E n \in Nat : made \in [1..n -> NodeType]
            BY <3>3
        <3> QED BY <3>4, SeqDef
    <2>13. nodes' = nodes \o made
        BY <2>1, <2>4
    <2>14. class \in XmlClasses
        BY DEF XmlClasses, Owners
    <2>15. NextNode \in Nodes' /\ Nodes \subseteq Nodes'
        <3>1. nodes \in Seq(NodeType)
            BY <1>1, DocumentTypes
        <3>2. DOMAIN (nodes \o made) = 1..(Len(nodes) + Len(made))
            BY <2>12, <3>1, ConcatIs
        <3>3. Len(made) = k
            BY <2>9, <2>12
        <3>4. Nodes' = 1..(Len(nodes) + k)
            BY <2>13, <3>2, <3>3 DEF Nodes
        <3>5. k >= 1
            BY <2>9
        <3> QED BY <2>5, <2>6, <3>4, <3>5
    <2>16. NextId \in DOMAIN handles' /\ handles'[NextId].class = class
        <3>1. <<NextNode>> \in Seq(Nodes')
            BY <2>15
        <3>2. NextId \in DOMAIN handles' /\ handles'[NextId] = Object(class, <<NextNode>>, owns)
            BY <1>1, <2>3, <2>14, <2>15, <3>1, ObjectKept
        <3> QED BY <3>2 DEF Object
    <2>17. KeepsItsKind(Object(class, << 1 >>, owns), made)
        <3>1. Range(<< 1 >>) = {1} /\ << 1 >> # <<>>
            BY RangeOfOne
        <3>2. /\ Object(class, << 1 >>, owns).at = << 1 >> /\ Object(class, << 1 >>, owns).class = class
              /\ Object(class, << 1 >>, owns).owns = owns
            BY DEF Object
        <3>3. made[1].kind \in TreeKinds
            BY <2>9, <2>10
        <3>4. owns => class \in Range(Destroyed)
            BY <2>3, DestroyedIs
        <3> QED BY <3>1, <3>2, <3>3, <3>4 DEF KeepsItsKind, Loaders
    <2>18. \A i \in DOMAIN made :
               /\ made[i].freed = IF Len(nodes) + i \in cut' THEN 1 ELSE 0
               /\ i # 1 => /\ made[i].kind \in TreeKinds
                           /\ \E j \in DOMAIN made : /\ made[i].parent = Len(nodes) + j /\ j < i
                                                     /\ made[j].kind \in TreeKinds
               /\ made[i].doc # 0 => /\ made[i].doc \in DOMAIN handles'
                                     /\ handles'[made[i].doc].class \in {"XmlDocument", "Xml2"}
        <3> TAKE i \in DOMAIN made
        <3>1. i \in 1..k /\ i \in Nat
            BY <2>9
        <3>2. made[i].freed = 0 /\ made[i].doc = d
            BY <2>9, <3>1
        <3>3. \A j \in 1..k : made[j].kind \in TreeKinds
            BY <2>9, <2>10
        <3>4. Len(nodes) + i \notin cut'
            BY <1>2, <2>5, <3>1
        <3>5. made[i].doc \in DOMAIN handles' /\ handles'[made[i].doc].class \in {"XmlDocument", "Xml2"}
            BY <2>7, <2>16, <3>2
        <3>6. i # 1 => \E j \in DOMAIN made : /\ made[i].parent = Len(nodes) + j /\ j < i
                                              /\ made[j].kind \in TreeKinds
            <4> SUFFICES ASSUME i # 1
                         PROVE  \E j \in DOMAIN made : /\ made[i].parent = Len(nodes) + j /\ j < i
                                                        /\ made[j].kind \in TreeKinds
                OBVIOUS
            <4>1. PICK j \in 1..(i - 1) : j = text[i].parent
                BY <2>10, <3>1
            <4>2. j \in 1..k /\ j < i /\ j # 0
                BY <3>1
            <4>3. made[i].parent = Len(nodes) + j
                BY <2>9, <3>1, <4>1, <4>2
            <4> QED BY <2>9, <3>3, <4>2, <4>3
        <3> QED BY <2>9, <3>1, <3>2, <3>3, <3>4, <3>5, <3>6
    <2>19. /\ made[1].parent = 0 /\ class # "XmlXPathResult" /\ (owns \/ class = "Xml2")
        BY <2>3, <2>11
    <2>20. cut' = cut /\ UNCHANGED <<wild, gone, process>>
        BY <1>2
    <2> QED BY <2>3, <2>9, <2>12, <2>13, <2>14, <2>17, <2>18, <2>19, <2>20, TreeMade
<1> QED BY <1>3, <1>4 DEF MakeDocument

LEMMA NodeCreated ==
    ASSUME DocumentsInv, process = "runs", NEW h \in DOMAIN handles, CreateNode(h),
           UNCHANGED <<gone, process>>
    PROVE  DocumentsInv'
<1>1. PICK kind \in {"element", "text"}, doc \in {0, h} :
          nodes' = Append(nodes, Allocation(kind, 0, doc))
    BY DEF CreateNode
<1>2. /\ handles[h].class = "XmlDocument" /\ Keep("XmlNode", <<NextNode>>, TRUE)
      /\ UNCHANGED <<cut, wild, gone, process>>
    BY DEF CreateNode
<1>3. DOMAIN handles = 1..Len(handles) /\ Len(handles) \in Nat
    BY DocumentTypes DEF DocumentsInv
<1>4. kind \in Kinds /\ kind \in TreeKinds /\ doc \in Nat /\ "XmlNode" \in XmlClasses
    BY <1>3 DEF Kinds, TreeKinds, XmlClasses
<1>5. doc # 0 => doc \in DOMAIN handles /\ handles[doc].class \in {"XmlDocument", "Xml2"}
    BY <1>2
<1> QED BY <1>1, <1>2, <1>4, <1>5, NodeMade

LEMMA RootKept ==
    ASSUME DocumentsInv, process = "runs", NEW h \in DOMAIN handles, RootElement(h),
           UNCHANGED <<gone, process>>
    PROVE  DocumentsInv'
<1>1. /\ handles[h].class \in {"XmlDocument", "Xml2"} /\ handles[h].at # <<>>
      /\ UNCHANGED <<nodes, cut, wild, gone, process>>
    BY DEF RootElement
<1>2. PICK class \in {"XmlNode", "raw node"} : Keep(class, handles[h].at, FALSE)
    BY DEF RootElement
<1>3. handles[h].at \in Seq(Nodes)
    BY DocumentTypes DEF DocumentsInv
<1>4. \A n \in Range(handles[h].at) : nodes[n].kind \in TreeKinds \cup {"namespace"}
    BY <1>1 DEF DocumentsInv, KeepsItsKind, Loaders
<1>5. class \in {"XmlNode", "raw node", "XmlNodeList"}
    OBVIOUS
<1>6. PICK at \in Seq(Nodes) : at = handles[h].at
    BY <1>3
<1>7. Keep(class, at, FALSE) /\ at # <<>>
      /\ \A n \in Range(at) : nodes[n].kind \in TreeKinds \cup {"namespace"}
    BY <1>1, <1>2, <1>4, <1>6
<1> QED BY <1>1, <1>5, <1>7, PointersKept

LEMMA Navigated ==
    ASSUME DocumentsInv, process = "runs", NEW h \in DOMAIN handles, Navigate(h),
           UNCHANGED <<gone, process>>
    PROVE  DocumentsInv'
<1>1. /\ handles[h].class \in {"XmlNode", "raw node"}
      /\ UNCHANGED <<nodes, cut, wild, gone, process>>
    BY DEF Navigate
<1>2. PICK n \in Neighbours(Node(h)) : Keep("XmlNode", <<n>>, FALSE)
    BY DEF Navigate
<1>3. Node(h) \in Nodes
    BY <1>1, NodeOf
<1>4. n \in Nodes /\ nodes[n].kind \in TreeKinds
    BY <1>3, NeighboursIs
<1>5. "XmlNode" \in {"XmlNode", "raw node", "XmlNodeList"}
      /\ nodes[n].kind \in TreeKinds \cup {"namespace"}
    BY <1>4
<1> QED BY <1>1, <1>2, <1>4, <1>5, PointerKept

LEMMA Enumerated ==
    ASSUME DocumentsInv, process = "runs", NEW h \in DOMAIN handles, Enumerate(h),
           UNCHANGED <<gone, process>>
    PROVE  DocumentsInv'
<1>1. DocumentsTypeOK
    BY DEF DocumentsInv
<1>2. UNCHANGED <<nodes, cut, wild, gone, process>>
    BY DEF Enumerate
<1>3. PICK below : below = Parts(Node(h), {"element"})
    OBVIOUS
<1>4. handles' = handles \o [i \in DOMAIN below |-> Object("raw node", <<below[i]>>, FALSE)]
    BY <1>3 DEF Enumerate
<1>5. below \in Seq(Nodes) /\ \A m \in Range(below) : nodes[m].kind = "element"
    <2>1. /\ below \in Seq(Nodes)
          /\ \A m \in Range(below) : nodes[m].kind \in {"element"}
        BY <1>1, <1>3, PartsIs
    <2> QED BY <2>1
<1>6. Len(below) \in Nat /\ DOMAIN below = 1..Len(below)
    BY <1>5, LenProperties
<1>7. \A i \in DOMAIN below : below[i] \in Range(below)
    BY DEF Range
<1>8. \A m \in Range(below) : m \in Nodes
    BY <1>5, ValuesOfSeq
<1> DEFINE more == [i \in DOMAIN below |-> Object("raw node", <<below[i]>>, FALSE)]
<1>9. ASSUME NEW i \in DOMAIN below
      PROVE  /\ more[i] \in ObjectType(Nodes)
             /\ more[i].class = "raw node" /\ more[i].at = <<below[i]>> /\ more[i].owns = FALSE
             /\ Range(more[i].at) = {below[i]} /\ more[i].at # <<>>
    <2>1. PICK s : s = <<below[i]>>
        OBVIOUS
    <2>2. s \in Seq(Nodes)
        <3>1. below[i] \in Nodes
            BY <1>7, <1>8
        <3> QED BY <2>1, <3>1, SeqOfOne
    <2>3. Range(s) = {below[i]} /\ s # <<>>
        BY <2>1, RangeOfOne
    <2>5. more[i] = Object("raw node", s, FALSE)
        BY <2>1
    <2> HIDE DEF more
    <2>4. PICK class \in XmlClasses : class = "raw node"
        BY DEF XmlClasses
    <2>6. PICK owns \in BOOLEAN : owns = FALSE
        OBVIOUS
    <2>7. /\ Object(class, s, owns) \in ObjectType(Nodes)
          /\ Object(class, s, owns).class = class /\ Object(class, s, owns).at = s
          /\ Object(class, s, owns).owns = owns
        BY <2>2 DEF Object, ObjectType
    <2>8. more[i] = Object(class, s, owns)
        BY <2>4, <2>5, <2>6
    <2> QED BY <2>1, <2>3, <2>4, <2>6, <2>7, <2>8
<1>10. more \in Seq(ObjectType(Nodes)) /\ DOMAIN more = DOMAIN below
    <2>1. DOMAIN more = DOMAIN below /\ more = [i \in DOMAIN below |-> more[i]]
        OBVIOUS
    <2> HIDE DEF more
    <2>2. more \in [1..Len(below) -> ObjectType(Nodes)]
        BY <1>6, <1>9, <2>1
    <2>3. \E n \in Nat : more \in [1..n -> ObjectType(Nodes)]
        BY <1>6, <2>2
    <2> QED BY <2>1, <2>3, SeqDef
<1>11. handles' = handles \o more
    BY <1>4
<1> HIDE DEF more
<1>12. \A i \in DOMAIN more : KeepsItsKind(more[i], nodes)
    <2> TAKE i \in DOMAIN more
    <2>1. /\ more[i].class = "raw node" /\ more[i].owns = FALSE
          /\ Range(more[i].at) = {below[i]} /\ more[i].at # <<>>
        BY <1>9, <1>10
    <2>2. nodes[below[i]].kind = "element"
        BY <1>5, <1>7, <1>10
    <2> QED BY <2>1, <2>2 DEF KeepsItsKind, Loaders, TreeKinds
<1>13. \A i \in DOMAIN more : \A r \in Nodes : ~Owns(more[i], nodes, r)
    BY <1>9, <1>10 DEF Owns
<1> QED BY <1>2, <1>10, <1>11, <1>12, <1>13, ViewsKept

LEMMA ChildrenListed ==
    ASSUME DocumentsInv, process = "runs", NEW h \in DOMAIN handles, ListChildren(h),
           UNCHANGED <<gone, process>>
    PROVE  DocumentsInv'
<1>1. DocumentsTypeOK
    BY DEF DocumentsInv
<1>2. UNCHANGED <<nodes, cut, wild, gone, process>>
    BY DEF ListChildren
<1>3. PICK at : at = Parts(Node(h), {"element"})
    OBVIOUS
<1>4. Keep("XmlNodeList", at, FALSE)
    BY <1>3 DEF ListChildren
<1>5. at \in Seq(Nodes) /\ \A m \in Range(at) : nodes[m].kind \in {"element"}
    BY <1>1, <1>3, PartsIs
<1>6. \A m \in Range(at) : nodes[m].kind \in TreeKinds \cup {"namespace"}
    BY <1>5 DEF TreeKinds
<1>7. "XmlNodeList" \in {"XmlNode", "raw node", "XmlNodeList"}
    OBVIOUS
<1> QED BY <1>2, <1>4, <1>5, <1>6, <1>7, PointersKept

LEMMA ContentSet ==
    ASSUME DocumentsInv, process = "runs", NEW h \in DOMAIN handles, SetContent(h),
           UNCHANGED <<gone, process>>
    PROVE  DocumentsInv'
<1>1. DocumentsTypeOK
    BY DEF DocumentsInv
<1>2. PICK n \in Nodes : n = Node(h)
    BY NodeOf DEF SetContent
<1> DEFINE below == Subtree(n) \ ({n} \cup UNION {Subtree(a) : a \in Range(Attributes(n))})
           text  == Allocation("text", n, nodes[n].doc)
<1>3. /\ nodes[n].kind = "element"
      /\ nodes' \in {Freed(below), Append(Freed(below), text)}
      /\ cut' = cut \cup below
      /\ UNCHANGED <<handles, wild, gone, process>>
    BY <1>2 DEF SetContent
<1>4. PICK ns : ns = below
    OBVIOUS
<1>5. ns \in SUBSET Nodes /\ \A m \in ns : Alive(m) /\ nodes[m].parent # 0
    <2>1. \A m \in Subtree(n) : m \in Nodes /\ Alive(m) /\ (m # n => nodes[m].parent # 0)
        BY SubtreeIs
    <2> QED BY <1>4, <2>1
<1>6. /\ nodes' = Freed(ns) \/ nodes' = Append(Freed(ns), text)
      /\ cut' = cut \cup ns
    BY <1>3, <1>4
<1> HIDE DEF below
<1>7. Freed(ns) \in Seq(NodeType)
    BY <1>1, <1>5, FreedIs
<1>8. CASE nodes' = Freed(ns)
    <2> DEFINE made == <<>>
    <2>1. made \in Seq(NodeType) /\ DOMAIN made = {}
        OBVIOUS
    <2>2. nodes' = Freed(ns) \o made
        BY <1>7, <1>8, ConcatEmptySeq
    <2> HIDE DEF made
    <2>3. \A i \in DOMAIN made :
              /\ made[i].freed = 0 /\ made[i].kind \in TreeKinds
              /\ made[i].parent \in Nodes /\ nodes[made[i].parent].kind \in TreeKinds
              /\ made[i].doc # 0 => /\ made[i].doc \in DOMAIN handles
                                    /\ handles[made[i].doc].class \in {"XmlDocument", "Xml2"}
        BY <2>1
    <2> QED BY <1>3, <1>5, <1>6, <2>1, <2>2, <2>3, NodesEdited
<1>9. CASE nodes' = Append(Freed(ns), text)
    <2>1. n \in Nat /\ nodes[n].doc \in Nat /\ "text" \in Kinds
        BY <1>1, DocumentTypes DEF Kinds, TreeKinds
    <2>2. PICK a \in NodeType : a = text
        BY <2>1, AllocationIs
    <2>3. a.kind = "text" /\ a.parent = n /\ a.doc = nodes[n].doc /\ a.freed = 0
        BY <2>1, <2>2, AllocationIs
    <2> DEFINE made == <<a>>
    <2>4. made \in Seq(NodeType) /\ DOMAIN made = {1} /\ made[1] = a
        BY OnlyOne
    <2>5. nodes' = Freed(ns) \o made
        BY <1>7, <1>9, <2>2, AppendIs
    <2> HIDE DEF made, text
    <2>6. NodeSound(n, nodes, handles)
        BY DEF DocumentsInv
    <2>7. \A i \in DOMAIN made :
              /\ made[i].freed = 0 /\ made[i].kind \in TreeKinds
              /\ made[i].parent \in Nodes /\ nodes[made[i].parent].kind \in TreeKinds
              /\ made[i].doc # 0 => /\ made[i].doc \in DOMAIN handles
                                    /\ handles[made[i].doc].class \in {"XmlDocument", "Xml2"}
        BY <1>3, <2>3, <2>4, <2>6 DEF NodeSound, TreeKinds
    <2> QED BY <1>3, <1>5, <1>6, <2>4, <2>5, <2>7, NodesEdited
<1> QED BY <1>6, <1>8, <1>9

LEMMA AttributeSet ==
    ASSUME DocumentsInv, process = "runs", NEW h \in DOMAIN handles, SetAttribute(h),
           UNCHANGED <<gone, process>>
    PROVE  DocumentsInv'
<1>1. DocumentsTypeOK
    BY DEF DocumentsInv
<1>2. PICK n \in Nodes : n = Node(h)
    BY NodeOf DEF SetAttribute
<1> DEFINE attribute == Allocation("attribute", n, nodes[n].doc)
<1>3. /\ nodes[n].kind = "element" /\ nodes' = Append(nodes, attribute)
      /\ UNCHANGED <<handles, cut, wild, gone, process>>
    BY <1>2 DEF SetAttribute
<1>4. nodes \in Seq(NodeType) /\ Len(nodes) \in Nat /\ Nodes = 1..Len(nodes)
    BY <1>1, DocumentTypes
<1>5. Freed({}) = nodes
    <2>1. Freed({}) = [m \in Nodes |-> nodes[m]]
        BY DEF Freed
    <2>2. nodes = [m \in 1..Len(nodes) |-> nodes[m]]
        BY <1>4
    <2> QED BY <1>4, <2>1, <2>2
<1>6. n \in Nat /\ nodes[n].doc \in Nat /\ "attribute" \in Kinds
    BY <1>1, DocumentTypes DEF Kinds, TreeKinds
<1>7. PICK a \in NodeType : a = attribute
    BY <1>6, AllocationIs
<1>8. a.kind = "attribute" /\ a.parent = n /\ a.doc = nodes[n].doc /\ a.freed = 0
    BY <1>6, <1>7, AllocationIs
<1> DEFINE made == <<a>>
<1>9. made \in Seq(NodeType) /\ DOMAIN made = {1} /\ made[1] = a
    BY OnlyOne
<1>10. nodes' = Freed({}) \o made
    BY <1>3, <1>4, <1>5, <1>7, AppendIs
<1> HIDE DEF made, attribute
<1>11. NodeSound(n, nodes, handles)
    BY DEF DocumentsInv
<1>12. \A i \in DOMAIN made :
           /\ made[i].freed = 0 /\ made[i].kind \in TreeKinds
           /\ made[i].parent \in Nodes /\ nodes[made[i].parent].kind \in TreeKinds
           /\ made[i].doc # 0 => /\ made[i].doc \in DOMAIN handles
                                 /\ handles[made[i].doc].class \in {"XmlDocument", "Xml2"}
    BY <1>3, <1>8, <1>9, <1>11 DEF NodeSound, TreeKinds
<1>13. PICK ns : ns = {}
    OBVIOUS
<1>14. /\ ns \in SUBSET Nodes /\ cut' = cut \cup ns
       /\ \A m \in ns : Alive(m) /\ nodes[m].parent # 0
       /\ nodes' = Freed(ns) \o made
    BY <1>3, <1>10, <1>13
<1> QED BY <1>3, <1>9, <1>12, <1>14, NodesEdited

LEMMA AttributeRemoved ==
    ASSUME DocumentsInv, process = "runs", NEW h \in DOMAIN handles, RemoveAttribute(h),
           UNCHANGED <<gone, process>>
    PROVE  DocumentsInv'
<1>1. DocumentsTypeOK
    BY DEF DocumentsInv
<1>2. PICK n \in Nodes : n = Node(h)
    BY NodeOf DEF RemoveAttribute
<1>3. PICK a \in Range(Attributes(n)) : nodes' = Freed({a}) /\ cut' = cut \cup {a}
    BY <1>2 DEF RemoveAttribute
<1>4. UNCHANGED <<handles, wild, gone, process>>
    BY DEF RemoveAttribute
<1>5. a \in Nodes /\ nodes[a].parent = n /\ Alive(a)
    BY <1>1, PartsIs DEF Attributes
<1>6. n # 0
    BY <1>1, DocumentTypes
<1>7. PICK ns : ns = {a}
    OBVIOUS
<1>8. /\ ns \in SUBSET Nodes /\ cut' = cut \cup ns
      /\ \A m \in ns : Alive(m) /\ nodes[m].parent # 0
      /\ nodes' = Freed(ns)
    BY <1>3, <1>5, <1>6, <1>7
<1> DEFINE made == <<>>
<1>9. made \in Seq(NodeType) /\ DOMAIN made = {}
    OBVIOUS
<1>10. nodes' = Freed(ns) \o made
    <2>1. Freed(ns) \in Seq(NodeType)
        BY <1>1, <1>8, FreedIs
    <2> QED BY <1>8, <2>1, ConcatEmptySeq
<1> HIDE DEF made
<1>11. \A i \in DOMAIN made :
           /\ made[i].freed = 0 /\ made[i].kind \in TreeKinds
           /\ made[i].parent \in Nodes /\ nodes[made[i].parent].kind \in TreeKinds
           /\ made[i].doc # 0 => /\ made[i].doc \in DOMAIN handles
                                 /\ handles[made[i].doc].class \in {"XmlDocument", "Xml2"}
    BY <1>9
<1> QED BY <1>4, <1>8, <1>9, <1>10, <1>11, NodesEdited

LEMMA NodeCloned ==
    ASSUME DocumentsInv, process = "runs", NEW h \in DOMAIN handles, CloneNode(h),
           UNCHANGED <<gone, process>>
    PROVE  DocumentsInv'
<1>1. DocumentsTypeOK
    BY DEF DocumentsInv
<1>2. /\ handles[h].class = "XmlNode" /\ Usable(h) /\ Keep("XmlNode", <<NextNode>>, TRUE)
      /\ UNCHANGED <<cut, wild, gone, process>>
    BY DEF CloneNode
<1>3. PICK n \in Nodes : n = Node(h)
    BY <1>2, NodeOf
<1>4. Alive(n) /\ nodes[n].kind \in TreeKinds
    BY <1>2, <1>3, NodeOf
<1>5. PICK deep \in BOOLEAN :
          LET copied == IF deep THEN Subtree(Node(h)) ELSE {Node(h)}
              s      == InOrder(copied)
              copy   == [i \in DOMAIN s |->
                            Allocation(nodes[s[i]].kind,
                                       IF s[i] = Node(h) THEN 0
                                       ELSE Len(nodes) + Rank(nodes[s[i]].parent, copied), 0)]
          IN  nodes' = nodes \o copy
    BY DEF CloneNode
<1>6. PICK copied : copied = IF deep THEN Subtree(n) ELSE {n}
    OBVIOUS
<1>7. PICK s : s = InOrder(copied)
    OBVIOUS
<1> DEFINE parent(i) == IF s[i] = n THEN 0 ELSE Len(nodes) + Rank(nodes[s[i]].parent, copied)
           made == [i \in DOMAIN s |-> Allocation(nodes[s[i]].kind, parent(i), 0)]
<1>8. nodes' = nodes \o made
    BY <1>3, <1>5, <1>6, <1>7
<1>9. /\ n \in copied
      /\ \A m \in copied :
            /\ m \in Nodes
            /\ m # n => /\ n < m /\ nodes[m].parent \in Nodes
                        /\ n <= nodes[m].parent /\ nodes[m].parent < m
                        /\ nodes[m].kind \in TreeKinds
    <2>1. n \in Subtree(n)
        BY <1>4 DEF Subtree
    <2>2. CASE deep
        <3>1. copied = Subtree(n)
            BY <1>6, <2>2
        <3> QED BY <2>1, <3>1, SubtreeIs
    <2>3. CASE ~deep
        BY <1>6, <2>3
    <2> QED BY <2>2, <2>3
<1>10. copied \in SUBSET Nat /\ IsFiniteSet(copied)
    <2>1. copied \in SUBSET Nodes
        BY <1>9
    <2> QED BY <1>1, <2>1, NodesFinite
<1>11. PICK c \in Nat : c = Cardinality(copied)
    BY <1>10, InOrderIs
<1>12. /\ DOMAIN s = 1..c
       /\ \A i \in 1..c : s[i] \in copied /\ Rank(s[i], copied) = i
    BY <1>7, <1>10, <1>11, InOrderIs
<1>13. \A m \in copied : nodes[m].kind \in TreeKinds
    BY <1>4, <1>9
<1>14. \A m \in copied : m \in Nat /\ Rank(m, copied) \in 1..c
    <2> TAKE m \in copied
    <2>1. m \in Nat
        BY <1>10
    <2>2. Rank(m, copied) \in 0..Cardinality(copied) /\ Rank(m, copied) # 0
        BY <1>10, <2>1, RankIs
    <2> QED BY <1>11, <2>1, <2>2
\* The root comes first.
<1>15. Rank(n, copied) = 1
    <2>1. Rank(n, copied) \in 1..c
        BY <1>9, <1>14
    <2>2. 1 \in 1..c
        BY <2>1
    <2>3. s[1] \in copied /\ Rank(s[1], copied) = 1
        BY <1>12, <2>2
    <2>4. CASE s[1] = n
        BY <2>3, <2>4
    <2>5. CASE s[1] # n
        <3>1. n < s[1]
            BY <1>9, <2>3, <2>5
        <3>2. n \in Nat
            BY <1>9, <1>14
        <3>3. Rank(n, copied) < Rank(s[1], copied)
            BY <1>10, <2>3, <3>1, <3>2, RankIs
        <3> QED BY <2>1, <2>3, <3>3
    <2> QED BY <2>4, <2>5
<1>16. 1 \in 1..c /\ s[1] = n
    <2>1. 1 \in 1..c
        BY <1>9, <1>14, <1>15
    <2>2. s[1] \in copied /\ Rank(s[1], copied) = 1
        BY <1>12, <2>1
    <2> SUFFICES ASSUME s[1] # n PROVE FALSE
        BY <2>1
    <2>3. n < s[1] /\ n \in Nat
        BY <1>9, <1>14, <2>2
    <2>4. Rank(n, copied) < Rank(s[1], copied)
        BY <1>10, <2>2, <2>3, RankIs
    <2> QED BY <1>15, <2>2, <2>4
\* The others come after their parents.
<1>17. ASSUME NEW i \in 1..c, i # 1
       PROVE  /\ s[i] # n /\ Rank(nodes[s[i]].parent, copied) \in 1..c
              /\ Rank(nodes[s[i]].parent, copied) < i
    <2>1. s[i] \in copied /\ Rank(s[i], copied) = i
        BY <1>12
    <2>2. s[i] # n
        BY <1>15, <1>17, <2>1
    <2>3. PICK p : p = nodes[s[i]].parent
        OBVIOUS
    <2>4. p \in Nodes /\ n <= p /\ p < s[i]
        BY <1>9, <2>1, <2>2, <2>3
    <2>5. p \in Nat
        BY <1>1, <2>4, DocumentTypes
    <2>6. Rank(p, copied) \in 0..Cardinality(copied)
        BY <1>10, <2>5, RankIs
    <2>7. Rank(p, copied) < Rank(s[i], copied)
        BY <1>10, <2>1, <2>4, <2>5, RankIs
    <2>8. Rank(p, copied) # 0
        BY <1>9, <1>10, <2>4, <2>5, RankIs
    <2>9. Rank(p, copied) \in 1..c
        BY <1>11, <2>6, <2>8
    <2> QED BY <2>1, <2>2, <2>3, <2>7, <2>9
<1>18. /\ Len(nodes) \in Nat /\ Nodes = 1..Len(nodes) /\ cut \subseteq Nodes
       /\ \A m \in Nodes : nodes[m].kind \in Kinds
    BY <1>1, DocumentTypes DEF DocumentsTypeOK
<1>19. ASSUME NEW i \in 1..c
       PROVE  /\ made[i] \in NodeType /\ made[i].kind = nodes[s[i]].kind
              /\ made[i].kind \in TreeKinds
              /\ made[i].parent = parent(i) /\ made[i].doc = 0 /\ made[i].freed = 0
    <2>1. s[i] \in copied
        BY <1>12
    <2>2. nodes[s[i]].kind \in Kinds /\ nodes[s[i]].kind \in TreeKinds
        BY <1>9, <1>13, <1>18, <2>1
    <2>3. parent(i) \in Nat
        <3>1. CASE i = 1
            BY <1>16, <3>1
        <3>2. CASE i # 1
            <4>1. PICK r \in 1..c : r = Rank(nodes[s[i]].parent, copied)
                BY <1>17, <3>2
            <4>2. Len(nodes) + r \in Nat
                BY <1>18
            <4> QED BY <1>17, <3>2, <4>1, <4>2
        <3> QED BY <3>1, <3>2
    <2>4. made[i] = Allocation(nodes[s[i]].kind, parent(i), 0)
        BY <1>12
    <2> HIDE DEF made, parent
    <2>5. PICK k \in Kinds, p \in Nat : k = nodes[s[i]].kind /\ p = parent(i)
        BY <2>2, <2>3
    <2>6. made[i] = Allocation(k, p, 0)
        BY <2>4, <2>5
    <2>7. 0 \in Nat
        OBVIOUS
    <2>8. /\ made[i] \in NodeType /\ made[i].kind = k
          /\ made[i].parent = p /\ made[i].doc = 0 /\ made[i].freed = 0
        BY <2>6, <2>7, AllocationIs
    <2> QED BY <2>2, <2>5, <2>8
<1>20. DOMAIN made = 1..c
    BY <1>12
<1> HIDE DEF made
<1>21. /\ made[1].parent = 0 /\ made[1].kind \in TreeKinds
       /\ \A i \in 1..c : i # 1 =>
             made[i].parent = Len(nodes) + Rank(nodes[s[i]].parent, copied)
    <2>1. made[1].parent = parent(1) /\ made[1].kind \in TreeKinds
        BY <1>16, <1>19
    <2>2. parent(1) = 0
        BY <1>16
    <2>3. ASSUME NEW i \in 1..c, i # 1
          PROVE  parent(i) = Len(nodes) + Rank(nodes[s[i]].parent, copied)
        BY <1>17, <2>3
    <2>4. \A i \in 1..c : made[i].parent = parent(i)
        BY <1>19
    <2> HIDE DEF parent
    <2> QED BY <2>1, <2>2, <2>3, <2>4
<1>22. made \in Seq(NodeType) /\ made # <<>>
    <2>1. made = [i \in 1..c |-> made[i]]
        BY <1>12 DEF made
    <2> HIDE DEF made, parent
    <2>2. made \in [1..c -> NodeType]
        BY <1>19, <2>1
    <2>3. \E k \in Nat : made \in [1..k -> NodeType]
        BY <2>2
    <2>4. made \in Seq(NodeType)
        BY <2>3, SeqDef
    <2>5. 1 \in DOMAIN made
        BY <1>16, <1>20
    <2>6. DOMAIN <<>> = {}
        OBVIOUS
    <2>7. made # <<>>
        BY <2>5, <2>6
    <2> QED BY <2>4, <2>7
<1> HIDE DEF parent
<1>23. KeepsItsKind(Object("XmlNode", << 1 >>, TRUE), made)
    <2>1. Range(<< 1 >>) = {1} /\ << 1 >> # <<>>
        BY RangeOfOne
    <2>2. /\ Object("XmlNode", << 1 >>, TRUE).at = << 1 >> /\ Object("XmlNode", << 1 >>, TRUE).class = "XmlNode"
          /\ Object("XmlNode", << 1 >>, TRUE).owns = TRUE
        BY DEF Object
    <2> QED BY <1>21, <2>1, <2>2, DestroyedIs DEF KeepsItsKind, Loaders
<1>24. \A i \in DOMAIN made :
           /\ made[i].freed = IF Len(nodes) + i \in cut' THEN 1 ELSE 0
           /\ i # 1 => /\ made[i].kind \in TreeKinds
                       /\ \E j \in DOMAIN made : /\ made[i].parent = Len(nodes) + j /\ j < i
                                                 /\ made[j].kind \in TreeKinds
           /\ made[i].doc # 0 => /\ made[i].doc \in DOMAIN handles'
                                 /\ handles'[made[i].doc].class \in {"XmlDocument", "Xml2"}
    <2> TAKE i \in DOMAIN made
    <2>1. i \in 1..c /\ made[i].freed = 0 /\ made[i].doc = 0 /\ made[i].kind \in TreeKinds
        BY <1>19, <1>20
    <2>2. Len(nodes) + i \notin cut'
        <3>1. Len(nodes) + i \notin 1..Len(nodes)
            BY <1>18, <2>1
        <3> QED BY <1>2, <1>18, <3>1
    <2>3. ASSUME i # 1
          PROVE  \E j \in DOMAIN made : /\ made[i].parent = Len(nodes) + j /\ j < i
                                        /\ made[j].kind \in TreeKinds
        <3>1. PICK j \in 1..c : j = Rank(nodes[s[i]].parent, copied) /\ j < i
            BY <1>17, <2>1, <2>3
        <3>2. made[i].parent = Len(nodes) + j
            BY <1>21, <2>1, <2>3, <3>1
        <3>3. made[j].kind \in TreeKinds
            BY <1>19
        <3> QED BY <1>20, <3>1, <3>2, <3>3
    <2> QED BY <2>1, <2>2, <2>3
<1>25. "XmlNode" \in XmlClasses /\ TRUE \in BOOLEAN
    BY DEF XmlClasses
<1>26. "XmlNode" = "XmlXPathResult" => made[1].kind = "namespace"
    OBVIOUS
<1>27. (TRUE \/ "XmlNode" = "Xml2") => cut' = cut
    BY <1>2
<1> QED BY <1>2, <1>8, <1>21, <1>22, <1>23, <1>24, <1>25, <1>26, <1>27, TreeMade

LEMMA Evaluated ==
    ASSUME DocumentsInv, process = "runs", NEW h \in DOMAIN handles, Evaluate(h),
           UNCHANGED <<gone, process>>
    PROVE  DocumentsInv'
<1>1. DocumentsTypeOK
    BY DEF DocumentsInv
<1>2. UNCHANGED <<cut, wild, gone, process>>
    BY DEF Evaluate
<1>3. "XmlXPathResult" \in XmlClasses /\ TRUE \in BOOLEAN
    BY DEF XmlClasses
<1>4. CASE /\ \E kind \in TreeKinds : Keep("XmlXPathResult", Found(h, kind), TRUE)
           /\ UNCHANGED nodes
    <2>1. PICK kind \in TreeKinds : Keep("XmlXPathResult", Found(h, kind), TRUE)
        BY <1>4
    <2>2. PICK at : at = Found(h, kind)
        OBVIOUS
    <2>3. at \in Seq(Nodes) /\ \A m \in Range(at) : nodes[m].kind = kind
        BY <1>1, <2>2, FoundIs
    <2>4. /\ Object("XmlXPathResult", at, TRUE).class = "XmlXPathResult"
          /\ Object("XmlXPathResult", at, TRUE).at = at
          /\ Object("XmlXPathResult", at, TRUE).owns = TRUE
        BY DEF Object
    <2>5. KeepsItsKind(Object("XmlXPathResult", at, TRUE), nodes)
        BY <2>1, <2>3, <2>4, DestroyedIs DEF KeepsItsKind, Loaders
    <2>6. \A r \in Nodes : ~Owns(Object("XmlXPathResult", at, TRUE), nodes, r)
        <3>1. kind # "namespace"
            BY <2>1 DEF TreeKinds
        <3> QED BY <2>3, <2>4, <3>1 DEF Owns
    <2>7. Keep("XmlXPathResult", at, TRUE) /\ UNCHANGED <<nodes, cut, wild, gone, process>>
        BY <1>2, <1>4, <2>1, <2>2
    <2> QED BY <1>3, <2>3, <2>5, <2>6, <2>7, ViewKept
<1>5. CASE /\ nodes' = Append(nodes, Allocation("namespace", 0, 0))
           /\ Keep("XmlXPathResult", <<NextNode>>, TRUE)
    <2>1. PICK doc \in Nat : doc = 0
        OBVIOUS
    <2>2. "namespace" \in Kinds /\ nodes' = Append(nodes, Allocation("namespace", 0, doc))
        BY <1>5, <2>1 DEF Kinds
    <2>3. doc # 0 => doc \in DOMAIN handles /\ handles[doc].class \in {"XmlDocument", "Xml2"}
        BY <2>1
    <2> QED BY <1>2, <1>3, <1>5, <2>2, <2>3, NodeMade
<1> QED BY <1>4, <1>5 DEF Evaluate

LEMMA Selected ==
    ASSUME DocumentsInv, process = "runs", NEW h \in DOMAIN handles, Select(h),
           UNCHANGED <<gone, process>>
    PROVE  DocumentsInv'
<1>1. DocumentsTypeOK
    BY DEF DocumentsInv
<1>2. UNCHANGED <<wild, gone, process>>
    BY DEF Select
<1>3. CASE /\ \E kind \in TreeKinds :
                  Keep("XmlNodeList", Found(Context(h), kind), FALSE)
           /\ UNCHANGED <<nodes, cut>>
    <2>1. PICK kind \in TreeKinds :
              Keep("XmlNodeList", Found(Context(h), kind), FALSE)
        BY <1>3
    <2>2. PICK at : at = Found(Context(h), kind)
        OBVIOUS
    <2>3. at \in Seq(Nodes) /\ \A m \in Range(at) : nodes[m].kind = kind
        BY <1>1, <2>2, FoundIs
    <2>4. \A m \in Range(at) : nodes[m].kind \in TreeKinds \cup {"namespace"}
        BY <2>3 DEF TreeKinds
    <2>5. Keep("XmlNodeList", at, FALSE) /\ UNCHANGED <<nodes, cut, wild, gone, process>>
        BY <1>2, <1>3, <2>1, <2>2
    <2>6. "XmlNodeList" \in {"XmlNode", "raw node", "XmlNodeList"}
        OBVIOUS
    <2> QED BY <2>3, <2>4, <2>5, <2>6, PointersKept
<1>4. CASE /\ nodes' = Append(nodes, [Allocation("namespace", 0, 0) EXCEPT !.freed = 1])
           /\ cut' = cut \cup {NextNode}
           /\ Keep("XmlNodeList", <<NextNode>>, FALSE)
    <2>1. PICK a : a = [Allocation("namespace", 0, 0) EXCEPT !.freed = 1]
        OBVIOUS
    <2>2. /\ a \in NodeType
          /\ a.kind = "namespace" /\ a.parent = 0 /\ a.doc = 0 /\ a.freed = 1
        BY <2>1 DEF Allocation, NodeType, Kinds
    <2> DEFINE made == <<a>>
    <2>3. made \in Seq(NodeType) /\ made # <<>> /\ DOMAIN made = {1} /\ made[1] = a
        BY <2>2, OnlyOne
    <2>4. nodes' = nodes \o made
        <3>1. nodes \in Seq(NodeType)
            BY <1>1, DocumentTypes
        <3> QED BY <1>4, <2>1, <2>2, <3>1, AppendIs
    <2> HIDE DEF made
    <2>5. "XmlNodeList" \in XmlClasses /\ FALSE \in BOOLEAN
        BY DEF XmlClasses
    <2>6. KeepsItsKind(Object("XmlNodeList", << 1 >>, FALSE), made)
        <3>1. Range(<< 1 >>) = {1}
            BY RangeOfOne
        <3>2. /\ Object("XmlNodeList", << 1 >>, FALSE).at = << 1 >>
              /\ Object("XmlNodeList", << 1 >>, FALSE).class = "XmlNodeList"
              /\ Object("XmlNodeList", << 1 >>, FALSE).owns = FALSE
            BY DEF Object
        <3> QED BY <2>2, <2>3, <3>1, <3>2 DEF KeepsItsKind, Loaders
    <2>7. \A i \in DOMAIN made :
              /\ made[i].freed = IF Len(nodes) + i \in cut' THEN 1 ELSE 0
              /\ i # 1 => /\ made[i].kind \in TreeKinds
                          /\ \E j \in DOMAIN made : /\ made[i].parent = Len(nodes) + j /\ j < i
                                                    /\ made[j].kind \in TreeKinds
              /\ made[i].doc # 0 => /\ made[i].doc \in DOMAIN handles'
                                    /\ handles'[made[i].doc].class \in {"XmlDocument", "Xml2"}
        <3>1. Len(nodes) + 1 \in cut'
            BY <1>4 DEF NextNode
        <3> QED BY <2>2, <2>3, <3>1
    <2>8. made[1].parent = 0 /\ ("XmlNodeList" = "XmlXPathResult" => made[1].kind = "namespace")
        BY <2>2, <2>3
    <2>9. /\ FALSE \/ "XmlNodeList" = "Xml2" => cut' = cut
          /\ ~(FALSE \/ "XmlNodeList" = "Xml2") =>
                cut' = cut \cup {NextNode} /\ made[1].kind = "namespace"
        BY <1>4, <2>2, <2>3
    <2> QED BY <1>2, <1>4, <2>3, <2>4, <2>5, <2>6, <2>7, <2>8, <2>9, TreeMade
<1> QED BY <1>3, <1>4 DEF Select

LEMMA ItemKept ==
    ASSUME DocumentsInv, process = "runs", NEW h \in DOMAIN handles, Item(h),
           UNCHANGED <<gone, process>>
    PROVE  DocumentsInv'
<1>1. DocumentsTypeOK
    BY DEF DocumentsInv
<1>2. /\ handles[h].class = "XmlNodeList" /\ UNCHANGED <<nodes, cut, wild, gone, process>>
    BY DEF Item
<1>3. PICK i \in DOMAIN handles[h].at : Keep("XmlNode", <<handles[h].at[i]>>, FALSE)
    BY DEF Item
<1>4. PICK n : n = handles[h].at[i]
    OBVIOUS
<1>5. n \in Range(handles[h].at)
    BY <1>4 DEF Range
<1>6. n \in Nodes
    BY <1>1, <1>5, DocumentTypes
<1>7. nodes[n].kind \in TreeKinds \cup {"namespace"}
    BY <1>2, <1>5 DEF DocumentsInv, KeepsItsKind, Loaders
<1>8. Keep("XmlNode", <<n>>, FALSE) /\ "XmlNode" \in {"XmlNode", "raw node", "XmlNodeList"}
    BY <1>3, <1>4
<1> QED BY <1>2, <1>6, <1>7, <1>8, PointerKept

LEMMA NodeSetKept ==
    ASSUME DocumentsInv, process = "runs", NEW h \in DOMAIN handles, NodeSet(h),
           UNCHANGED <<gone, process>>
    PROVE  DocumentsInv'
<1>1. /\ handles[h].class = "XmlXPathResult" /\ UNCHANGED <<nodes, cut, wild, gone, process>>
    BY DEF NodeSet
<1>2. PICK at \in Seq(Nodes) : at = handles[h].at
    BY DocumentTypes DEF DocumentsInv
<1>3. \A n \in Range(at) : nodes[n].kind \in TreeKinds \cup {"namespace"}
    BY <1>1, <1>2 DEF DocumentsInv, KeepsItsKind, Loaders
<1>4. Keep("XmlNodeList", at, FALSE) /\ "XmlNodeList" \in {"XmlNode", "raw node", "XmlNodeList"}
    BY <1>2 DEF NodeSet
<1> QED BY <1>1, <1>3, <1>4, PointersKept

LEMMA SchemaMade ==
    ASSUME DocumentsInv, process = "runs", MakeSchema, UNCHANGED <<gone, process>>
    PROVE  DocumentsInv'
<1>1. UNCHANGED <<nodes, cut, wild, gone, process>>
    BY DEF MakeSchema
<1>2. PICK class \in {"XmlSchema", "XmlDtd"} : Keep(class, <<>>, TRUE)
    BY DEF MakeSchema
<1>3. class \in XmlClasses /\ <<>> \in Seq(Nodes) /\ TRUE \in BOOLEAN
    <2>1. class \in XmlClasses
        BY DEF XmlClasses, Owners
    <2>2. <<>> \in Seq(Nodes)
        OBVIOUS
    <2> QED BY <2>1, <2>2
<1>4. Range(<<>>) = {}
    BY RangeOfOne
<1>5. /\ Object(class, <<>>, TRUE).at = <<>> /\ Object(class, <<>>, TRUE).class = class
      /\ Object(class, <<>>, TRUE).owns = TRUE
    BY DEF Object
<1>6. KeepsItsKind(Object(class, <<>>, TRUE), nodes)
    BY <1>4, <1>5, DestroyedIs DEF KeepsItsKind
<1>7. \A r \in Nodes : ~Owns(Object(class, <<>>, TRUE), nodes, r)
    BY <1>4, <1>5 DEF Owns
<1> QED BY <1>1, <1>2, <1>3, <1>6, <1>7, ViewKept

\* A load that points to nothing but what it made, if anything.
LEMMA PointersAnew ==
    ASSUME DocumentsInv, process = "runs", UNCHANGED <<cut, wild, gone, process>>,
           NEW h \in DOMAIN handles, handles[h].class \in Loaders,
           NEW made \in Seq(NodeType), nodes' = nodes \o made,
           \A i \in DOMAIN made : /\ made[i].parent = 0 /\ made[i].doc = 0 /\ made[i].freed = 0
                                  /\ made[i].kind \in LoadedKinds,
           NEW at \in Seq({Len(nodes) + i : i \in DOMAIN made}),
           handles' = [handles EXCEPT ![h].at = at]
    PROVE  DocumentsInv'
<1>1. nodes \in Seq(NodeType)
    BY DocumentTypes DEF DocumentsInv
<1>2. PICK t : t = nodes \o made
    OBVIOUS
<1>3. \A i \in DOMAIN made : Len(nodes) + i \in DOMAIN t /\ Len(nodes) + i \notin DOMAIN nodes
    BY <1>1, <1>2, ConcatIs
<1>4. nodes' = t
    BY <1>2
<1>5. PICK S : S = {Len(nodes) + i : i \in DOMAIN made}
    OBVIOUS
<1>6. S \subseteq Nodes' /\ \A n \in S : n \notin Nodes
    BY <1>3, <1>4, <1>5 DEF Nodes
<1>7. at \in Seq(S)
    BY <1>5
<1>8. at \in Seq(Nodes')
    BY <1>6, <1>7, SeqMonotonic
<1>9. Range(at) \subseteq S
    BY <1>7, ValuesOfSeq
<1>10. \A n \in Range(at) : n \in Range(handles[h].at) \/ n \notin Nodes
    BY <1>6, <1>9
<1> QED BY <1>8, <1>10, PointersReplaced

LEMMA Loaded ==
    ASSUME DocumentsInv, process = "runs", NEW h \in DOMAIN handles, Load(h),
           UNCHANGED <<gone, process>>
    PROVE  DocumentsInv'
<1>1. DocumentsTypeOK
    BY DEF DocumentsInv
<1>2. UNCHANGED <<cut, wild, gone, process>>
    BY DEF Load
<1>3. nodes \in Seq(NodeType) /\ Len(nodes) \in Nat /\ Nodes = 1..Len(nodes)
    BY <1>1, DocumentTypes
<1>4. handles[h].class \in Loaders
    BY DEF Load, Loaders
<1>5. \A kind \in LoadedKinds : kind \in Kinds
    BY DEF LoadedKinds, Kinds
<1>6. "parser" \in LoadedKinds /\ "schema" \in LoadedKinds /\ "dtd" \in LoadedKinds
    BY DEF LoadedKinds
\* One allocation.
<1>7. ASSUME NEW kind \in LoadedKinds, nodes' = Append(nodes, Allocation(kind, 0, 0)),
             handles' = [handles EXCEPT ![h].at = <<NextNode>>]
      PROVE  DocumentsInv'
    <2>1. kind \in Kinds /\ 0 \in Nat
        BY <1>5
    <2>2. PICK a \in NodeType : a = Allocation(kind, 0, 0)
        BY <2>1, AllocationIs
    <2>3. a.kind = kind /\ a.parent = 0 /\ a.doc = 0 /\ a.freed = 0
        BY <2>1, <2>2, AllocationIs
    <2> DEFINE made == <<a>>
    <2>4. made \in Seq(NodeType) /\ DOMAIN made = {1} /\ made[1] = a
        BY OnlyOne
    <2>5. nodes' = nodes \o made
        BY <1>3, <1>7, <2>2, AppendIs
    <2> HIDE DEF made
    <2>6. \A i \in DOMAIN made : /\ made[i].parent = 0 /\ made[i].doc = 0 /\ made[i].freed = 0
                                 /\ made[i].kind \in LoadedKinds
        BY <2>3, <2>4
    <2>7. PICK S : S = {Len(nodes) + i : i \in DOMAIN made}
        OBVIOUS
    <2>8. NextNode \in S
        BY <2>4, <2>7 DEF NextNode
    <2>9. PICK at : at = <<NextNode>>
        OBVIOUS
    <2>10. at \in Seq(S)
        BY <2>8, <2>9, SeqOfOne
    <2>11. at \in Seq({Len(nodes) + i : i \in DOMAIN made})
        BY <2>7, <2>10
    <2>12. handles' = [handles EXCEPT ![h].at = at]
        BY <1>7, <2>9
    <2> QED BY <1>2, <1>4, <2>4, <2>5, <2>6, <2>11, <2>12, PointersAnew
\* A parser and a schema.
<1>8. ASSUME nodes' = nodes \o <<Allocation("parser", 0, 0), Allocation("schema", 0, 0)>>,
             handles' = [handles EXCEPT ![h].at = <<NextNode, NextNode + 1>>]
      PROVE  DocumentsInv'
    <2>1. "parser" \in Kinds /\ "schema" \in Kinds /\ 0 \in Nat
        BY <1>5, <1>6
    <2>2. PICK a \in NodeType : a = Allocation("parser", 0, 0)
        BY <2>1, AllocationIs
    <2>3. a.kind = "parser" /\ a.parent = 0 /\ a.doc = 0 /\ a.freed = 0
        BY <2>1, <2>2, AllocationIs
    <2>4. PICK b \in NodeType : b = Allocation("schema", 0, 0)
        BY <2>1, AllocationIs
    <2>5. b.kind = "schema" /\ b.parent = 0 /\ b.doc = 0 /\ b.freed = 0
        BY <2>1, <2>4, AllocationIs
    <2> DEFINE made == <<a, b>>
    <2>6. made \in Seq(NodeType) /\ DOMAIN made = 1..2 /\ made[1] = a /\ made[2] = b
        OBVIOUS
    <2>7. nodes' = nodes \o made
        BY <1>8, <2>2, <2>4
    <2> HIDE DEF made
    <2>8. \A i \in DOMAIN made : /\ made[i].parent = 0 /\ made[i].doc = 0 /\ made[i].freed = 0
                                 /\ made[i].kind \in LoadedKinds
        <3>1. \A i \in DOMAIN made : i = 1 \/ i = 2
            BY <2>6
        <3> QED BY <1>6, <2>3, <2>5, <2>6, <3>1
    <2>9. PICK S : S = {Len(nodes) + i : i \in DOMAIN made}
        OBVIOUS
    <2>10. NextNode \in S /\ NextNode + 1 \in S
        <3>1. 1 \in 1..2 /\ 2 \in 1..2
            OBVIOUS
        <3>2. Len(nodes) + 1 \in S /\ Len(nodes) + 2 \in S
            BY <2>6, <2>9, <3>1
        <3>3. NextNode = Len(nodes) + 1 /\ NextNode + 1 = Len(nodes) + 2
            BY <1>3 DEF NextNode
        <3> QED BY <3>2, <3>3
    <2>11. PICK at : at = <<NextNode, NextNode + 1>>
        OBVIOUS
    <2>12. at \in Seq(S)
        <3>1. PICK x \in S, y \in S : x = NextNode /\ y = NextNode + 1
            BY <2>10
        <3>2. <<x, y>> \in Seq(S)
            OBVIOUS
        <3> QED BY <2>11, <3>1, <3>2
    <2>13. at \in Seq({Len(nodes) + i : i \in DOMAIN made})
        BY <2>9, <2>12
    <2>14. handles' = [handles EXCEPT ![h].at = at]
        BY <1>8, <2>11
    <2> QED BY <1>2, <1>4, <2>6, <2>7, <2>8, <2>13, <2>14, PointersAnew
\* Nothing is made.
<1> DEFINE none == <<>>
<1>9. /\ none \in Seq(NodeType) /\ DOMAIN none = {} /\ nodes \o none = nodes
    <2>1. nodes \o <<>> = nodes
        BY <1>3, ConcatEmptySeq
    <2> QED BY <2>1
<1> HIDE DEF none
<1>10. \A i \in DOMAIN none : /\ none[i].parent = 0 /\ none[i].doc = 0 /\ none[i].freed = 0
                              /\ none[i].kind \in LoadedKinds
    BY <1>9
<1>11. ASSUME UNCHANGED nodes, handles' = [handles EXCEPT ![h].at = <<>>]
       PROVE  DocumentsInv'
    <2>1. PICK at : at = <<>>
        OBVIOUS
    <2>2. at \in Seq(Nodes')
        BY <2>1
    <2>3. Range(at) = {}
        BY <2>1, RangeOfOne
    <2>4. nodes' = nodes \o none
        BY <1>9, <1>11
    <2>5. handles' = [handles EXCEPT ![h].at = at]
        BY <1>11, <2>1
    <2>6. \A n \in Range(at) : n \in Range(handles[h].at) \/ n \notin Nodes
        BY <2>3
    <2> QED BY <1>2, <1>4, <1>9, <1>10, <2>2, <2>4, <2>5, <2>6, PointersReplaced
<1>12. ASSUME UNCHANGED nodes,
              handles' = [handles EXCEPT ![h].at = InOrder({n \in Range(@) : nodes[n].kind = "schema"})]
       PROVE  DocumentsInv'
    <2>1. PICK S : S = {n \in Range(handles[h].at) : nodes[n].kind = "schema"}
        OBVIOUS
    <2>2. S \subseteq Range(handles[h].at)
        BY <2>1
    <2>3. S \in SUBSET Nodes
        BY <1>1, <2>2, DocumentTypes
    <2>4. S \in SUBSET Nat /\ IsFiniteSet(S)
        BY <1>1, <2>3, NodesFinite
    <2>5. PICK at : at = InOrder(S)
        OBVIOUS
    <2>6. at \in Seq(S) /\ Range(at) \subseteq S
        BY <2>4, <2>5, InOrderIs
    <2>7. Nodes' = Nodes
        BY <1>12 DEF Nodes
    <2>8. at \in Seq(Nodes')
        BY <2>3, <2>6, <2>7, SeqMonotonic
    <2>9. handles' = [handles EXCEPT ![h].at = at]
        BY <1>12, <2>1, <2>5
    <2>10. nodes' = nodes \o none
        BY <1>9, <1>12
    <2>11. \A n \in Range(at) : n \in Range(handles[h].at) \/ n \notin Nodes
        BY <2>2, <2>6
    <2> QED BY <1>2, <1>4, <1>9, <1>10, <2>8, <2>9, <2>10, <2>11, PointersReplaced
<1> QED BY <1>6, <1>7, <1>8, <1>11, <1>12 DEF Load

LEMMA AboveIsNext == Above' = AboveIn(nodes')
BY DEF Above, AboveIn, Nodes

LEMMA FreedOnceStays ==
    ASSUME FreedOnce, UNCHANGED <<nodes, handles, cut, gone>>
    PROVE  FreedOnce'
<1>1. Above' = Above
    <2>1. Above = AboveIn(nodes) /\ Above' = AboveIn(nodes')
        BY AboveIs, AboveIsNext
    <2> QED BY <2>1
<1>2. ASSUME NEW n, NEW k
      PROVE  /\ Belongs(n, k)' <=> Belongs(n, k)
             /\ Done(k)' <=> Done(k)
    BY <1>1 DEF Belongs, Done, Nodes
<1> QED BY <1>2 DEF FreedOnce, Nodes

\* The call that uses what was freed.
LEMMA UsedAnyway ==
    ASSUME DocumentsInv, NEW h \in DOMAIN handles, UseAnyway(h)
    PROVE  DocumentsInv'
<1>1. process' = "undefined" /\ UNCHANGED <<nodes, handles, cut, wild, gone>>
    BY DEF UseAnyway
<1>2. DocumentsTypeOK'
    <2>1. DocumentsTypeOK
        BY DEF DocumentsInv
    <2> QED BY <1>1, <2>1 DEF DocumentsTypeOK, Nodes
<1>3. /\ \A n \in Nodes' : NodeSound(n, nodes', handles')
      /\ \A k \in DOMAIN handles' : KeepsItsKind(handles'[k], nodes')
      /\ OwnedAreRoots(nodes', handles', cut') /\ OneOwner(nodes', handles')
      /\ \A r \in Nodes' : nodes'[r].parent = 0 => Rooted(r, nodes', handles', cut')
      /\ wild' \subseteq cut' /\ process' # "runs"
    BY <1>1 DEF DocumentsInv, Nodes
<1>4. FreedOnce'
    BY <1>1, FreedOnceStays DEF DocumentsInv
<1> QED BY <1>2, <1>3, <1>4 DEF DocumentsInv

\* A call of the script keeps the invariant.
LEMMA CallKept ==
    ASSUME DocumentsInv, process = "runs", DocumentCall
    PROVE  DocumentsInv'
<1>1. CASE UNCHANGED <<gone, process>>
    <2>1. CASE MakeDocument
        BY <1>1, <2>1, DocumentMade
    <2>2. CASE MakeSchema
        BY <1>1, <2>2, SchemaMade
    <2>3. ASSUME NEW h \in DOMAIN handles,
                 \/ RootElement(h) \/ CreateNode(h) \/ Navigate(h) \/ Enumerate(h) \/ ListChildren(h)
                 \/ SetContent(h) \/ SetAttribute(h) \/ RemoveAttribute(h) \/ CloneNode(h)
                 \/ Evaluate(h) \/ Select(h) \/ Item(h) \/ NodeSet(h) \/ Load(h)
          PROVE  DocumentsInv'
        <3>1. CASE RootElement(h)
            BY <1>1, <3>1, RootKept
        <3>2. CASE CreateNode(h)
            BY <1>1, <3>2, NodeCreated
        <3>3. CASE Navigate(h)
            BY <1>1, <3>3, Navigated
        <3>4. CASE Enumerate(h)
            BY <1>1, <3>4, Enumerated
        <3>5. CASE ListChildren(h)
            BY <1>1, <3>5, ChildrenListed
        <3>6. CASE SetContent(h)
            BY <1>1, <3>6, ContentSet
        <3>7. CASE SetAttribute(h)
            BY <1>1, <3>7, AttributeSet
        <3>8. CASE RemoveAttribute(h)
            BY <1>1, <3>8, AttributeRemoved
        <3>9. CASE CloneNode(h)
            BY <1>1, <3>9, NodeCloned
        <3>10. CASE Evaluate(h)
            BY <1>1, <3>10, Evaluated
        <3>11. CASE Select(h)
            BY <1>1, <3>11, Selected
        <3>12. CASE Item(h)
            BY <1>1, <3>12, ItemKept
        <3>13. CASE NodeSet(h)
            BY <1>1, <3>13, NodeSetKept
        <3>14. CASE Load(h)
            BY <1>1, <3>14, Loaded
        <3> QED BY <2>3, <3>1, <3>2, <3>3, <3>4, <3>5, <3>6, <3>7, <3>8, <3>9, <3>10,
                   <3>11, <3>12, <3>13, <3>14
    <2>4. CASE \E h \in DOMAIN handles : UseAnyway(h)
        BY <2>4, UsedAnyway
    <2> QED BY <2>1, <2>2, <2>3, <2>4 DEF DocumentCall
<1>2. CASE \E h \in DOMAIN handles : UseAnyway(h)
    BY <1>2, UsedAnyway
<1> QED BY <1>1, <1>2 DEF DocumentCall

-----------------------------------------------------------------------------
(* The end of the process. *)

\* What is above a node is part of a tree.
LEMMA AboveKinds ==
    ASSUME DocumentsInv, NEW n \in Nodes, NEW r \in Above[n]
    PROVE  r \in Nodes /\ nodes[r].kind \in TreeKinds /\ nodes[n].parent # 0
<1>1. /\ Len(nodes) \in Nat /\ DOMAIN nodes = 1..Len(nodes) /\ Nodes = 1..Len(nodes)
      /\ Rising(nodes)
    BY NodesRise
<1>2. n \in DOMAIN nodes /\ r \in AboveIn(nodes)[n]
    BY <1>1, AboveIs
<1>3. \A k \in DOMAIN nodes : \A q \in AboveIn(nodes)[k] :
         /\ q \in DOMAIN nodes /\ q < k /\ nodes[k].parent # 0
         /\ \E p \in DOMAIN nodes : nodes[p].parent # 0 /\ nodes[p].parent = q
    BY <1>1, AboveIsBefore
<1>4. PICK p \in DOMAIN nodes : nodes[p].parent # 0 /\ nodes[p].parent = r
    BY <1>2, <1>3
<1>5. NodeSound(p, nodes, handles)
    BY <1>1 DEF DocumentsInv
<1>6. nodes[r].kind \in TreeKinds
    BY <1>4, <1>5 DEF NodeSound
<1> QED BY <1>1, <1>2, <1>3, <1>6

\* A node is in the tree of one root,
LEMMA RootOf ==
    ASSUME DocumentsInv, NEW n \in Nodes
    PROVE  /\ \E r \in Nodes : nodes[r].parent = 0 /\ (n = r \/ r \in Above[n])
           /\ \A r, s \in Nodes :
                 /\ nodes[r].parent = 0 /\ (n = r \/ r \in Above[n])
                 /\ nodes[s].parent = 0 /\ (n = s \/ s \in Above[n])
                 => r = s
<1>1. /\ Len(nodes) \in Nat /\ DOMAIN nodes = 1..Len(nodes) /\ Nodes = 1..Len(nodes)
      /\ Rising(nodes)
    BY NodesRise
<1>2. \A k \in DOMAIN nodes :
         /\ \E r \in DOMAIN nodes : nodes[r].parent = 0 /\ (k = r \/ r \in AboveIn(nodes)[k])
         /\ \A r, s \in DOMAIN nodes :
               /\ nodes[r].parent = 0 /\ (k = r \/ r \in AboveIn(nodes)[k])
               /\ nodes[s].parent = 0 /\ (k = s \/ s \in AboveIn(nodes)[k])
               => r = s
    BY <1>1, OneRoot
<1>3. n \in DOMAIN nodes /\ Nodes = DOMAIN nodes
    BY <1>1
<1>4. Above = AboveIn(nodes)
    BY AboveIs
<1> QED BY <1>2, <1>3, <1>4

\* and of one owner.
LEMMA BelongsToOne ==
    ASSUME DocumentsInv, NEW n \in Nodes, NEW h \in DOMAIN handles, NEW k \in DOMAIN handles,
           Belongs(n, h), Belongs(n, k)
    PROVE  h = k
<1>1. PICK r \in Nodes : Owns(handles[h], nodes, r) /\ (n = r \/ r \in Above[n])
    BY DEF Belongs
<1>2. PICK s \in Nodes : Owns(handles[k], nodes, s) /\ (n = s \/ s \in Above[n])
    BY DEF Belongs
<1>3. OwnedAreRoots(nodes, handles, cut) /\ OneOwner(nodes, handles)
    BY DEF DocumentsInv
<1>4. nodes[r].parent = 0 /\ nodes[s].parent = 0
    BY <1>1, <1>2, <1>3 DEF OwnedAreRoots, Nodes
<1>5. r = s
    BY <1>1, <1>2, <1>4, RootOf
<1> QED BY <1>1, <1>2, <1>3, <1>5 DEF OneOwner, Nodes

\* The holders are destroyed one after the other.
LEMMA NotDoneYet ==
    ASSUME DocumentsTypeOK, gone < Len(Destroyed)
    PROVE  /\ gone \in 0..4 /\ gone + 1 \in 1..5
           /\ \A h : handles[h].class = Destroyed[gone + 1] => ~Done(h)
           /\ \A h : Done(h) => handles[h].class \in {"XmlDtd", "XmlSchema", "XmlXPathResult", "XmlNode"}
           /\ Destroyed[gone + 1] = "XmlXPathResult" =>
                 \A h : Done(h) => handles[h].class \in Loaders
<1>1. gone \in 0..4 /\ gone + 1 \in 1..5
    BY DestroyedIs DEF DocumentsTypeOK
<1>2. \A i \in 1..gone : i \in 1..4 /\ i # gone + 1
    BY <1>1
<1>3. \A i \in 1..4 : i = 1 \/ i = 2 \/ i = 3 \/ i = 4
    OBVIOUS
<1>4. \A i \in 1..5 : i = 1 \/ i = 2 \/ i = 3 \/ i = 4 \/ i = 5
    OBVIOUS
<1>5. \A i \in 1..gone : Destroyed[i] # Destroyed[gone + 1]
    <2> TAKE i \in 1..gone
    <2>1. i = 1 \/ i = 2 \/ i = 3 \/ i = 4
        BY <1>2, <1>3
    <2>2. gone + 1 = 1 \/ gone + 1 = 2 \/ gone + 1 = 3 \/ gone + 1 = 4 \/ gone + 1 = 5
        BY <1>1, <1>4
    <2>3. i # gone + 1
        BY <1>2
    <2>4. PICK j : j = gone + 1
        OBVIOUS
    <2>5. (j = 1 \/ j = 2 \/ j = 3 \/ j = 4 \/ j = 5) /\ i # j
        BY <2>2, <2>3, <2>4
    <2>6. Destroyed[i] # Destroyed[j]
        BY <2>1, <2>5, DestroyedIs
    <2> QED BY <2>4, <2>6
<1>6. \A h : handles[h].class = Destroyed[gone + 1] => ~Done(h)
    BY <1>5 DEF Done
<1>7. \A i \in 1..gone : Destroyed[i] \in {"XmlDtd", "XmlSchema", "XmlXPathResult", "XmlNode"}
    BY <1>2, <1>3, DestroyedIs
<1>8. \A h : Done(h) => handles[h].class \in {"XmlDtd", "XmlSchema", "XmlXPathResult", "XmlNode"}
    BY <1>7 DEF Done
<1>9. ASSUME Destroyed[gone + 1] = "XmlXPathResult", NEW h, Done(h)
      PROVE  handles[h].class \in Loaders
    <2>1. PICK j \in 1..5 : j = gone + 1
        BY <1>1
    <2>2. j = 3
        BY <1>4, <1>9, <2>1, DestroyedIs
    <2>3. gone = 2
        BY <1>1, <2>1, <2>2
    <2>4. PICK i \in 1..gone : handles[h].class = Destroyed[i]
        BY <1>9 DEF Done
    <2>5. i = 1 \/ i = 2
        BY <2>3
    <2> QED BY <2>4, <2>5, DestroyedIs DEF Loaders
<1> QED BY <1>1, <1>6, <1>8, <1>9

\* The destructor of an object frees what belongs to it and is still there.
LEMMA FreedByIs ==
    ASSUME DocumentsInv, gone < Len(Destroyed),
           NEW h \in DOMAIN handles, handles[h].class = Destroyed[gone + 1], NEW n \in Nodes
    PROVE  /\ n \in FreedBy(h) <=> Belongs(n, h) /\ Alive(n)
           /\ Owns(handles[h], nodes, n) => Alive(n)
<1>1. /\ DocumentsTypeOK /\ FreedOnce /\ OwnedAreRoots(nodes, handles, cut)
      /\ KeepsItsKind(handles[h], nodes)
    BY DEF DocumentsInv
<1>2. ~Done(h)
    BY <1>1, NotDoneYet
<1>3. PICK o : o = handles[h]
    OBVIOUS
<1>4. Range(o.at) \subseteq Nodes
    BY <1>1, <1>3, DocumentTypes
<1>5. ASSUME NEW r \in Nodes, Owns(o, nodes, r)
      PROVE  Alive(r)
    <2>1. Belongs(r, h)
        BY <1>3, <1>5 DEF Belongs
    <2>2. ASSUME NEW k \in DOMAIN handles, Done(k), Belongs(r, k)
          PROVE  FALSE
        <3>1. h = k
            BY <2>1, <2>2, BelongsToOne
        <3> QED BY <1>2, <2>2, <3>1
    <2>3. r \notin cut
        BY <1>1, <1>3, <1>5 DEF OwnedAreRoots, Nodes
    <2>4. nodes[r].freed = 0
        BY <1>1, <2>2, <2>3 DEF FreedOnce
    <2> QED BY <2>4 DEF Alive
<1>6. CASE ~o.owns
    <2>1. FreedBy(h) = {}
        BY <1>3, <1>6 DEF FreedBy
    <2>2. ~Belongs(n, h)
        BY <1>3, <1>6 DEF Belongs, Owns
    <2> QED BY <1>3, <1>5, <2>1, <2>2
<1>7. CASE o.owns /\ o.class = "XmlXPathResult"
    <2>1. n \in FreedBy(h) <=> n \in Range(o.at) /\ nodes[n].kind = "namespace"
        BY <1>3, <1>7 DEF FreedBy
    <2>2. n \in FreedBy(h) <=> Owns(o, nodes, n)
        BY <1>7, <2>1 DEF Owns
    <2>3. ASSUME Belongs(n, h) PROVE Owns(o, nodes, n)
        <3>1. PICK r \in Nodes : Owns(o, nodes, r) /\ (n = r \/ r \in Above[n])
            BY <1>3, <2>3 DEF Belongs
        <3>2. nodes[r].kind = "namespace"
            BY <1>7, <3>1 DEF Owns
        <3>3. r \notin Above[n]
            <4> SUFFICES ASSUME r \in Above[n] PROVE FALSE
                OBVIOUS
            <4>1. nodes[r].kind \in TreeKinds
                BY AboveKinds
            <4> QED BY <3>2, <4>1 DEF TreeKinds
        <3> QED BY <3>1, <3>3
    <2>4. Owns(o, nodes, n) => Belongs(n, h)
        BY <1>3 DEF Belongs
    <2> QED BY <1>3, <1>5, <2>2, <2>3, <2>4
<1>8. CASE o.owns /\ o.class # "XmlXPathResult"
    <2>1. n \in FreedBy(h) <=> n \in Range(o.at) \/ \E r \in Range(o.at) : n \in Subtree(r)
        BY <1>3, <1>8 DEF FreedBy
    <2>2. \A r : Owns(o, nodes, r) <=> r \in Range(o.at)
        BY <1>8 DEF Owns
    <2>3. \A r : n \in Subtree(r) <=> Alive(n) /\ (n = r \/ r \in Above[n])
        BY DEF Subtree
    <2>4. n \in Range(o.at) => Alive(n)
        BY <1>5, <2>2
    <2>5. Belongs(n, h) <=> \E r \in Range(o.at) : n = r \/ r \in Above[n]
        BY <1>3, <1>4, <2>2 DEF Belongs
    <2> QED BY <1>3, <1>5, <2>1, <2>2, <2>3, <2>4, <2>5
<1> QED BY <1>6, <1>7, <1>8

\* It reads freed memory only where a call freed it.
LEMMA ReadByIs ==
    ASSUME DocumentsInv, gone < Len(Destroyed),
           NEW h \in DOMAIN handles, handles[h].class = Destroyed[gone + 1], NEW n \in ReadBy(h)
    PROVE  n \in cut
<1>1. /\ DocumentsTypeOK /\ FreedOnce /\ KeepsItsKind(handles[h], nodes)
      /\ \A m \in Nodes : NodeSound(m, nodes, handles)
      /\ \A k \in DOMAIN handles : KeepsItsKind(handles[k], nodes)
    BY DEF DocumentsInv
<1>2. ~Done(h)
    BY <1>1, NotDoneYet
<1>3. /\ n \in FreedBy(h) \/ (handles[h].owns /\ n \in Range(handles[h].at))
      /\ ~Alive(n) \/ DocumentGone(n)
    <2>1. PICK freed, read : /\ freed = FreedBy(h)
                             /\ read = IF handles[h].owns THEN Range(handles[h].at) ELSE {}
        OBVIOUS
    <2>2. n \in freed \cup read /\ (~Alive(n) \/ DocumentGone(n))
        BY <2>1 DEF ReadBy
    <2>3. n \in read => handles[h].owns /\ n \in Range(handles[h].at)
        BY <2>1
    <2> QED BY <2>1, <2>2, <2>3
<1>4. Range(handles[h].at) \subseteq Nodes
    BY <1>1, DocumentTypes
<1>5. n \in Nodes
    <2>1. \A r : Subtree(r) \subseteq Nodes
        BY DEF Subtree
    <2> QED BY <1>3, <1>4, <2>1 DEF FreedBy
<1>6. ~DocumentGone(n)
    <2> SUFFICES ASSUME NEW i \in 1..gone, nodes[n].doc # 0,
                        Destroyed[i] = handles[nodes[n].doc].class
                 PROVE  FALSE
        BY DEF DocumentGone
    <2>1. Done(nodes[n].doc)
        BY DEF Done
    <2>2. handles[nodes[n].doc].class \in {"XmlDtd", "XmlSchema", "XmlXPathResult", "XmlNode"}
        BY <1>1, <2>1, NotDoneYet
    <2>3. handles[nodes[n].doc].class \in {"XmlDocument", "Xml2"}
        BY <1>1, <1>5 DEF NodeSound
    <2> QED BY <2>2, <2>3
<1>7. ~Alive(n) /\ handles[h].owns /\ n \in Range(handles[h].at) /\ ~Owns(handles[h], nodes, n)
    BY <1>3, <1>5, <1>6, FreedByIs
<1>8. handles[h].class = "XmlXPathResult"
    BY <1>7 DEF Owns
<1>9. nodes[n].freed # 0
    BY <1>7 DEF Alive
<1>10. ASSUME NEW k \in DOMAIN handles, Done(k), Belongs(n, k)
       PROVE  FALSE
    <2>1. handles[k].class \in Loaders
        BY <1>1, <1>8, <1>10, NotDoneYet
    <2>2. PICK r \in Nodes : Owns(handles[k], nodes, r) /\ (n = r \/ r \in Above[n])
        BY <1>10 DEF Belongs
    <2>3. nodes[r].kind \in LoadedKinds
        BY <1>1, <2>1, <2>2 DEF Owns, KeepsItsKind
    <2>4. CASE n = r
        <3>1. nodes[n].kind \in TreeKinds \cup {"namespace"}
            BY <1>1, <1>7, <1>8 DEF KeepsItsKind, Loaders
        <3> QED BY <2>3, <2>4, <3>1 DEF TreeKinds, LoadedKinds
    <2>5. CASE r \in Above[n]
        <3>1. nodes[r].kind \in TreeKinds
            BY <1>5, <2>5, AboveKinds
        <3> QED BY <2>3, <3>1 DEF TreeKinds, LoadedKinds
    <2> QED BY <2>2, <2>4, <2>5
<1> QED BY <1>1, <1>5, <1>9, <1>10 DEF FreedOnce

LEMMA HoldersDestroyed ==
    ASSUME DocumentsInv, Destroy
    PROVE  DocumentsInv'
<1>1. /\ DocumentsTypeOK /\ FreedOnce /\ wild \subseteq cut
      /\ \A n \in Nodes : NodeSound(n, nodes, handles)
      /\ \A h \in DOMAIN handles : KeepsItsKind(handles[h], nodes)
      /\ OwnedAreRoots(nodes, handles, cut) /\ OneOwner(nodes, handles)
      /\ \A r \in Nodes : nodes[r].parent = 0 => Rooted(r, nodes, handles, cut)
    BY DEF DocumentsInv
<1>2. PICK class : class = Destroyed[gone + 1]
    OBVIOUS
<1>3. PICK ids : ids = Ids(class)
    OBVIOUS
<1>4. /\ gone < Len(Destroyed) /\ process' = "exits" /\ gone' = gone + 1
      /\ UNCHANGED <<handles, cut>>
      /\ nodes' = [n \in Nodes |->
                      [nodes[n] EXCEPT !.freed = @ + Cardinality({h \in ids : n \in FreedBy(h)})]]
      /\ wild' = wild \cup UNION {ReadBy(h) : h \in ids}
    BY <1>2, <1>3 DEF Destroy
<1>5. \A h \in ids : h \in DOMAIN handles /\ handles[h].class = Destroyed[gone + 1]
    BY <1>2, <1>3 DEF Ids
<1>6. \A h \in DOMAIN handles : handles[h].class = Destroyed[gone + 1] => h \in ids
    BY <1>2, <1>3 DEF Ids
<1>7. /\ Len(nodes) \in Nat /\ Nodes = 1..Len(nodes)
      /\ \A n \in Nodes : nodes[n] \in NodeType /\ nodes[n].freed \in Nat
    BY <1>1, DocumentTypes
\* Each node that is there is freed once if it belongs to one of them.
<1>8. PICK count : count = [n \in Nodes |-> Cardinality({h \in ids : n \in FreedBy(h)})]
    OBVIOUS
<1>9. ASSUME NEW n \in Nodes
      PROVE  count[n] = IF Alive(n) /\ \E h \in ids : Belongs(n, h) THEN 1 ELSE 0
    <2>1. count[n] = Cardinality({h \in ids : n \in FreedBy(h)})
        BY <1>8
    <2>2. \A h \in ids : n \in FreedBy(h) <=> Belongs(n, h) /\ Alive(n)
        BY <1>4, <1>5, FreedByIs
    <2>3. CASE Alive(n) /\ \E h \in ids : Belongs(n, h)
        <3>1. PICK h \in ids : Belongs(n, h)
            BY <2>3
        <3>2. \A k \in ids : Belongs(n, k) => k = h
            BY <1>5, <3>1, BelongsToOne
        <3>3. {k \in ids : n \in FreedBy(k)} = {h}
            BY <2>2, <2>3, <3>1, <3>2
        <3>4. Cardinality({h}) = 1
            BY FS_Singleton
        <3> QED BY <2>1, <2>3, <3>3, <3>4
    <2>4. CASE ~(Alive(n) /\ \E h \in ids : Belongs(n, h))
        <3>1. {k \in ids : n \in FreedBy(k)} = {}
            BY <2>2, <2>4
        <3>2. Cardinality({}) = 0
            BY FS_EmptySet
        <3> QED BY <2>1, <2>4, <3>1, <3>2
    <2> QED BY <2>3, <2>4
<1>10. nodes' = [n \in Nodes |-> [nodes[n] EXCEPT !.freed = @ + count[n]]]
    <2>1. \A n \in Nodes : count[n] = Cardinality({h \in ids : n \in FreedBy(h)})
        BY <1>8
    <2> QED BY <1>4, <2>1
<1>11. ASSUME NEW n \in Nodes
       PROVE  /\ nodes'[n] \in NodeType /\ nodes'[n].kind = nodes[n].kind
              /\ nodes'[n].parent = nodes[n].parent /\ nodes'[n].doc = nodes[n].doc
              /\ nodes'[n].freed = nodes[n].freed + count[n]
    <2>1. PICK a \in NodeType : a = nodes[n]
        BY <1>7
    <2>2. PICK c \in Nat : c = count[n]
        BY <1>9
    <2>3. a.freed + c \in Nat
        BY DEF NodeType
    <2>4. /\ [a EXCEPT !.freed = @ + c] \in NodeType
          /\ [a EXCEPT !.freed = @ + c].kind = a.kind
          /\ [a EXCEPT !.freed = @ + c].parent = a.parent
          /\ [a EXCEPT !.freed = @ + c].doc = a.doc
          /\ [a EXCEPT !.freed = @ + c].freed = a.freed + c
        BY <2>3 DEF NodeType
    <2>5. nodes'[n] = [a EXCEPT !.freed = @ + c]
        BY <1>10, <2>1, <2>2
    <2> QED BY <2>1, <2>2, <2>4, <2>5
<1>12. Nodes' = Nodes /\ DOMAIN nodes' = Nodes
    BY <1>10 DEF Nodes
<1>13. nodes' \in Seq(NodeType)
    <2>1. nodes' = [n \in Nodes |-> nodes'[n]]
        BY <1>10
    <2>2. nodes' \in [1..Len(nodes) -> NodeType]
        BY <1>7, <1>11, <2>1
    <2>3. \E k \in Nat : nodes' \in [1..k -> NodeType]
        BY <1>7, <2>2
    <2> QED BY <2>3, SeqDef
<1>14. SameNodes
    BY <1>11, <1>12 DEF SameNodes
<1>15. ASSUME NEW h \in DOMAIN handles, NEW r
       PROVE  /\ KeepsItsKind(handles[h], nodes')
              /\ Owns(handles[h], nodes', r) <=> Owns(handles[h], nodes, r)
    <2>1. Range(handles[h].at) \subseteq Nodes /\ KeepsItsKind(handles[h], nodes)
        BY <1>1, DocumentTypes
    <2> QED BY <1>14, <2>1, ObjectStays
<1>16. wild' \subseteq cut'
    <2>1. \A h \in ids : \A n \in ReadBy(h) : n \in cut
        BY <1>4, <1>5, ReadByIs
    <2> QED BY <1>1, <1>4, <2>1
<1>17. DocumentsTypeOK'
    <2>1. handles' \in Seq(ObjectType(Nodes')) /\ cut' \subseteq Nodes'
        BY <1>1, <1>4, <1>12, DocumentTypes DEF DocumentsTypeOK
    <2>2. gone' \in 0..Len(Destroyed)
        <3>1. gone \in 0..5 /\ gone < 5
            BY <1>1, <1>4, DestroyedIs DEF DocumentsTypeOK
        <3>2. gone + 1 \in 0..5
            BY <3>1
        <3> QED BY <1>4, <3>2, DestroyedIs
    <2>3. process' \in {"runs", "exits", "undefined"}
        BY <1>4
    <2>4. wild' \subseteq Nodes'
        BY <1>16, <2>1
    <2> QED BY <1>13, <2>1, <2>2, <2>3, <2>4 DEF DocumentsTypeOK, NodeType, ObjectType
<1>18. \A n \in Nodes' : NodeSound(n, nodes', handles')
    <2> TAKE n \in Nodes'
    <2>1. n \in Nodes /\ NodeSound(n, nodes, handles)
        BY <1>1, <1>12
    <2>2. nodes[n].parent # 0 => nodes[n].parent \in Nodes
        <3>1. nodes[n].parent \in Nat /\ nodes[n].parent < n /\ n \in 1..Len(nodes)
            BY <1>1, <1>7, <2>1, DocumentTypes DEF NodeSound
        <3> QED BY <1>7, <3>1
    <2> QED BY <1>4, <1>11, <2>1, <2>2 DEF NodeSound
<1>19. \A h \in DOMAIN handles' : KeepsItsKind(handles'[h], nodes')
    BY <1>4, <1>15
<1>20. OwnedAreRoots(nodes', handles', cut')
    <2> SUFFICES ASSUME NEW h \in DOMAIN handles, NEW r \in DOMAIN nodes,
                        Owns(handles[h], nodes', r)
                 PROVE  nodes'[r].parent = 0 /\ r \notin cut
        BY <1>4, <1>12 DEF OwnedAreRoots, Nodes
    <2>1. Owns(handles[h], nodes, r)
        BY <1>15
    <2>2. nodes[r].parent = 0 /\ r \notin cut
        BY <1>1, <2>1 DEF OwnedAreRoots
    <2> QED BY <1>11, <2>2 DEF Nodes
<1>21. OneOwner(nodes', handles')
    <2> SUFFICES ASSUME NEW h \in DOMAIN handles, NEW k \in DOMAIN handles, NEW r \in DOMAIN nodes,
                        Owns(handles[h], nodes', r), Owns(handles[k], nodes', r)
                 PROVE  h = k
        BY <1>4, <1>12 DEF OneOwner, Nodes
    <2>1. Owns(handles[h], nodes, r) /\ Owns(handles[k], nodes, r)
        BY <1>15
    <2> QED BY <1>1, <2>1 DEF OneOwner
<1>22. \A r \in Nodes' : nodes'[r].parent = 0 => Rooted(r, nodes', handles', cut')
    <2> SUFFICES ASSUME NEW r \in Nodes, nodes'[r].parent = 0
                 PROVE  Rooted(r, nodes', handles, cut)
        BY <1>4, <1>12
    <2>1. Rooted(r, nodes, handles, cut) /\ nodes'[r].kind = nodes[r].kind
        BY <1>1, <1>11
    <2>2. (\E h \in DOMAIN handles : Owns(handles[h], nodes, r))
             => \E h \in DOMAIN handles : Owns(handles[h], nodes', r)
        BY <1>15
    <2> QED BY <2>1, <2>2 DEF Rooted
<1>23. FreedOnce'
    <2>1. Above' = Above
        <3>1. /\ DOMAIN nodes = 1..Len(nodes) /\ Rising(nodes)
            BY NodesRise
        <3>2. DOMAIN nodes' = 1..Len(nodes) /\ \A n \in 1..Len(nodes) : nodes'[n].parent = nodes[n].parent
            BY <1>7, <1>11, <1>12
        <3>3. PICK os : os = nodes'
            OBVIOUS
        <3>4. DOMAIN os = 1..Len(nodes) /\ \A n \in 1..Len(nodes) : os[n].parent = nodes[n].parent
            BY <3>2, <3>3
        <3>5. AboveIn(os) = AboveIn(nodes)
            BY <1>7, <3>1, <3>4, AboveByParents
        <3>6. Above = AboveIn(nodes) /\ Above' = AboveIn(os)
            BY <3>3, AboveIs, AboveIsNext
        <3> QED BY <3>5, <3>6
    <2>2. \A n, h : h \in DOMAIN handles => (Belongs(n, h)' <=> Belongs(n, h))
        BY <1>4, <1>12, <1>15, <2>1 DEF Belongs
    <2>3. ASSUME NEW h \in DOMAIN handles
          PROVE  Done(h)' <=> Done(h) \/ h \in ids
        <3>1. gone \in Nat
            BY <1>1, DestroyedIs DEF DocumentsTypeOK
        <3>2. \A i : i \in 1..(gone + 1) <=> i \in 1..gone \/ i = gone + 1
            BY <3>1
        <3>3. Done(h)' <=> \E i \in 1..(gone + 1) : handles[h].class = Destroyed[i]
            BY <1>4 DEF Done
        <3> QED BY <1>5, <1>6, <3>2, <3>3 DEF Done
    <2>4. ASSUME NEW n \in Nodes
          PROVE  nodes'[n].freed = IF n \in cut \/ \E h \in DOMAIN handles : Done(h)' /\ Belongs(n, h)
                                   THEN 1 ELSE 0
        <3>1. nodes[n].freed = IF n \in cut \/ \E h \in DOMAIN handles : Done(h) /\ Belongs(n, h)
                               THEN 1 ELSE 0
            BY <1>1 DEF FreedOnce
        <3>2. nodes'[n].freed = nodes[n].freed + count[n]
            BY <1>11
        <3>3. CASE Alive(n) /\ \E h \in ids : Belongs(n, h)
            <4>1. nodes[n].freed = 0 /\ count[n] = 1
                BY <1>9, <3>3 DEF Alive
            <4>2. nodes'[n].freed = 1
                BY <3>2, <4>1
            <4>3. \E h \in DOMAIN handles : Done(h)' /\ Belongs(n, h)
                BY <1>5, <2>3, <3>3
            <4> QED BY <4>2, <4>3
        <3>4. CASE ~(Alive(n) /\ \E h \in ids : Belongs(n, h))
            <4>1. nodes'[n].freed = nodes[n].freed
                <5>1. count[n] = 0 /\ nodes[n].freed \in Nat
                    BY <1>7, <1>9, <3>4
                <5> QED BY <3>2, <5>1
            <4>2. CASE \E h \in ids : Belongs(n, h)
                <5>1. nodes[n].freed # 0
                    BY <3>4, <4>2 DEF Alive
                <5>2. \E h \in DOMAIN handles : Done(h)' /\ Belongs(n, h)
                    BY <1>5, <2>3, <4>2
                <5> QED BY <3>1, <4>1, <5>1, <5>2
            <4>3. CASE ~ \E h \in ids : Belongs(n, h)
                <5>1. (\E h \in DOMAIN handles : Done(h)' /\ Belongs(n, h))
                         <=> \E h \in DOMAIN handles : Done(h) /\ Belongs(n, h)
                    BY <2>3, <4>3
                <5> QED BY <3>1, <4>1, <5>1
            <4> QED BY <4>2, <4>3
        <3> QED BY <3>3, <3>4
    <2>5. \A n \in Nodes' : nodes'[n].freed =
              IF n \in cut' \/ \E h \in DOMAIN handles' : Done(h)' /\ Belongs(n, h)' THEN 1 ELSE 0
        <3> TAKE n \in Nodes'
        <3>1. n \in Nodes
            BY <1>12
        <3>2. (\E h \in DOMAIN handles' : Done(h)' /\ Belongs(n, h)')
                 <=> \E h \in DOMAIN handles : Done(h)' /\ Belongs(n, h)
            BY <1>4, <2>2
        <3>3. cut' = cut
            BY <1>4
        <3> QED BY <2>4, <3>1, <3>2, <3>3
    <2> QED BY <2>5 DEF FreedOnce
<1>24. process' = "runs" => gone' = 0
    BY <1>4
<1> QED BY <1>16, <1>17, <1>18, <1>19, <1>20, <1>21, <1>22, <1>23, <1>24 DEF DocumentsInv

LEMMA DocumentsStart ==
    ASSUME DocumentsInit
    PROVE  DocumentsInv
<1>1. /\ nodes = <<>> /\ handles = <<>> /\ cut = {} /\ wild = {} /\ gone = 0 /\ process = "runs"
    BY DEF DocumentsInit
<1>2. Nodes = {} /\ DOMAIN nodes = {} /\ DOMAIN handles = {}
    BY <1>1 DEF Nodes
<1>3. DocumentsTypeOK
    <2>1. \A S : <<>> \in Seq(S)
        OBVIOUS
    <2>2. gone \in 0..Len(Destroyed)
        BY <1>1, DestroyedIs
    <2> QED BY <1>1, <2>1, <2>2 DEF DocumentsTypeOK
<1>4. OwnedAreRoots(nodes, handles, cut) /\ OneOwner(nodes, handles)
    BY <1>2 DEF OwnedAreRoots, OneOwner
<1>5. FreedOnce
    BY <1>2 DEF FreedOnce
<1>6. wild \subseteq cut
    BY <1>1
<1> QED BY <1>1, <1>2, <1>3, <1>4, <1>5, <1>6 DEF DocumentsInv

\* What no call changes, no step of the other modules does.
LEMMA DocumentsLeft ==
    ASSUME DocumentsInv, UNCHANGED docVars
    PROVE  DocumentsInv'
<1>1. UNCHANGED <<nodes, handles, cut, wild, gone, process>>
    BY DEF docVars
<1>2. DocumentsTypeOK'
    <2>1. DocumentsTypeOK
        BY DEF DocumentsInv
    <2> QED BY <1>1, <2>1 DEF DocumentsTypeOK, Nodes
<1>3. /\ \A n \in Nodes' : NodeSound(n, nodes', handles')
      /\ \A k \in DOMAIN handles' : KeepsItsKind(handles'[k], nodes')
      /\ OwnedAreRoots(nodes', handles', cut') /\ OneOwner(nodes', handles')
      /\ \A r \in Nodes' : nodes'[r].parent = 0 => Rooted(r, nodes', handles', cut')
      /\ wild' \subseteq cut' /\ (process' = "runs" => gone' = 0)
    BY <1>1 DEF DocumentsInv, Nodes
<1>4. FreedOnce'
    BY <1>1, FreedOnceStays DEF DocumentsInv
<1> QED BY <1>2, <1>3, <1>4 DEF DocumentsInv

\* At the end every holder is done.
LEMMA AllDone ==
    ASSUME gone = Len(Destroyed), NEW h, handles[h].class \in Range(Destroyed)
    PROVE  Done(h)
<1>1. PICK i \in DOMAIN Destroyed : handles[h].class = Destroyed[i]
    BY DEF Range
<1>2. i \in 1..gone
    BY DestroyedIs
<1> QED BY <1>1, <1>2 DEF Done

\* What is still there then is of an Xml2, or of a schema or DTD that has
\* lost it.
LEMMA AliveIsLeaked ==
    ASSUME DocumentsInv, gone = Len(Destroyed), NEW n \in Nodes, Alive(n)
    PROVE  Leaked(n)
<1>1. /\ DocumentsTypeOK /\ FreedOnce
      /\ \A h \in DOMAIN handles : KeepsItsKind(handles[h], nodes)
      /\ \A r \in Nodes : nodes[r].parent = 0 => Rooted(r, nodes, handles, cut)
    BY DEF DocumentsInv
<1>2. n \notin cut /\ \A h \in DOMAIN handles : ~(Done(h) /\ Belongs(n, h))
    <2>1. nodes[n].freed = 0
        BY DEF Alive
    <2> QED BY <1>1, <2>1 DEF FreedOnce
<1>3. \A h \in DOMAIN handles : handles[h].owns => Done(h)
    BY <1>1, AllDone DEF KeepsItsKind
<1>4. PICK r \in Nodes : nodes[r].parent = 0 /\ (n = r \/ r \in Above[n])
    BY RootOf
<1>5. \A h \in DOMAIN handles : ~Owns(handles[h], nodes, r)
    <2> SUFFICES ASSUME NEW h \in DOMAIN handles, Owns(handles[h], nodes, r)
                 PROVE  FALSE
        OBVIOUS
    <2>1. Belongs(n, h) /\ handles[h].owns
        BY <1>4 DEF Belongs, Owns
    <2> QED BY <1>2, <1>3, <2>1
<1>6. Rooted(r, nodes, handles, cut)
    BY <1>1, <1>4
<1>7. r \in Above[n] => nodes[r].kind \in TreeKinds
    BY AboveKinds
<1>8. CASE nodes[r].kind \in LoadedKinds
    <2>1. n = r
        BY <1>4, <1>7, <1>8 DEF TreeKinds, LoadedKinds
    <2>2. \A h \in DOMAIN handles : n \notin Range(handles[h].at)
        <3> SUFFICES ASSUME NEW h \in DOMAIN handles, n \in Range(handles[h].at)
                     PROVE  FALSE
            OBVIOUS
        <3>1. KeepsItsKind(handles[h], nodes)
            BY <1>1
        <3>2. handles[h].class \in Loaders
            <4> SUFFICES ASSUME handles[h].class \notin Loaders PROVE FALSE
                OBVIOUS
            <4>1. nodes[n].kind \in TreeKinds \cup {"namespace"}
                BY <3>1 DEF KeepsItsKind
            <4> QED BY <1>8, <2>1, <4>1 DEF TreeKinds, LoadedKinds
        <3>3. handles[h].owns /\ handles[h].class # "XmlXPathResult"
            BY <3>1, <3>2 DEF KeepsItsKind, Loaders
        <3>4. Owns(handles[h], nodes, r)
            BY <2>1, <3>3 DEF Owns
        <3> QED BY <1>5, <3>4
    <2> QED BY <1>8, <2>1, <2>2 DEF Leaked, LoadedKinds
<1>9. CASE r \in cut /\ nodes[r].kind = "namespace"
    <2>1. n = r
        BY <1>4, <1>7, <1>9 DEF TreeKinds
    <2> QED BY <1>2, <1>9, <2>1
<1>10. CASE \E h \in DOMAIN handles : handles[h].class = "Xml2" /\ handles[h].at[1] = r
    <2>1. PICK h \in DOMAIN handles : handles[h].class = "Xml2" /\ handles[h].at[1] = r
        BY <1>10
    <2>2. n \in Subtree(r) /\ h \in Ids("Xml2")
        BY <1>4, <2>1 DEF Subtree, Ids
    <2> QED BY <2>1, <2>2 DEF Leaked
<1> QED BY <1>5, <1>6, <1>8, <1>9, <1>10 DEF Rooted

(* DocumentsInv holds of every state that a script and the exit reach:     *)
(* what an object owns is a root, with one owner, that no call frees; and  *)
(* a node was freed once if a call freed it or the destructor of its owner *)
(* ran, and never otherwise.                                               *)
THEOREM DocumentsInductive == Spec => []DocumentsInv
<1>1. Init => DocumentsInv
    BY DocumentsStart DEF Init
<1>2. DocumentsInv /\ [Next]_vars => DocumentsInv'
    <2> SUFFICES ASSUME DocumentsInv, [Next]_vars
                 PROVE  DocumentsInv'
        OBVIOUS
    <2>1. CASE UNCHANGED docVars
        BY <2>1, DocumentsLeft
    <2>2. CASE Xml
        BY <2>2, CallKept DEF Xml
    <2>3. CASE Destroy
        BY <2>3, HoldersDestroyed
    <2> QED BY <2>1, <2>2, <2>3 DEF Next, Script, Library, Exit, vars
<1> QED BY <1>1, <1>2, PTL DEF Spec

(* Whatever documents a script makes, copies, edits, selects from and      *)
(* lists, in trees of any depth, nothing is freed twice, the destructors   *)
(* read no memory that another freed, and at the end all is freed but the  *)
(* trees of Xml2 objects and what a second load of a schema or DTD has     *)
(* replaced.                                                               *)
THEOREM CleanedUp == Spec => []CleanedUpOnce
<1>1. DocumentsInv => CleanedUpOnce
    <2> SUFFICES ASSUME DocumentsInv PROVE CleanedUpOnce
        OBVIOUS
    <2>1. DocumentsTypeOK /\ FreedOnce /\ wild \subseteq cut /\ (process = "runs" => gone = 0)
        BY DEF DocumentsInv
    <2>2. \A n \in Nodes : nodes[n].freed <= 1
        BY <2>1 DEF FreedOnce
    <2>3. ASSUME process = "runs", NEW h \in DOMAIN handles, NEW n \in Range(handles[h].at)
          PROVE  Alive(n) \/ n \in cut
        <3>1. n \in Nodes
            BY <2>1, DocumentTypes
        <3>2. nodes[n].freed = IF n \in cut THEN 1 ELSE 0
            BY <2>1, <2>3, <3>1, FreedByCalls
        <3> QED BY <3>2 DEF Alive
    <2>4. gone = Len(Destroyed) => \A n \in Nodes : Alive(n) => Leaked(n)
        BY AliveIsLeaked
    <2> QED BY <2>1, <2>2, <2>3, <2>4 DEF CleanedUpOnce
<1> QED BY <1>1, DocumentsInductive, PTL

(* The variables of every module of native classes keep their types,       *)
(* those of the documents and the counter of calls too.                    *)
THEOREM NativesTyped == Spec => []TypeOK
<1>1. NativesInv /\ DocumentsInv => TypeOK
    BY DEF NativesInv, Typed, DocumentsInv, TypeOK
<1> QED BY <1>1, NativesInductive, DocumentsInductive, PTL
=============================================================================
