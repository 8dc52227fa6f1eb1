---------------------------- MODULE ValuesProofs ----------------------------
(***************************************************************************)
(* Who can reach which Value, for any declared types, bounds and depth of  *)
(* calls.  A call in an expression divides the arrays into its own half    *)
(* and its callers': neither leads to an array of the other.  A clone      *)
(* begins the division, with nothing but new arrays on one side; every     *)
(* statement stores within the half of the running call; and the result    *)
(* of the call joins the half it is handed to.  Where functions use arrays *)
(* of their callers by name this is not so, and what rests on it is proved *)
(* under the assumption that no array is such a global.                    *)
(***************************************************************************)
EXTENDS Values, SequenceTheorems, FiniteSetTheorems, WellFoundedInduction, TLAPS

-----------------------------------------------------------------------------
(* Numbers                                                                 *)

\* Every set of numbers has a least one.
LEMMA Least ==
    ASSUME NEW T \in SUBSET Nat, T # {}
    PROVE  \E m \in T : \A n \in T : m <= n
<1>1. PICK R : R = {ss \in Nat \X Nat : ss[1] < ss[2]}
  OBVIOUS
<1>2. IsWellFoundedOn(R, Nat)
  BY <1>1, NatLessThanWellFounded DEF OpToRel
<1>3. PICK m \in T : \A n \in T : ~ (<<n, m>> \in R)
  BY <1>2, WFMin
<1>4. ASSUME NEW n \in T PROVE m <= n
  <2>1. <<n, m>> \notin R /\ <<n, m>> \in Nat \X Nat
    BY <1>3
  <2>2. ~(n < m)
    BY <1>1, <2>1
  <2> QED
    BY <2>2
<1> QED
  BY <1>4

\* Induction, said of a set of numbers.
LEMMA SetInduction ==
    ASSUME NEW T \in SUBSET Nat, 0 \in T, \A n \in T : n + 1 \in T
    PROVE  T = Nat
<1> SUFFICES ASSUME Nat \ T # {} PROVE FALSE
  OBVIOUS
<1>1. PICK m \in Nat \ T : \A n \in Nat \ T : m <= n
  BY Least
<1>2. m # 0 /\ m - 1 \in Nat
  BY <1>1
<1>3. m - 1 \in T
  BY <1>1, <1>2
<1> QED
  BY <1>1, <1>2, <1>3

-----------------------------------------------------------------------------
(* The paths of a clone                                                    *)

\* The stages of Paths: as a function of the number of the stage.
IsStages(P, h, v, m) ==
    P = [n \in 0..m |-> IF n = 0 THEN [p \in {<<>>} |-> v] ELSE Further(h, P[n - 1])]

\* The stages exist, however many: by induction on their number.
LEMMA StagesExist ==
    ASSUME NEW h, NEW v, NEW m \in Nat
    PROVE  \E P : IsStages(P, h, v, m)
<1> DEFINE T == {n \in Nat : \E P : IsStages(P, h, v, n)}
<1>1. 0 \in T
  <2> DEFINE P == [n \in 0..0 |-> [p \in {<<>>} |-> v]]
  <2>1. IsStages(P, h, v, 0)
    BY DEF IsStages
  <2> QED
    BY <2>1
<1>2. ASSUME NEW n \in T PROVE n + 1 \in T
  <2>1. PICK P : IsStages(P, h, v, n)
    OBVIOUS
  <2> DEFINE more == Further(h, P[n])
             Q    == [k \in 0..(n + 1) |-> IF k <= n THEN P[k] ELSE more]
  <2>2. /\ n \in Nat
        /\ \A k \in 0..n : P[k] = IF k = 0 THEN [p \in {<<>>} |-> v] ELSE Further(h, P[k - 1])
    BY <2>1 DEF IsStages
  <2>3. ASSUME NEW k \in 0..(n + 1)
        PROVE  Q[k] = IF k = 0 THEN [p \in {<<>>} |-> v] ELSE Further(h, Q[k - 1])
    <3>1. CASE k = 0
      BY <2>2, <3>1
    <3>2. CASE k \in 1..n
      <4>1. k - 1 \in 0..n /\ k \in 0..n /\ k - 1 \in 0..(n + 1) /\ k <= n /\ k - 1 <= n
        BY <2>2, <3>2
      <4>2. Q[k - 1] = P[k - 1] /\ Q[k] = P[k]
        BY <4>1
      <4> QED
        BY <2>2, <3>2, <4>1, <4>2
    <3>3. CASE k = n + 1
      <4>1. k - 1 = n /\ n \in 0..(n + 1) /\ ~(k <= n) /\ k # 0
        BY <2>2, <3>3
      <4>2. Q[k] = more /\ Q[n] = P[n]
        BY <2>2, <3>3, <4>1
      <4> QED
        BY <4>1, <4>2
    <3> QED
      BY <2>2, <3>1, <3>2, <3>3
  <2>4. Q = [k \in 0..(n + 1) |-> Q[k]]
    OBVIOUS
  <2> HIDE DEF Q
  <2>5. IsStages(Q, h, v, n + 1)
    BY <2>3, <2>4 DEF IsStages
  <2> QED
    BY <2>2, <2>5
<1>3. T = Nat
  BY <1>1, <1>2, SetInduction
<1> QED
  BY <1>3

\* Paths is the last of its stages.
LEMMA PathsStages ==
    ASSUME NEW h, NEW v
    PROVE  \E P : IsStages(P, h, v, MaxValues) /\ Paths(h, v) = P[MaxValues]
<1> DEFINE P[n \in 0..MaxValues] ==
              IF n = 0 THEN [p \in {<<>>} |-> v] ELSE Further(h, P[n - 1])
<1>1. \E Q : Q = [n \in 0..MaxValues |-> IF n = 0 THEN [p \in {<<>>} |-> v] ELSE Further(h, Q[n - 1])]
  <2>1. MaxValues \in Nat
    BY ValuesAssumption
  <2>2. PICK Q : IsStages(Q, h, v, MaxValues)
    BY <2>1, StagesExist
  <2>3. Q = [n \in 0..MaxValues |-> IF n = 0 THEN [p \in {<<>>} |-> v] ELSE Further(h, Q[n - 1])]
    BY <2>2 DEF IsStages
  <2> QED
    BY <2>3
<1>2. P = [n \in 0..MaxValues |-> IF n = 0 THEN [p \in {<<>>} |-> v] ELSE Further(h, P[n - 1])]
  BY <1>1
<1>3. Paths(h, v) = P[MaxValues]
  BY DEF Paths
<1> QED
  BY <1>2, <1>3 DEF IsStages

\* A path and one more step.
LEMMA LongerPath ==
    ASSUME NEW p \in Seq(Nat), NEW k \in Nat
    PROVE  /\ Append(p, k) \in Seq(Nat) /\ Append(p, k) # <<>> /\ Len(Append(p, k)) = Len(p) + 1
           /\ Front(Append(p, k)) = p /\ Last(Append(p, k)) = k
<1>1. /\ Append(p, k) \in Seq(Nat) /\ Len(Append(p, k)) = Len(p) + 1 /\ Len(p) \in Nat
      /\ \A i \in 1..Len(p) : Append(p, k)[i] = p[i]
      /\ Append(p, k)[Len(p) + 1] = k
  OBVIOUS
<1>2. Append(p, k) # <<>>
  BY <1>1
<1>3. Last(Append(p, k)) = k
  BY <1>1 DEF Last
<1>4. PICK q : q = Front(Append(p, k))
  OBVIOUS
<1>5. q \in Seq(Nat) /\ Len(q) = Len(p) /\ \A i \in 1..Len(p) : q[i] = p[i]
  BY <1>1, <1>4 DEF Front
<1>6. q = p
  BY <1>5, SeqEqual
<1> QED
  BY <1>1, <1>2, <1>3, <1>4, <1>6

\* Every path but the empty one is a step from another, and those shorter than
\* some length have all their steps.
PathsTo(at, h, v, n) ==
    /\ <<>> \in DOMAIN at /\ at[<<>>] = v
    /\ \A p \in DOMAIN at : p \in Seq(Nat) /\ Len(p) <= n /\ at[p] \in Ids
    /\ \A p \in DOMAIN at \ {<<>>} :
          /\ Front(p) \in DOMAIN at /\ Last(p) \in DOMAIN h[at[Front(p)]].elems
          /\ at[p] = h[at[Front(p)]].elems[Last(p)]
    /\ \A p \in DOMAIN at : Len(p) < n =>
          \A k \in DOMAIN h[at[p]].elems : Append(p, k) \in DOMAIN at

\* The elements of a typed heap.
LEMMA ElementsTyped ==
    ASSUME NEW h, HeapTyped(h), NEW v \in Ids
    PROVE  /\ h[v].type \in Scalars \cup {"array", "free"} /\ DOMAIN h[v].elems \subseteq Keys
           /\ h[v].elems = [k \in DOMAIN h[v].elems |-> h[v].elems[k]]
           /\ h[v] = [type |-> h[v].type, elems |-> h[v].elems]
           /\ \A k \in DOMAIN h[v].elems : h[v].elems[k] \in Ids /\ k \in Nat
           /\ h[v].type # "array" => DOMAIN h[v].elems = {}
           /\ Elements(h, v) \subseteq Ids
<1>1. h[v] \in [type : Scalars \cup {"array", "free"}, elems : UNION {[D -> Ids] : D \in SUBSET Keys}]
  BY DEF HeapTyped
<1>2. h[v].elems \in UNION {[D -> Ids] : D \in SUBSET Keys}
  BY <1>1
<1>3. PICK D \in SUBSET Keys : h[v].elems \in [D -> Ids]
  BY <1>2
<1>4. \A k \in Keys : k \in Nat
  BY ValuesAssumption DEF Keys
<1> QED
  BY <1>1, <1>3, <1>4 DEF HeapTyped, Elements

\* One more step on every path.
LEMMA FurtherSound ==
    ASSUME NEW h, HeapTyped(h), NEW v, NEW n \in Nat, NEW at, PathsTo(at, h, v, n)
    PROVE  PathsTo(Further(h, at), h, v, n + 1)
<1> DEFINE longer == UNION {{Append(p, k) : k \in DOMAIN h[at[p]].elems} : p \in DOMAIN at}
<1>1. PICK at2 : at2 = Further(h, at)
  OBVIOUS
<1>2. at2 = [p \in DOMAIN at \cup longer |->
                IF p \in DOMAIN at THEN at[p] ELSE h[at[Front(p)]].elems[Last(p)]]
  BY <1>1 DEF Further
<1>3. DOMAIN at2 = DOMAIN at \cup longer /\ \A p \in DOMAIN at : at2[p] = at[p]
  BY <1>2
<1>4. /\ <<>> \in DOMAIN at /\ at[<<>>] = v
      /\ \A p \in DOMAIN at : p \in Seq(Nat) /\ Len(p) <= n /\ at[p] \in Ids
      /\ \A p \in DOMAIN at \ {<<>>} :
            /\ Front(p) \in DOMAIN at /\ Last(p) \in DOMAIN h[at[Front(p)]].elems
            /\ at[p] = h[at[Front(p)]].elems[Last(p)]
      /\ \A p \in DOMAIN at : Len(p) < n =>
            \A k \in DOMAIN h[at[p]].elems : Append(p, k) \in DOMAIN at
  BY DEF PathsTo
<1>5. ASSUME NEW q \in longer, q \notin DOMAIN at
      PROVE  /\ q \in Seq(Nat) /\ q # <<>> /\ Front(q) \in DOMAIN at
             /\ Last(q) \in DOMAIN h[at[Front(q)]].elems /\ Len(q) = Len(Front(q)) + 1
             /\ Append(Front(q), Last(q)) = q
             /\ at2[q] = h[at[Front(q)]].elems[Last(q)] /\ at2[q] \in Ids
  <2>1. PICK p \in DOMAIN at : \E k \in DOMAIN h[at[p]].elems : q = Append(p, k)
    OBVIOUS
  <2>2. PICK k \in DOMAIN h[at[p]].elems : q = Append(p, k)
    BY <2>1
  <2>3. p \in Seq(Nat) /\ k \in Nat /\ h[at[p]].elems[k] \in Ids
    BY <1>4, ElementsTyped
  <2>4. q \in Seq(Nat) /\ q # <<>> /\ Len(q) = Len(p) + 1 /\ Front(q) = p /\ Last(q) = k
    BY <2>2, <2>3, LongerPath
  <2>5. at2[q] = h[at[Front(q)]].elems[Last(q)]
    BY <1>2, <1>5
  <2> QED
    BY <2>1, <2>2, <2>3, <2>4, <2>5
<1> HIDE DEF longer
<1>6. ASSUME NEW p \in DOMAIN at2, Len(p) < n + 1, NEW k \in DOMAIN h[at2[p]].elems
      PROVE  Append(p, k) \in DOMAIN at2
  <2>1. p \in DOMAIN at
    <3> SUFFICES ASSUME p \notin DOMAIN at PROVE FALSE
      OBVIOUS
    <3>1. p \in longer
      BY <1>3
    <3>2. Front(p) \in DOMAIN at /\ Front(p) \in Seq(Nat) /\ Len(p) = Len(Front(p)) + 1
      BY <1>4, <1>5, <3>1
    <3>3. Len(Front(p)) < n
      BY <1>6, <3>2
    <3>4. Append(Front(p), Last(p)) \in DOMAIN at
      BY <1>4, <1>5, <3>1, <3>2, <3>3
    <3> QED
      BY <1>5, <3>1, <3>4
  <2>2. at2[p] = at[p]
    BY <1>3, <2>1
  <2>3. Append(p, k) \in longer
    BY <1>6, <2>1, <2>2 DEF longer
  <2> QED
    BY <1>3, <2>3
<1>7. ASSUME NEW p \in DOMAIN at2
      PROVE  p \in Seq(Nat) /\ Len(p) <= n + 1 /\ at2[p] \in Ids
  <2>1. CASE p \in DOMAIN at
    <3>1. p \in Seq(Nat) /\ Len(p) <= n /\ at2[p] \in Ids
      BY <1>3, <1>4, <2>1
    <3> QED
      BY <3>1
  <2>2. CASE p \notin DOMAIN at
    <3>1. p \in longer
      BY <1>3, <2>2
    <3>2. /\ p \in Seq(Nat) /\ at2[p] \in Ids /\ Len(p) = Len(Front(p)) + 1
          /\ Front(p) \in Seq(Nat) /\ Len(Front(p)) <= n
      BY <1>4, <1>5, <2>2, <3>1
    <3> QED
      BY <3>2
  <2> QED
    BY <2>1, <2>2
<1>8. ASSUME NEW p \in DOMAIN at2 \ {<<>>}
      PROVE  /\ Front(p) \in DOMAIN at2 /\ Last(p) \in DOMAIN h[at2[Front(p)]].elems
             /\ at2[p] = h[at2[Front(p)]].elems[Last(p)]
  <2>1. CASE p \in DOMAIN at
    BY <1>3, <1>4, <2>1
  <2>2. CASE p \notin DOMAIN at
    <3>1. p \in longer
      BY <1>3, <2>2
    <3>2. /\ Front(p) \in DOMAIN at /\ Last(p) \in DOMAIN h[at[Front(p)]].elems
          /\ at2[p] = h[at[Front(p)]].elems[Last(p)]
      BY <1>5, <2>2, <3>1
    <3> QED
      BY <1>3, <3>2
  <2> QED
    BY <2>1, <2>2
<1>9. <<>> \in DOMAIN at2 /\ at2[<<>>] = v
  BY <1>3, <1>4
<1>10. PathsTo(at2, h, v, n + 1)
  BY <1>6, <1>7, <1>8, <1>9 DEF PathsTo
<1> QED
  BY <1>1, <1>10

\* The clone of a Value that does not lead to itself has a place for everything.
LEMMA PathsSound ==
    ASSUME NEW h, HeapTyped(h), NEW v \in Ids, ~Knotted(h, v), NEW at, at = Paths(h, v)
    PROVE  /\ <<>> \in DOMAIN at /\ at[<<>>] = v
           /\ \A p \in DOMAIN at :
                 /\ at[p] \in Ids /\ at[p] \in Reach(h, {v})
                 /\ \A k \in DOMAIN h[at[p]].elems :
                       Append(p, k) \in DOMAIN at /\ at[Append(p, k)] = h[at[p]].elems[k]
<1>1. PICK P : IsStages(P, h, v, MaxValues) /\ at = P[MaxValues]
  BY PathsStages
<1>2. MaxValues \in Nat
  BY ValuesAssumption
<1>3. \A n \in 0..MaxValues : P[n] = IF n = 0 THEN [p \in {<<>>} |-> v] ELSE Further(h, P[n - 1])
  BY <1>1 DEF IsStages
<1> DEFINE T == {n \in Nat : n <= MaxValues => PathsTo(P[n], h, v, n)}
<1>4. 0 \in T
  <2>1. P[0] = [p \in {<<>>} |-> v]
    BY <1>2, <1>3
  <2>2. <<>> \in Seq(Nat) /\ Len(<<>>) = 0
    OBVIOUS
  <2>3. DOMAIN P[0] = {<<>>} /\ P[0][<<>>] = v
    BY <2>1
  <2>4. \A p \in DOMAIN P[0] : p = <<>> /\ p \in Seq(Nat) /\ Len(p) = 0 /\ P[0][p] = v
    BY <2>2, <2>3
  <2>5. PathsTo(P[0], h, v, 0)
    BY <2>3, <2>4 DEF PathsTo
  <2> QED
    BY <2>5
<1>5. ASSUME NEW n \in T PROVE n + 1 \in T
  <2> SUFFICES ASSUME n + 1 <= MaxValues PROVE PathsTo(P[n + 1], h, v, n + 1)
    OBVIOUS
  <2>1. PathsTo(P[n], h, v, n) /\ n \in Nat
    BY <1>2
  <2>2. P[n + 1] = Further(h, P[n])
    <3>1. n + 1 \in 0..MaxValues /\ n + 1 # 0 /\ (n + 1) - 1 = n
      BY <1>2, <2>1
    <3> QED
      BY <1>3, <3>1
  <2> QED
    BY <2>1, <2>2, FurtherSound
<1>6. PathsTo(at, h, v, MaxValues)
  <2>1. T = Nat
    BY <1>4, <1>5, SetInduction
  <2> QED
    BY <1>1, <1>2, <2>1
<1>7. \A p \in DOMAIN at : p \in Seq(Nat) /\ Len(p) < MaxValues
  <2>1. \A p \in DOMAIN at : Len(p) # MaxValues
    BY DEF Knotted
  <2>2. \A p \in DOMAIN at : p \in Seq(Nat) /\ Len(p) <= MaxValues /\ Len(p) \in Nat
    BY <1>6 DEF PathsTo
  <2> QED
    BY <1>2, <2>1, <2>2
<1>8. ASSUME NEW p \in DOMAIN at, NEW k \in DOMAIN h[at[p]].elems
      PROVE  Append(p, k) \in DOMAIN at /\ at[Append(p, k)] = h[at[p]].elems[k]
  <2>1. p \in Seq(Nat) /\ at[p] \in Ids /\ Append(p, k) \in DOMAIN at
    BY <1>6, <1>7 DEF PathsTo
  <2>2. k \in Nat
    BY <2>1, ElementsTyped
  <2>3. Append(p, k) # <<>> /\ Front(Append(p, k)) = p /\ Last(Append(p, k)) = k
    BY <2>1, <2>2, LongerPath
  <2> QED
    BY <1>6, <2>1, <2>3 DEF PathsTo
\* Paths lead to what v leads to.
<1> DEFINE Reached(n) == \A p \in DOMAIN at : Len(p) = n => at[p] \in Reach(h, {v})
           U == {n \in Nat : Reached(n)}
<1>9. 0 \in U
  <2>1. v \in Reach(h, {v})
    BY DEF Reach
  <2>2. \A p \in DOMAIN at : p \in Seq(Nat)
    BY <1>7
  <2>3. ASSUME NEW p \in DOMAIN at, Len(p) = 0 PROVE at[p] \in Reach(h, {v})
    <3>1. p = <<>>
      BY <2>2, <2>3
    <3> QED
      BY <1>6, <2>1, <3>1 DEF PathsTo
  <2> QED
    BY <2>3
<1>10. ASSUME NEW n \in U PROVE n + 1 \in U
  <2> HIDE DEF Reached
  <2>7. n \in Nat /\ Reached(n)
    OBVIOUS
  <2> SUFFICES Reached(n + 1)
    BY <2>7
  <2> USE DEF Reached
  <2>0. n \in Nat /\ \A p \in DOMAIN at : Len(p) = n => at[p] \in Reach(h, {v})
    BY <2>7
  <2> SUFFICES ASSUME NEW p \in DOMAIN at, Len(p) = n + 1 PROVE at[p] \in Reach(h, {v})
    OBVIOUS
  <2>1. p \in Seq(Nat) /\ n \in Nat
    BY <1>7, <2>0
  <2>2. p # <<>>
    BY <2>1
  <2>3. /\ Front(p) \in DOMAIN at /\ Last(p) \in DOMAIN h[at[Front(p)]].elems
        /\ at[p] = h[at[Front(p)]].elems[Last(p)] /\ at[p] \in Ids
    BY <1>6, <2>2 DEF PathsTo
  <2>4. Len(Front(p)) = n
    BY <2>1, <2>2 DEF Front
  <2>5. at[Front(p)] \in Reach(h, {v})
    BY <2>0, <2>3, <2>4
  <2>6. at[p] \in Elements(h, at[Front(p)])
    BY <2>3 DEF Elements
  <2> QED
    BY <2>3, <2>5, <2>6 DEF Reach
<1>11. U = Nat
  <2> HIDE DEF U
  <2>1. U \in SUBSET Nat
    BY DEF U
  <2> QED
    BY <1>9, <1>10, <2>1, SetInduction
<1>12. ASSUME NEW p \in DOMAIN at PROVE at[p] \in Reach(h, {v})
  <2>1. Len(p) \in Nat
    BY <1>7
  <2> QED
    BY <1>11, <2>1
<1> QED
  BY <1>6, <1>8, <1>12 DEF PathsTo

-----------------------------------------------------------------------------
(* What the frames hold, and the halves of a heap                          *)

\* Where a statement puts a value.
Intos ==
    {<<>>} \cup {<<"declare", x>> : x \in Vars} \cup {<<"assign", x>> : x \in Vars \cup {"p"}}
    \cup {<<how, v, k>> : how \in {"element", "append"}, v \in Ids, k \in Nat}

Frame == [call : {"file", "statement", "expression"},
          env : UNION {[X -> Ids] : X \in SUBSET (Vars \cup {"p"})}, into : Intos]

HeldInto(into) ==
    IF into # <<>> /\ into[1] \in {"element", "append"} THEN {into[2]} ELSE {}

EnvOf(fs, j) == {fs[j].env[x] : x \in DOMAIN fs[j].env}

\* What the calls from the i-th on hold, and what those before it hold: the
\* array that a call stores its result in is its caller's.
Inside(fs, i)  == (UNION {EnvOf(fs, j) : j \in i..Len(fs)})
                  \cup (UNION {HeldInto(fs[j].into) : j \in (i + 1)..Len(fs)})
Outside(fs, i) == (UNION {EnvOf(fs, j) : j \in 1..(i - 1)})
                  \cup (UNION {HeldInto(fs[j].into) : j \in 1..i})

\* Values that exist, with no array but those of A; and arrays that hold no
\* others.
Has(h, A, W) == \A w \in W : w \in Ids /\ h[w].type # "free" /\ (h[w].type = "array" => w \in A)

Kept(h, A) == A \subseteq Ids /\ \A v \in A : h[v].type = "array" /\ Has(h, A, Elements(h, v))

Halves(h, S, T, fs, i) ==
    S \cap T = {} /\ Kept(h, S) /\ Kept(h, T) /\ Has(h, S, Inside(fs, i)) /\ Has(h, T, Outside(fs, i))

\* Functions use no array of their callers but what they are passed.
ScalarGlobals == \A x \in Globals : TypeOf[x] # "array"

\* The first call, the file, divides what exists from nothing.
Divides(fs, i) == i = 1 \/ (ScalarGlobals /\ fs[i].call = "expression")

Seen(fs, i, x) == \E j \in 1..i : x \in DOMAIN fs[j].env /\ (j = i \/ x \in Globals)

\* Variables have the type they were declared with, and where a result is to go
\* is there; if only its own call can append, with as many elements as before.
FrameSound(h, fs, i) ==
    /\ \A x \in Vars \cap DOMAIN fs[i].env : h[fs[i].env[x]].type = TypeOf[x]
    /\ fs[i].call # "file" => i > 1
    /\ fs[i].call # "expression" => fs[i].into = <<>>
    /\ fs[i].call = "expression" =>
          LET into == fs[i].into
          IN  /\ into # <<>>
              /\ into[1] = "assign" => Seen(fs, i - 1, into[2])
              /\ into[1] \in {"element", "append"} => h[into[2]].type = "array"
              /\ ScalarGlobals /\ into[1] = "append" =>
                    into[3] = Cardinality(DOMAIN h[into[2]].elems)

FramesTyped(fs) == fs \in Seq(Frame) /\ Len(fs) \in Nat \ {0} /\ DOMAIN fs = 1..Len(fs)

Sound(h, fs) ==
    /\ HeapTyped(h) /\ FramesTyped(fs)
    /\ h[1] = Scalar("int") /\ h[2] = Scalar("double")
    /\ \A i \in DOMAIN fs : FrameSound(h, fs, i)
    /\ \A i \in DOMAIN fs : Divides(fs, i) => \E S, T \in SUBSET Ids : Halves(h, S, T, fs, i)

NoneGone(h) == \A v \in Ids : \A w \in Elements(h, v) : h[w].type # "free"

ValuesInv == Sound(heap, frames) /\ NoneGone(heap) /\ overflow \in BOOLEAN

-----------------------------------------------------------------------------
(* Lemmas about the heap and the frames                                    *)

\* Everything that some Values lead to, when there is nothing else to lead to.
LEMMA ReachLeast ==
    ASSUME NEW h, HeapTyped(h), NEW R, R \subseteq Ids
    PROVE  /\ R \subseteq Reach(h, R) /\ Reach(h, R) \subseteq Ids
           /\ \A v \in Reach(h, R) : Elements(h, v) \subseteq Reach(h, R)
           /\ \A S \in SUBSET Ids :
                 R \subseteq S /\ (\A v \in S : Elements(h, v) \subseteq S) => Reach(h, R) \subseteq S
<1> DEFINE closed == {S \in SUBSET Ids : R \subseteq S /\ \A v \in S : Elements(h, v) \subseteq S}
<1>1. Reach(h, R) = {v \in Ids : \A S \in closed : v \in S}
  BY DEF Reach
<1>2. ASSUME NEW v \in Reach(h, R) PROVE Elements(h, v) \subseteq Reach(h, R)
  <2>1. v \in Ids /\ \A S \in closed : v \in S
    BY <1>1
  <2>2. Elements(h, v) \subseteq Ids
    BY <2>1, ElementsTyped
  <2>3. \A S \in closed : Elements(h, v) \subseteq S
    BY <2>1
  <2> QED
    BY <1>1, <2>2, <2>3
<1>3. R \subseteq Reach(h, R)
  BY <1>1
<1>4. ASSUME NEW S \in SUBSET Ids, R \subseteq S, \A v \in S : Elements(h, v) \subseteq S
      PROVE  Reach(h, R) \subseteq S
  <2>1. S \in closed
    BY <1>4
  <2> QED
    BY <1>1, <2>1
<1> QED
  BY <1>1, <1>2, <1>3, <1>4

\* The arrays among what is held lead to no others.
LEMMA ReachHas ==
    ASSUME NEW h, HeapTyped(h), NEW A, Kept(h, A), NEW R, Has(h, A, R)
    PROVE  Has(h, A, Reach(h, R))
<1> DEFINE C == {v \in Ids : h[v].type # "free" /\ (h[v].type = "array" => v \in A)}
<1>1. R \subseteq C
  BY DEF Has
<1>2. ASSUME NEW v \in C PROVE Elements(h, v) \subseteq C
  <2>1. CASE h[v].type = "array"
    BY <2>1 DEF Kept, Has
  <2>2. CASE h[v].type # "array"
    <3>1. DOMAIN h[v].elems = {}
      BY <2>2, ElementsTyped
    <3> QED
      BY <3>1 DEF Elements
  <2> QED
    BY <2>1, <2>2
<1>3. Reach(h, R) \subseteq C
  <2> HIDE DEF C
  <2>1. C \subseteq Ids
    BY DEF C
  <2> QED
    BY <1>1, <1>2, <2>1, ReachLeast
<1> QED
  BY <1>3 DEF Has

\* The parts of a frame.
LEMMA FrameTyped ==
    ASSUME NEW f \in Frame
    PROVE  /\ f.call \in {"file", "statement", "expression"} /\ f.into \in Intos
           /\ DOMAIN f.env \subseteq Vars \cup {"p"} /\ f.env = [x \in DOMAIN f.env |-> f.env[x]]
           /\ \A x \in DOMAIN f.env : f.env[x] \in Ids
<1>1. f.env \in UNION {[X -> Ids] : X \in SUBSET (Vars \cup {"p"})}
  BY DEF Frame
<1>2. PICK X \in SUBSET (Vars \cup {"p"}) : f.env \in [X -> Ids]
  BY <1>1
<1> QED
  BY <1>2 DEF Frame

\* The parts of a target.
LEMMA IntoTyped ==
    ASSUME NEW into \in Intos, into # <<>>
    PROVE  /\ into[1] \in {"declare", "assign", "element", "append"}
           /\ into[1] = "declare" => into[2] \in Vars
           /\ into[1] = "assign" => into[2] \in Vars \cup {"p"}
           /\ into[1] \in {"element", "append"} => into[2] \in Ids /\ into[3] \in Nat
<1>1. CASE \E x \in Vars : into = <<"declare", x>>
  BY <1>1
<1>2. CASE \E x \in Vars \cup {"p"} : into = <<"assign", x>>
  BY <1>2
<1>3. CASE \E how \in {"element", "append"}, v \in Ids, k \in Nat : into = <<how, v, k>>
  BY <1>3
<1> QED
  BY <1>1, <1>2, <1>3 DEF Intos

\* A statement waits with an array that is a Value.
LEMMA HeldIntoTyped ==
    ASSUME NEW into \in Intos
    PROVE  HeldInto(into) \subseteq Ids
  BY IntoTyped DEF HeldInto

\* What the frames hold, on either side of a call.
LEMMA HeldIds ==
    ASSUME NEW fs, FramesTyped(fs)
    PROVE  /\ Held(fs) \subseteq Ids
           /\ \A i \in DOMAIN fs : /\ EnvOf(fs, i) \subseteq Held(fs)
                                   /\ HeldInto(fs[i].into) \subseteq Held(fs)
           /\ \A i \in DOMAIN fs : Held(fs) = Inside(fs, i) \cup Outside(fs, i)
<1>1. Held(fs) = UNION {EnvOf(fs, i) \cup HeldInto(fs[i].into) : i \in DOMAIN fs}
  BY DEF Held, EnvOf, HeldInto
<1>2. \A i \in DOMAIN fs : fs[i] \in Frame
  BY DEF FramesTyped
<1>3. ASSUME NEW i \in DOMAIN fs PROVE EnvOf(fs, i) \subseteq Ids /\ HeldInto(fs[i].into) \subseteq Ids
  <2>1. fs[i] \in Frame
    BY <1>2
  <2>2. fs[i].into \in Intos /\ \A x \in DOMAIN fs[i].env : fs[i].env[x] \in Ids
    BY <2>1, FrameTyped
  <2> QED
    BY <2>2, HeldIntoTyped DEF EnvOf
<1>4. ASSUME NEW i \in DOMAIN fs PROVE Held(fs) = Inside(fs, i) \cup Outside(fs, i)
  <2>1. /\ \A j \in DOMAIN fs : /\ j \in i..Len(fs) \/ j \in 1..(i - 1)
                                /\ j \in (i + 1)..Len(fs) \/ j \in 1..i
        /\ i..Len(fs) \subseteq DOMAIN fs /\ 1..(i - 1) \subseteq DOMAIN fs
        /\ (i + 1)..Len(fs) \subseteq DOMAIN fs /\ 1..i \subseteq DOMAIN fs
    BY DEF FramesTyped
  <2>2. Inside(fs, i) \cup Outside(fs, i) \subseteq Held(fs)
    BY <1>1, <2>1 DEF Inside, Outside
  <2>3. ASSUME NEW j \in DOMAIN fs
        PROVE  /\ EnvOf(fs, j) \subseteq Inside(fs, i) \cup Outside(fs, i)
               /\ HeldInto(fs[j].into) \subseteq Inside(fs, i) \cup Outside(fs, i)
    BY <2>1 DEF Inside, Outside
  <2> QED
    BY <1>1, <2>2, <2>3
<1> QED
  BY <1>1, <1>3, <1>4

\* The literals are Values.
LEMMA LiteralsAreIds == 1 \in Ids /\ 2 \in Ids
  BY ValuesAssumption DEF Ids

\* A Value without elements is typed.
LEMMA FreeTyped ==
    /\ <<>> \in UNION {[D -> Ids] : D \in SUBSET Keys} /\ DOMAIN <<>> = {}
    /\ Free \in [type : Scalars \cup {"array", "free"}, elems : UNION {[D -> Ids] : D \in SUBSET Keys}]
    /\ Free.type = "free" /\ Free.elems = <<>>
<1>1. DOMAIN <<>> = {} /\ <<>> \in [{} -> Ids]
  OBVIOUS
<1> QED
  BY <1>1 DEF Free

\* A statement ends.
LEMMA FinishSound ==
    ASSUME NEW h, NEW fs, Sound(h, fs), Finish(h, fs), overflow \in BOOLEAN
    PROVE  ValuesInv' /\ frames' = fs /\ \A v \in Ids : heap'[v] \in {h[v], Free}
<1> DEFINE alive == Reach(h, Held(fs) \cup {1, 2})
<1>1. PICK h2 : h2 = [v \in Ids |-> IF v \in alive THEN h[v] ELSE Free]
  OBVIOUS
<1>2. heap' = h2 /\ frames' = fs
  BY <1>1 DEF Finish
<1>3. HeapTyped(h) /\ FramesTyped(fs)
  BY DEF Sound
<1>4. /\ Held(fs) \subseteq alive /\ 1 \in alive /\ 2 \in alive /\ alive \subseteq Ids
      /\ \A v \in alive : Elements(h, v) \subseteq alive
  <2>1. Held(fs) \cup {1, 2} \subseteq Ids
    BY <1>3, HeldIds, LiteralsAreIds
  <2> QED
    BY <1>3, <2>1, ReachLeast
<1> HIDE DEF alive
<1>5. \A v \in Ids : (v \in alive => h2[v] = h[v]) /\ (v \notin alive => h2[v] = Free)
  BY <1>1
<1>6. HeapTyped(h2)
  <2>1. \A v \in Ids : h2[v] \in [type : Scalars \cup {"array", "free"},
                                  elems : UNION {[D -> Ids] : D \in SUBSET Keys}]
    BY <1>3, <1>5, FreeTyped DEF HeapTyped
  <2>2. \A v \in Ids : h2[v].type # "array" => DOMAIN h2[v].elems = {}
    BY <1>3, <1>5, FreeTyped DEF HeapTyped
  <2> QED
    BY <1>1, <2>1, <2>2 DEF HeapTyped
<1>7. h2[1] = Scalar("int") /\ h2[2] = Scalar("double")
  BY <1>4, <1>5 DEF Sound
<1>8. ASSUME NEW i \in DOMAIN fs PROVE FrameSound(h2, fs, i)
  <2>1. FrameSound(h, fs, i) /\ fs[i] \in Frame
    BY <1>3 DEF Sound, FramesTyped
  <2>2. \A x \in DOMAIN fs[i].env : h2[fs[i].env[x]] = h[fs[i].env[x]]
    <3>1. \A x \in DOMAIN fs[i].env : fs[i].env[x] \in Held(fs)
      BY <1>3, HeldIds DEF EnvOf
    <3> QED
      BY <1>4, <1>5, <3>1
  <2>3. fs[i].into # <<>> /\ fs[i].into[1] \in {"element", "append"} => h2[fs[i].into[2]] = h[fs[i].into[2]]
    <3>1. HeldInto(fs[i].into) \subseteq Held(fs)
      BY <1>3, HeldIds
    <3> QED
      BY <1>4, <1>5, <3>1 DEF HeldInto
  <2> QED
    BY <2>1, <2>2, <2>3 DEF FrameSound
<1>9. ASSUME NEW i \in DOMAIN fs, Divides(fs, i)
      PROVE  \E S, T \in SUBSET Ids : Halves(h2, S, T, fs, i)
  <2>1. PICK S, T \in SUBSET Ids : Halves(h, S, T, fs, i)
    BY <1>9 DEF Sound
  <2>2. ASSUME NEW A, NEW W, Has(h, A, W), W \subseteq alive PROVE Has(h2, A \cap alive, W)
    BY <1>4, <1>5, <2>2 DEF Has
  <2>3. ASSUME NEW A, Kept(h, A) PROVE Kept(h2, A \cap alive)
    <3>1. ASSUME NEW v \in A \cap alive
          PROVE  h2[v].type = "array" /\ Has(h2, A \cap alive, Elements(h2, v))
      <4>1. h2[v] = h[v] /\ Elements(h2, v) = Elements(h, v)
        BY <1>4, <1>5 DEF Elements
      <4>2. h[v].type = "array" /\ Has(h, A, Elements(h, v)) /\ Elements(h, v) \subseteq alive
        BY <1>4, <2>3 DEF Kept
      <4> QED
        BY <2>2, <4>1, <4>2
    <3> QED
      BY <1>4, <3>1 DEF Kept
  <2>4. Inside(fs, i) \subseteq alive /\ Outside(fs, i) \subseteq alive
    BY <1>3, <1>4, HeldIds
  <2>5. Halves(h2, S \cap alive, T \cap alive, fs, i)
    BY <2>1, <2>2, <2>3, <2>4 DEF Halves
  <2> QED
    BY <2>5
<1>10. Sound(h2, fs)
  BY <1>3, <1>6, <1>7, <1>8, <1>9 DEF Sound
<1>11. NoneGone(h2)
  <2>1. 1 \in DOMAIN fs /\ Divides(fs, 1)
    BY <1>3 DEF FramesTyped, Divides
  <2>2. PICK S, T \in SUBSET Ids : Halves(h, S, T, fs, 1)
    BY <2>1 DEF Sound
  <2>3. Kept(h, S \cup T)
    BY <2>2 DEF Halves, Kept, Has
  <2>4. Has(h, S \cup T, Held(fs) \cup {1, 2})
    <3>1. Held(fs) = Inside(fs, 1) \cup Outside(fs, 1)
      BY <1>3, <2>1, HeldIds
    <3>2. h[1].type # "free" /\ h[2].type # "free" /\ h[1].type # "array" /\ h[2].type # "array"
      BY DEF Sound, Scalar
    <3> QED
      BY <2>2, <3>1, <3>2, LiteralsAreIds DEF Halves, Has
  <2>5. Has(h, S \cup T, alive)
    BY <1>3, <2>3, <2>4, ReachHas DEF alive
  <2>6. ASSUME NEW v \in Ids, NEW w \in Elements(h2, v) PROVE h2[w].type # "free"
    <3>1. CASE v \in alive
      <4>1. w \in Elements(h, v)
        BY <1>5, <3>1, <2>6 DEF Elements
      <4>2. w \in alive
        BY <1>4, <3>1, <4>1
      <4> QED
        BY <1>4, <1>5, <2>5, <4>2 DEF Has
    <3>2. CASE v \notin alive
      BY <1>5, <2>6, <3>2, FreeTyped DEF Elements
    <3> QED
      BY <3>1, <3>2
  <2> QED
    BY <2>6 DEF NoneGone
<1>12. overflow' \in BOOLEAN
  BY DEF Finish
<1>13. ValuesInv'
  <2>1. ValuesInv' = (Sound(heap', frames') /\ NoneGone(heap') /\ overflow' \in BOOLEAN)
    BY DEF ValuesInv
  <2> QED
    BY <1>2, <1>10, <1>11, <1>12, <2>1
<1> QED
  BY <1>2, <1>5, <1>13

\* The innermost of some scopes.
LEMMA ScopesLast ==
    ASSUME NEW fs, FramesTyped(fs), NEW x, Scopes(fs, x) # {}
    PROVE  \E k \in Scopes(fs, x) : \A j \in Scopes(fs, x) : j <= k
<1> DEFINE T == {n \in Nat : \E k \in Scopes(fs, x) : n = Len(fs) - k}
<1>1. \A k \in Scopes(fs, x) : k \in Nat /\ Len(fs) - k \in Nat
  BY DEF Scopes, FramesTyped
<1>2. T # {} /\ T \in SUBSET Nat
  BY <1>1
<1>3. PICK m \in T : \A n \in T : m <= n
  <2> HIDE DEF T
  <2> QED
    BY <1>2, Least
<1>4. PICK k \in Scopes(fs, x) : m = Len(fs) - k
  OBVIOUS
<1>5. ASSUME NEW j \in Scopes(fs, x) PROVE j <= k
  <2>1. Len(fs) - j \in T
    BY <1>1
  <2>2. m <= Len(fs) - j
    BY <1>3, <2>1
  <2> QED
    BY <1>1, <1>4, <2>2 DEF FramesTyped
<1> QED
  BY <1>5

\* The scope that a name is found in has it, and the running call may use it.
LEMMA ScopeSound ==
    ASSUME NEW fs, FramesTyped(fs), NEW x, Scopes(fs, x) # {}
    PROVE  /\ ScopeOf(fs, x) \in DOMAIN fs /\ x \in DOMAIN fs[ScopeOf(fs, x)].env
           /\ ScopeOf(fs, x) = Len(fs) \/ x \in Globals
<1>1. \E k \in Scopes(fs, x) : \A j \in Scopes(fs, x) : j <= k
  BY ScopesLast
<1>2. ScopeOf(fs, x) \in Scopes(fs, x)
  BY <1>1 DEF ScopeOf
<1> QED
  BY <1>2 DEF Scopes

-----------------------------------------------------------------------------
(* A heap with new Values                                                  *)

Grown(h, h2) == HeapTyped(h2) /\ \A v \in Ids : h[v].type # "free" => h2[v] = h[v]

\* A heap with new Values has all that it had.
LEMMA HasGrows ==
    ASSUME NEW h, NEW h2, Grown(h, h2), NEW A, NEW W, Has(h, A, W)
    PROVE  Has(h2, A, W)
  BY DEF Grown, Has

\* The arrays that led to no others still do not.
LEMMA KeptGrows ==
    ASSUME NEW h, NEW h2, Grown(h, h2), NEW A, Kept(h, A)
    PROVE  Kept(h2, A)
<1>1. ASSUME NEW v \in A PROVE h2[v].type = "array" /\ Has(h2, A, Elements(h2, v))
  <2>1. v \in Ids /\ h[v].type = "array" /\ Has(h, A, Elements(h, v))
    BY DEF Kept
  <2>2. h2[v] = h[v]
    BY <2>1 DEF Grown
  <2>3. Elements(h2, v) = Elements(h, v)
    BY <2>2 DEF Elements
  <2> QED
    BY <2>1, <2>2, <2>3, HasGrows
<1> QED
  BY <1>1 DEF Kept

\* A division of the heap is one with new Values too.
LEMMA HalvesGrow ==
    ASSUME NEW h, NEW h2, Grown(h, h2), NEW S, NEW T, NEW fs, NEW i, Halves(h, S, T, fs, i)
    PROVE  Halves(h2, S, T, fs, i)
  BY HasGrows, KeptGrows DEF Halves

\* A value that some calls hold is there, whoever else is.
LEMMA HeldExists ==
    ASSUME NEW h, NEW fs, Sound(h, fs)
    PROVE  \A v \in Held(fs) : v \in Ids /\ h[v].type # "free"
<1>1. FramesTyped(fs) /\ 1 \in DOMAIN fs
  BY DEF Sound, FramesTyped
<1>2. PICK S, T \in SUBSET Ids : Halves(h, S, T, fs, 1)
  BY <1>1 DEF Sound, Divides
<1>3. Held(fs) = Inside(fs, 1) \cup Outside(fs, 1)
  BY <1>1, HeldIds
<1> QED
  BY <1>2, <1>3 DEF Halves, Has

\* The invariant holds with new Values too.
LEMMA GrownSound ==
    ASSUME NEW h, NEW h2, Grown(h, h2), NEW fs, Sound(h, fs)
    PROVE  Sound(h2, fs)
<1>1. FramesTyped(fs) /\ HeapTyped(h2)
  BY DEF Sound, Grown
<1>2. h2[1] = Scalar("int") /\ h2[2] = Scalar("double")
  BY LiteralsAreIds DEF Sound, Grown, Scalar
<1>3. ASSUME NEW i \in DOMAIN fs PROVE FrameSound(h2, fs, i)
  <2>1. FrameSound(h, fs, i)
    BY DEF Sound
  <2>2. \A x \in DOMAIN fs[i].env : h2[fs[i].env[x]] = h[fs[i].env[x]]
    <3>1. \A x \in DOMAIN fs[i].env : fs[i].env[x] \in Held(fs)
      BY <1>1, HeldIds DEF EnvOf
    <3> QED
      BY <3>1, HeldExists DEF Grown
  <2>3. fs[i].into # <<>> /\ fs[i].into[1] \in {"element", "append"} => h2[fs[i].into[2]] = h[fs[i].into[2]]
    <3>1. HeldInto(fs[i].into) \subseteq Held(fs)
      BY <1>1, HeldIds
    <3> QED
      BY <3>1, HeldExists DEF HeldInto, Grown
  <2> QED
    BY <2>1, <2>2, <2>3 DEF FrameSound
<1>4. ASSUME NEW i \in DOMAIN fs, Divides(fs, i)
      PROVE  \E S, T \in SUBSET Ids : Halves(h2, S, T, fs, i)
  BY <1>4, HalvesGrow DEF Sound
<1> QED
  BY <1>1, <1>2, <1>3, <1>4 DEF Sound

\* A new Value.
LEMMA MadeGrows ==
    ASSUME NEW h, HeapTyped(h), NEW type \in Scalars \cup {"array"}, NEW r \in Made(h, Scalar(type))
    PROVE  /\ r.value \in Ids /\ Grown(h, r.heap) /\ h[r.value].type = "free"
           /\ r.heap[r.value] = Scalar(type) /\ r.heap[r.value].type = type
           /\ Elements(r.heap, r.value) = {}
<1> DEFINE value == Scalar(type)
<1>1. PICK v \in FreeIds(h) : r = [value |-> v, heap |-> [h EXCEPT ![v] = value]]
  BY DEF Made
<1>2. v \in Ids /\ h[v].type = "free" /\ r.value = v /\ r.heap = [h EXCEPT ![v] = value]
  BY <1>1, FreeTyped DEF FreeIds
<1>3. value \in [type : Scalars \cup {"array", "free"}, elems : UNION {[D -> Ids] : D \in SUBSET Keys}]
  BY FreeTyped DEF Scalar
<1>4. value.type = type /\ value.elems = <<>> /\ DOMAIN value.elems = {}
  BY FreeTyped DEF Scalar
<1> HIDE DEF value
<1>5. h \in [Ids -> [type : Scalars \cup {"array", "free"}, elems : UNION {[D -> Ids] : D \in SUBSET Keys}]]
      /\ \A w \in Ids : h[w].type # "array" => DOMAIN h[w].elems = {}
  BY DEF HeapTyped
<1>6. r.heap[v] = value /\ \A w \in Ids : w # v => r.heap[w] = h[w]
  BY <1>2, <1>5
<1>7. HeapTyped(r.heap)
  <2>1. r.heap \in [Ids -> [type : Scalars \cup {"array", "free"}, elems : UNION {[D -> Ids] : D \in SUBSET Keys}]]
    BY <1>2, <1>3, <1>5
  <2>2. \A w \in Ids : r.heap[w].type # "array" => DOMAIN r.heap[w].elems = {}
    BY <1>4, <1>5, <1>6
  <2> QED
    BY <2>1, <2>2 DEF HeapTyped
<1> QED
  BY <1>2, <1>4, <1>6, <1>7 DEF Grown, Elements, value

\* A result that the half S can have: what is in it, or new.
Serves(h, r, S, T) ==
    \E S2 \in SUBSET Ids : /\ S \subseteq S2 /\ S2 \cap T = {}
                           /\ Kept(r.heap, S2) /\ Has(r.heap, S2, {r.value})

IsResult(h, r) == r.value \in Ids /\ Grown(h, r.heap) /\ r.heap[r.value].type # "free"

\* A new Value can go to either half.
LEMMA MadeServes ==
    ASSUME NEW h, HeapTyped(h), NEW type \in Scalars \cup {"array"}, NEW r \in Made(h, Scalar(type))
    PROVE  /\ IsResult(h, r)
           /\ \A S, T \in SUBSET Ids : S \cap T = {} /\ Kept(h, S) /\ Kept(h, T) => Serves(h, r, S, T)
<1>1. /\ r.value \in Ids /\ Grown(h, r.heap) /\ h[r.value].type = "free"
      /\ r.heap[r.value].type = type /\ Elements(r.heap, r.value) = {}
  BY MadeGrows
<1>2. ASSUME NEW S \in SUBSET Ids, NEW T \in SUBSET Ids, S \cap T = {}, Kept(h, S), Kept(h, T)
      PROVE  Serves(h, r, S, T)
  <2>1. Kept(r.heap, S)
    BY <1>1, <1>2, KeptGrows
  <2>2. r.value \notin T
    BY <1>1, <1>2 DEF Kept
  <2>3. CASE type = "array"
    <3>1. Kept(r.heap, S \cup {r.value})
      BY <1>1, <2>1, <2>3 DEF Kept, Has
    <3>2. Has(r.heap, S \cup {r.value}, {r.value})
      BY <1>1, <2>3 DEF Has
    <3> QED
      BY <1>1, <1>2, <2>2, <3>1, <3>2 DEF Serves
  <2>4. CASE type # "array"
    <3>1. Has(r.heap, S, {r.value})
      BY <1>1, <2>4 DEF Has, Scalars
    <3> QED
      BY <1>2, <2>1, <3>1 DEF Serves
  <2> QED
    BY <2>3, <2>4
<1> QED
  BY <1>1, <1>2 DEF IsResult, Scalars

\* What the running call can name is its own, a scalar, or a literal.
LEMMA NamedInside ==
    ASSUME ValuesInv, NEW i \in DOMAIN frames, Divides(frames, i), NEW S, NEW T,
           Halves(heap, S, T, frames, i)
    PROVE  Has(heap, S, Named) /\ Has(heap, S, Existing) /\ Arrays \subseteq S
<1>1. /\ HeapTyped(heap) /\ FramesTyped(frames) /\ Len(frames) \in i..Len(frames)
      /\ Kept(heap, S) /\ Has(heap, S, Inside(frames, i))
      /\ heap[1] = Scalar("int") /\ heap[2] = Scalar("double")
  BY DEF ValuesInv, Sound, FramesTyped, Halves
<1>2. ASSUME NEW x \in Visible
      PROVE  /\ ValueOf(frames, x) \in Ids /\ heap[ValueOf(frames, x)].type # "free"
             /\ heap[ValueOf(frames, x)].type = "array" => ValueOf(frames, x) \in S
  <2> DEFINE s == ScopeOf(frames, x)
  <2>3. s \in DOMAIN frames /\ x \in DOMAIN frames[s].env /\ (s = Len(frames) \/ x \in Globals)
    BY <1>1, ScopeSound DEF Visible
  <2> HIDE DEF s
  <2>4. ValueOf(frames, x) = frames[s].env[x]
    BY DEF ValueOf, s
  <2>5. ValueOf(frames, x) \in Held(frames) /\ ValueOf(frames, x) \in EnvOf(frames, s)
    BY <1>1, <2>3, <2>4, HeldIds DEF EnvOf
  <2>6. ValueOf(frames, x) \in Ids /\ heap[ValueOf(frames, x)].type # "free"
    BY <2>5, HeldExists DEF ValuesInv
  <2>7. CASE s \in i..Len(frames)
    <3>1. ValueOf(frames, x) \in Inside(frames, i)
      BY <2>5, <2>7 DEF Inside
    <3> QED
      BY <1>1, <2>6, <3>1 DEF Has
  <2>8. CASE s \notin i..Len(frames)
    <3>1. s # Len(frames) /\ i # 1
      BY <1>1, <2>3, <2>8 DEF FramesTyped
    <3>2. x \in Globals /\ x \in Vars /\ TypeOf[x] # "array"
      BY <2>3, <3>1, ValuesAssumption DEF Divides, ScalarGlobals
    <3>3. heap[frames[s].env[x]].type = TypeOf[x]
      <4>1. FrameSound(heap, frames, s)
        BY <2>3 DEF ValuesInv, Sound
      <4> QED
        BY <2>3, <3>2, <4>1 DEF FrameSound
    <3> QED
      BY <2>4, <2>6, <3>2, <3>3
  <2> QED
    BY <2>7, <2>8
<1>3. Has(heap, S, Named)
  BY <1>2 DEF Has, Named
<1>4. ASSUME NEW w \in Named PROVE Has(heap, S, Elements(heap, w))
  <2>1. CASE heap[w].type = "array"
    BY <1>1, <1>3, <2>1 DEF Has, Kept
  <2>2. CASE heap[w].type # "array"
    <3>1. DOMAIN heap[w].elems = {}
      BY <1>1, <1>3, <2>2, ElementsTyped DEF Has
    <3> QED
      BY <3>1 DEF Elements, Has
  <2> QED
    BY <2>1, <2>2
<1>5. Has(heap, S, {1, 2})
  BY <1>1, LiteralsAreIds DEF Has, Scalar
<1>6. Has(heap, S, Existing)
  BY <1>3, <1>4, <1>5 DEF Has, Existing
<1>7. Arrays \subseteq S
  BY <1>3, <1>4 DEF Has, Arrays
<1> QED
  BY <1>3, <1>6, <1>7

-----------------------------------------------------------------------------
(* A call more or less                                                     *)

IsNext(fs, gs) == /\ FramesTyped(fs) /\ FramesTyped(gs) /\ Len(gs) = Len(fs) + 1
                  /\ \A j \in DOMAIN fs : gs[j] = fs[j]

\* What is said of the calls that both have.
LEMMA NextFrame ==
    ASSUME NEW fs, NEW gs, IsNext(fs, gs), NEW i \in DOMAIN fs
    PROVE  /\ i \in DOMAIN gs
           /\ \A h : FrameSound(h, gs, i) <=> FrameSound(h, fs, i)
           /\ Divides(gs, i) <=> Divides(fs, i)
           /\ Outside(gs, i) = Outside(fs, i)
           /\ Inside(gs, i) = Inside(fs, i) \cup EnvOf(gs, Len(gs)) \cup HeldInto(gs[Len(gs)].into)
<1>1. /\ DOMAIN fs = 1..Len(fs) /\ DOMAIN gs = 1..Len(gs) /\ Len(gs) = Len(fs) + 1
      /\ Len(fs) \in Nat /\ i \in 1..Len(fs) /\ i \in Nat
  BY DEF IsNext, FramesTyped
<1>2. \A j \in 1..Len(fs) : gs[j] = fs[j] /\ EnvOf(gs, j) = EnvOf(fs, j)
  BY <1>1 DEF IsNext, EnvOf
<1>3. i \in DOMAIN gs /\ gs[i] = fs[i]
  BY <1>1, <1>2
<1>4. \A x : Seen(gs, i - 1, x) <=> Seen(fs, i - 1, x)
  <2>1. \A j \in 1..(i - 1) : gs[j] = fs[j]
    BY <1>1, <1>2
  <2> QED
    BY <2>1 DEF Seen
<1>5. \A h : FrameSound(h, gs, i) <=> FrameSound(h, fs, i)
  BY <1>3, <1>4 DEF FrameSound
<1>6. Divides(gs, i) <=> Divides(fs, i)
  BY <1>3 DEF Divides
<1>7. Outside(gs, i) = Outside(fs, i)
  <2>1. \A j \in 1..(i - 1) : EnvOf(gs, j) = EnvOf(fs, j)
    BY <1>1, <1>2
  <2>2. \A j \in 1..i : gs[j].into = fs[j].into
    BY <1>1, <1>2
  <2> QED
    BY <2>1, <2>2 DEF Outside
<1>8. Inside(gs, i) = Inside(fs, i) \cup EnvOf(gs, Len(gs)) \cup HeldInto(gs[Len(gs)].into)
  <2>1. i..Len(gs) = (i..Len(fs)) \cup {Len(gs)} /\ (i + 1)..Len(gs) = ((i + 1)..Len(fs)) \cup {Len(gs)}
    BY <1>1
  <2>2. \A j \in i..Len(fs) : EnvOf(gs, j) = EnvOf(fs, j)
    BY <1>1, <1>2
  <2>3. \A j \in (i + 1)..Len(fs) : gs[j].into = fs[j].into
    BY <1>1, <1>2
  <2>4. UNION {EnvOf(gs, j) : j \in i..Len(gs)} = (UNION {EnvOf(fs, j) : j \in i..Len(fs)}) \cup EnvOf(gs, Len(gs))
    BY <2>1, <2>2
  <2>5. UNION {HeldInto(gs[j].into) : j \in (i + 1)..Len(gs)}
            = (UNION {HeldInto(fs[j].into) : j \in (i + 1)..Len(fs)}) \cup HeldInto(gs[Len(gs)].into)
    BY <2>1, <2>3
  <2> QED
    BY <2>4, <2>5 DEF Inside
<1> QED
  BY <1>3, <1>5, <1>6, <1>7, <1>8

\* A call begins.
LEMMA AppendFrame ==
    ASSUME NEW fs, FramesTyped(fs), NEW f \in Frame, NEW gs, gs = Append(fs, f)
    PROVE  IsNext(fs, gs) /\ gs[Len(gs)] = f /\ DOMAIN gs = DOMAIN fs \cup {Len(gs)}
<1>1. fs \in Seq(Frame) /\ Len(fs) \in Nat /\ DOMAIN fs = 1..Len(fs)
  BY DEF FramesTyped
<1>2. /\ gs \in Seq(Frame) /\ Len(gs) = Len(fs) + 1
      /\ \A j \in 1..Len(fs) : gs[j] = fs[j]
      /\ gs[Len(fs) + 1] = f
  BY <1>1
<1>3. DOMAIN gs = 1..Len(gs)
  BY <1>2
<1>4. 1..Len(gs) = (1..Len(fs)) \cup {Len(gs)}
  BY <1>1, <1>2
<1> QED
  BY <1>1, <1>2, <1>3, <1>4 DEF IsNext, FramesTyped

\* A call ends.
LEMMA FrontFrame ==
    ASSUME NEW fs, FramesTyped(fs), Len(fs) > 1
    PROVE  IsNext(Front(fs), fs)
<1>1. fs \in Seq(Frame) /\ Len(fs) \in Nat /\ DOMAIN fs = 1..Len(fs)
  BY DEF FramesTyped
<1>2. Front(fs) = [j \in 1..(Len(fs) - 1) |-> fs[j]]
  BY <1>1 DEF Front
<1>3. \A j \in 1..(Len(fs) - 1) : fs[j] \in Frame
  BY <1>1
<1>4. Len(fs) - 1 \in Nat /\ Front(fs) \in [1..(Len(fs) - 1) -> Frame]
  BY <1>1, <1>2, <1>3
<1>5. Front(fs) \in Seq(Frame) /\ Len(Front(fs)) = Len(fs) - 1
  BY <1>4
<1> QED
  BY <1>1, <1>2, <1>5 DEF IsNext, FramesTyped

\* The invariant holds when a call has ended.
LEMMA FrontSound ==
    ASSUME NEW h, NEW fs, Sound(h, fs), Len(fs) > 1
    PROVE  Sound(h, Front(fs))
<1>1. FramesTyped(fs) /\ IsNext(Front(fs), fs) /\ FramesTyped(Front(fs))
  BY FrontFrame DEF Sound, IsNext
<1>2. ASSUME NEW i \in DOMAIN Front(fs) PROVE FrameSound(h, Front(fs), i)
  BY <1>1, NextFrame DEF Sound
<1>3. ASSUME NEW i \in DOMAIN Front(fs), Divides(Front(fs), i)
      PROVE  \E S, T \in SUBSET Ids : Halves(h, S, T, Front(fs), i)
  <2>1. i \in DOMAIN fs /\ Divides(fs, i)
    BY <1>1, <1>3, NextFrame
  <2>2. PICK S, T \in SUBSET Ids : Halves(h, S, T, fs, i)
    BY <2>1 DEF Sound
  <2>3. Inside(Front(fs), i) \subseteq Inside(fs, i) /\ Outside(Front(fs), i) = Outside(fs, i)
    BY <1>1, NextFrame
  <2>4. Halves(h, S, T, Front(fs), i)
    BY <2>2, <2>3 DEF Halves, Has
  <2> QED
    BY <2>4
<1> QED
  BY <1>1, <1>2, <1>3 DEF Sound

-----------------------------------------------------------------------------
(* Results, and where they can go                                          *)

\* On every division of the heap the value is within the half of the running
\* call, as is the array that it is put in.
Fits(h, fs, v, into) ==
    /\ v \in Ids /\ h[v].type # "free"
    /\ \A i \in DOMAIN fs : Divides(fs, i) =>
          \E S, T \in SUBSET Ids : /\ Halves(h, S, T, fs, i)
                                   /\ Has(h, S, {v}) /\ Has(h, S, HeldInto(into))

\* What an expression without a call evaluates to is the running call's.
LEMMA ResultServes ==
    ASSUME ValuesInv, NEW r \in Results
    PROVE  /\ IsResult(heap, r)
           /\ \A i \in DOMAIN frames : \A S, T \in SUBSET Ids :
                 Divides(frames, i) /\ Halves(heap, S, T, frames, i) => Serves(heap, r, S, T)
<1>1. HeapTyped(heap) /\ FramesTyped(frames) /\ 1 \in DOMAIN frames
  BY DEF ValuesInv, Sound, FramesTyped
<1>2. CASE \E v \in Existing : r = [value |-> v, heap |-> heap]
  <2>1. PICK v \in Existing : r = [value |-> v, heap |-> heap]
    BY <1>2
  <2>2. r.value = v /\ r.heap = heap
    BY <2>1
  <2>3. IsResult(heap, r)
    <3>1. Divides(frames, 1)
      BY DEF Divides
    <3>2. PICK S, T \in SUBSET Ids : Halves(heap, S, T, frames, 1)
      BY <1>1, <3>1 DEF ValuesInv, Sound
    <3>3. Has(heap, S, Existing)
      BY <1>1, <3>1, <3>2, NamedInside
    <3> QED
      BY <1>1, <2>2, <3>3 DEF Has, IsResult, Grown
  <2>4. ASSUME NEW i \in DOMAIN frames, NEW S \in SUBSET Ids, NEW T \in SUBSET Ids, Divides(frames, i),
               Halves(heap, S, T, frames, i)
        PROVE  Serves(heap, r, S, T)
    <3>1. Has(heap, S, Existing)
      BY <2>4, NamedInside
    <3> QED
      BY <2>2, <2>4, <3>1 DEF Has, Serves, Halves
  <2> QED
    BY <2>3, <2>4
<1>3. CASE r \in Made(heap, EmptyArray)
  <2>1. r \in Made(heap, Scalar("array")) /\ "array" \in Scalars \cup {"array"}
    BY <1>3 DEF EmptyArray, Scalar
  <2>2. /\ IsResult(heap, r)
        /\ \A S, T \in SUBSET Ids :
              S \cap T = {} /\ Kept(heap, S) /\ Kept(heap, T) => Serves(heap, r, S, T)
    BY <1>1, <2>1, MadeServes
  <2> QED
    BY <2>2 DEF Halves
<1> QED
  BY <1>2, <1>3 DEF Results

\* The half grows by what the result needs.
LEMMA ServedHalves ==
    ASSUME NEW h, NEW r, Grown(h, r.heap), NEW S \in SUBSET Ids, NEW T \in SUBSET Ids, NEW fs, NEW i,
           Halves(h, S, T, fs, i), Serves(h, r, S, T)
    PROVE  \E S2 \in SUBSET Ids : S \subseteq S2 /\ Halves(r.heap, S2, T, fs, i) /\ Has(r.heap, S2, {r.value})
<1>1. PICK S2 \in SUBSET Ids : /\ S \subseteq S2 /\ S2 \cap T = {}
                               /\ Kept(r.heap, S2) /\ Has(r.heap, S2, {r.value})
  BY DEF Serves
<1>2. Halves(r.heap, S, T, fs, i)
  BY HalvesGrow
<1>3. Halves(r.heap, S2, T, fs, i)
  BY <1>1, <1>2 DEF Halves, Has
<1> QED
  BY <1>1, <1>3

\* The running call can store its result in its own variables and arrays.
LEMMA ResultFits ==
    ASSUME ValuesInv, NEW r \in Results, NEW into, HeldInto(into) \subseteq Arrays
    PROVE  Grown(heap, r.heap) /\ Sound(r.heap, frames) /\ Fits(r.heap, frames, r.value, into)
<1>1. IsResult(heap, r) /\ Grown(heap, r.heap)
  BY ResultServes DEF IsResult
<1>2. Sound(r.heap, frames)
  BY <1>1, GrownSound DEF ValuesInv
<1>3. ASSUME NEW i \in DOMAIN frames, Divides(frames, i)
      PROVE  \E S, T \in SUBSET Ids : /\ Halves(r.heap, S, T, frames, i)
                                      /\ Has(r.heap, S, {r.value}) /\ Has(r.heap, S, HeldInto(into))
  <2>1. PICK S, T \in SUBSET Ids : Halves(heap, S, T, frames, i)
    BY <1>3 DEF ValuesInv, Sound
  <2>2. Serves(heap, r, S, T)
    BY <1>3, <2>1, ResultServes
  <2>3. PICK S2 \in SUBSET Ids : /\ S \subseteq S2 /\ Halves(r.heap, S2, T, frames, i)
                                 /\ Has(r.heap, S2, {r.value})
    BY <1>1, <2>1, <2>2, ServedHalves
  <2>4. Arrays \subseteq S
    BY <1>3, <2>1, NamedInside
  <2>5. Has(r.heap, S2, HeldInto(into))
    BY <2>3, <2>4 DEF Halves, Kept, Has
  <2> QED
    BY <2>3, <2>5
<1> QED
  BY <1>1, <1>2, <1>3 DEF Fits, IsResult

\* The result of the running call, where its caller wants it.
LEMMA ReturnFits ==
    ASSUME ValuesInv, NEW r \in Results, Len(frames) > 1, NEW into, into = frames[Len(frames)].into
    PROVE  /\ Grown(heap, r.heap) /\ Sound(r.heap, Front(frames))
           /\ Fits(r.heap, Front(frames), r.value, into)
<1>1. HeldInto(<<>>) = {}
  BY DEF HeldInto
<1>2. Grown(heap, r.heap) /\ Sound(r.heap, frames) /\ Fits(r.heap, frames, r.value, <<>>)
  BY <1>1, ResultFits
<1>3. FramesTyped(frames) /\ IsNext(Front(frames), frames)
  BY <1>2, FrontFrame DEF Sound
<1>4. ASSUME NEW i \in DOMAIN Front(frames), Divides(Front(frames), i)
      PROVE  \E S, T \in SUBSET Ids : /\ Halves(r.heap, S, T, Front(frames), i)
                                      /\ Has(r.heap, S, {r.value}) /\ Has(r.heap, S, HeldInto(into))
  <2>1. i \in DOMAIN frames /\ Divides(frames, i)
    BY <1>3, <1>4, NextFrame
  <2>2. PICK S, T \in SUBSET Ids : Halves(r.heap, S, T, frames, i) /\ Has(r.heap, S, {r.value})
    BY <1>2, <2>1 DEF Fits
  <2>3. /\ Inside(Front(frames), i) \subseteq Inside(frames, i)
        /\ Outside(Front(frames), i) = Outside(frames, i)
        /\ HeldInto(into) \subseteq Inside(frames, i)
    BY <1>3, NextFrame
  <2>4. Halves(r.heap, S, T, Front(frames), i) /\ Has(r.heap, S, HeldInto(into))
    BY <2>2, <2>3 DEF Halves, Has
  <2> QED
    BY <2>2, <2>4
<1> QED
  BY <1>2, <1>4, FrontSound DEF Fits

\* A converted result has the type asked for, and can go where the result could.
LEMMA ConvertedFits ==
    ASSUME NEW fs, NEW r, Sound(r.heap, fs), NEW into, Fits(r.heap, fs, r.value, into),
           NEW type, NEW c \in Converted(r, type)
    PROVE  /\ Grown(r.heap, c.heap) /\ Sound(c.heap, fs) /\ Fits(c.heap, fs, c.value, into)
           /\ c.heap[c.value].type = type
<1>1. CASE r.heap[r.value].type = type
  BY <1>1 DEF Converted, Sound, Grown
<1>2. CASE r.heap[r.value].type # type
  <2>1. type = "double" /\ c \in Made(r.heap, Scalar(type)) /\ type \in Scalars \cup {"array"}
    BY <1>2 DEF Converted, Scalars
  <2>2. HeapTyped(r.heap)
    BY DEF Sound
  <2>3. c.value \in Ids /\ Grown(r.heap, c.heap) /\ c.heap[c.value].type = type
    BY <2>1, <2>2, MadeGrows
  <2>4. \A S : Has(c.heap, S, {c.value})
    BY <2>1, <2>3 DEF Has
  <2>5. Fits(c.heap, fs, c.value, into)
    <3>1. ASSUME NEW i \in DOMAIN fs, Divides(fs, i)
          PROVE  \E S, T \in SUBSET Ids : /\ Halves(c.heap, S, T, fs, i)
                                          /\ Has(c.heap, S, {c.value}) /\ Has(c.heap, S, HeldInto(into))
      <4>1. PICK S, T \in SUBSET Ids : Halves(r.heap, S, T, fs, i) /\ Has(r.heap, S, HeldInto(into))
        BY <3>1 DEF Fits
      <4> QED
        BY <2>3, <2>4, <4>1, HalvesGrow, HasGrows
    <3> QED
      BY <2>1, <2>3, <3>1 DEF Fits
  <2> QED
    BY <2>3, <2>5, GrownSound
<1> QED
  BY <1>1, <1>2

-----------------------------------------------------------------------------
(* Storing                                                                 *)

\* What Bind does to the frames.
LEMMA BindFrames ==
    ASSUME NEW fs, FramesTyped(fs), NEW s \in DOMAIN fs, NEW x \in Vars \cup {"p"}, NEW v \in Ids,
           NEW gs, gs = Bind(fs, s, x, v)
    PROVE  /\ FramesTyped(gs) /\ DOMAIN gs = DOMAIN fs /\ Len(gs) = Len(fs)
           /\ \A j \in DOMAIN fs : gs[j].call = fs[j].call /\ gs[j].into = fs[j].into
           /\ \A j \in DOMAIN fs : j # s => gs[j] = fs[j]
           /\ DOMAIN gs[s].env = DOMAIN fs[s].env \cup {x} /\ gs[s].env[x] = v
           /\ \A y \in DOMAIN fs[s].env : y # x => gs[s].env[y] = fs[s].env[y]
<1>1. fs \in Seq(Frame) /\ Len(fs) \in Nat \ {0} /\ DOMAIN fs = 1..Len(fs) /\ fs[s] \in Frame
  BY DEF FramesTyped
<1>2. PICK env : env = [y \in DOMAIN fs[s].env \cup {x} |-> IF y = x THEN v ELSE fs[s].env[y]]
  OBVIOUS
<1>3. PICK f : f = [fs[s] EXCEPT !.env = env]
  OBVIOUS
<1>4. gs = [fs EXCEPT ![s] = f]
  BY <1>2, <1>3 DEF Bind
<1>5. f \in Frame /\ f.call = fs[s].call /\ f.into = fs[s].into /\ f.env = env
  <2>1. DOMAIN fs[s].env \subseteq Vars \cup {"p"} /\ \A y \in DOMAIN fs[s].env : fs[s].env[y] \in Ids
    BY <1>1, FrameTyped
  <2>2. DOMAIN fs[s].env \cup {x} \in SUBSET (Vars \cup {"p"})
    BY <2>1
  <2>3. env \in [DOMAIN fs[s].env \cup {x} -> Ids]
    BY <1>2, <2>1
  <2>4. env \in UNION {[X -> Ids] : X \in SUBSET (Vars \cup {"p"})}
    BY <2>2, <2>3
  <2> QED
    BY <1>1, <1>3, <2>4 DEF Frame
<1>6. /\ gs \in Seq(Frame) /\ Len(gs) = Len(fs) /\ DOMAIN gs = DOMAIN fs /\ gs[s] = f
      /\ \A j \in DOMAIN fs : j # s => gs[j] = fs[j]
  BY <1>1, <1>4, <1>5
<1>7. \A j \in DOMAIN fs : gs[j].call = fs[j].call /\ gs[j].into = fs[j].into
  BY <1>5, <1>6
<1>8. /\ DOMAIN gs[s].env = DOMAIN fs[s].env \cup {x} /\ gs[s].env[x] = v
      /\ \A y \in DOMAIN fs[s].env : y # x => gs[s].env[y] = fs[s].env[y]
  BY <1>2, <1>5, <1>6
<1> QED
  BY <1>1, <1>6, <1>7, <1>8 DEF FramesTyped

\* A variable is given a Value of its type.
LEMMA BindSound ==
    ASSUME NEW h, NEW fs, Sound(h, fs), NEW v, NEW into, Fits(h, fs, v, into),
           NEW s \in DOMAIN fs, NEW x \in Vars \cup {"p"}, s = Len(fs) \/ x \in Globals,
           x \in Vars => h[v].type = TypeOf[x]
    PROVE  Sound(h, Bind(fs, s, x, v))
<1>1. PICK gs : gs = Bind(fs, s, x, v)
  OBVIOUS
<1>2. FramesTyped(fs) /\ HeapTyped(h) /\ v \in Ids /\ h[v].type # "free"
  BY DEF Sound, Fits
<1>3. /\ FramesTyped(gs) /\ DOMAIN gs = DOMAIN fs /\ Len(gs) = Len(fs)
      /\ \A j \in DOMAIN fs : gs[j].call = fs[j].call /\ gs[j].into = fs[j].into
      /\ \A j \in DOMAIN fs : j # s => gs[j] = fs[j]
      /\ DOMAIN gs[s].env = DOMAIN fs[s].env \cup {x} /\ gs[s].env[x] = v
      /\ \A y \in DOMAIN fs[s].env : y # x => gs[s].env[y] = fs[s].env[y]
  BY <1>1, <1>2, BindFrames
<1>4. \A j \in DOMAIN fs : DOMAIN fs[j].env \subseteq DOMAIN gs[j].env
  BY <1>3
<1>5. ASSUME NEW i \in DOMAIN gs PROVE FrameSound(h, gs, i)
  <2>1. FrameSound(h, fs, i) /\ i \in DOMAIN fs
    BY <1>3 DEF Sound
  <2>2. \A y \in Vars \cap DOMAIN gs[i].env : h[gs[i].env[y]].type = TypeOf[y]
    <3>1. \A y \in Vars \cap DOMAIN fs[i].env : h[fs[i].env[y]].type = TypeOf[y]
      BY <2>1 DEF FrameSound
    <3> QED
      BY <1>3, <2>1, <3>1
  <2>3. \A y : Seen(fs, i - 1, y) => Seen(gs, i - 1, y)
    <3>1. 1..(i - 1) \subseteq DOMAIN fs
      BY <1>2, <2>1 DEF FramesTyped
    <3> QED
      BY <1>4, <3>1 DEF Seen
  <2>4. gs[i].call = fs[i].call /\ gs[i].into = fs[i].into
    BY <1>3, <2>1
  <2> QED
    BY <2>1, <2>2, <2>3, <2>4 DEF FrameSound
<1>6. \A j \in DOMAIN fs : EnvOf(gs, j) \subseteq EnvOf(fs, j) \cup {v} /\ (j # s => EnvOf(gs, j) = EnvOf(fs, j))
  <2>1. \A j \in DOMAIN fs : j # s => EnvOf(gs, j) = EnvOf(fs, j)
    BY <1>3 DEF EnvOf
  <2>2. EnvOf(gs, s) \subseteq EnvOf(fs, s) \cup {v}
    BY <1>3 DEF EnvOf
  <2> QED
    BY <2>1, <2>2
<1>7. ASSUME NEW i \in DOMAIN gs, Divides(gs, i)
      PROVE  \E S, T \in SUBSET Ids : Halves(h, S, T, gs, i)
  <2>1. i \in DOMAIN fs /\ Divides(fs, i) /\ DOMAIN fs = 1..Len(fs) /\ Len(fs) \in Nat
    BY <1>2, <1>3, <1>7 DEF Divides, FramesTyped
  <2>2. PICK S, T \in SUBSET Ids : Halves(h, S, T, fs, i) /\ Has(h, S, {v})
    BY <2>1 DEF Fits
  <2>3. /\ i..Len(fs) \subseteq DOMAIN fs /\ 1..(i - 1) \subseteq DOMAIN fs
        /\ (i + 1)..Len(fs) \subseteq DOMAIN fs /\ 1..i \subseteq DOMAIN fs
    BY <2>1
  <2>4. /\ UNION {HeldInto(gs[j].into) : j \in (i + 1)..Len(gs)}
               = UNION {HeldInto(fs[j].into) : j \in (i + 1)..Len(fs)}
        /\ UNION {HeldInto(gs[j].into) : j \in 1..i} = UNION {HeldInto(fs[j].into) : j \in 1..i}
    BY <1>3, <2>3
  <2>5. Inside(gs, i) \subseteq Inside(fs, i) \cup {v}
    <3>1. UNION {EnvOf(gs, j) : j \in i..Len(gs)} \subseteq (UNION {EnvOf(fs, j) : j \in i..Len(fs)}) \cup {v}
      BY <1>3, <1>6, <2>3
    <3> QED
      BY <2>4, <3>1 DEF Inside
  <2>6. CASE s \notin 1..(i - 1)
    <3>1. UNION {EnvOf(gs, j) : j \in 1..(i - 1)} = UNION {EnvOf(fs, j) : j \in 1..(i - 1)}
      BY <1>6, <2>3, <2>6
    <3>2. Outside(gs, i) = Outside(fs, i)
      BY <2>4, <3>1 DEF Outside
    <3>3. Halves(h, S, T, gs, i)
      BY <2>2, <2>5, <3>2 DEF Halves, Has
    <3> QED
      BY <3>3
  <2>7. CASE s \in 1..(i - 1)
    <3>1. i # 1 /\ s # Len(fs)
      BY <2>1, <2>7
    <3>2. x \in Vars /\ h[v].type # "array"
      BY <2>1, <3>1, ValuesAssumption DEF Divides, ScalarGlobals
    <3>3. UNION {EnvOf(gs, j) : j \in 1..(i - 1)} \subseteq (UNION {EnvOf(fs, j) : j \in 1..(i - 1)}) \cup {v}
      BY <1>6, <2>3
    <3>4. Outside(gs, i) \subseteq Outside(fs, i) \cup {v}
      BY <2>4, <3>3 DEF Outside
    <3>5. Halves(h, S, T, gs, i)
      BY <1>2, <2>2, <2>5, <3>2, <3>4 DEF Halves, Has
    <3> QED
      BY <3>5
  <2> QED
    BY <2>6, <2>7
<1>8. Sound(h, gs)
  BY <1>3, <1>5, <1>7 DEF Sound
<1> QED
  BY <1>1, <1>8

\* The array v with the value w put at k.
Put(h, v, k, w) ==
    [h EXCEPT ![v].elems = [j \in DOMAIN @ \cup {k} |-> IF j = k THEN w ELSE @[j]]]

\* What Put does to the heap.
LEMMA PutHeap ==
    ASSUME NEW h, HeapTyped(h), NEW v \in Ids, h[v].type = "array", NEW k \in Keys, NEW w \in Ids,
           NEW h2, h2 = Put(h, v, k, w)
    PROVE  /\ HeapTyped(h2) /\ \A u \in Ids : h2[u].type = h[u].type /\ (u # v => h2[u] = h[u])
           /\ DOMAIN h2[v].elems = DOMAIN h[v].elems \cup {k}
           /\ Elements(h2, v) \subseteq Elements(h, v) \cup {w}
<1> DEFINE R == [type : Scalars \cup {"array", "free"}, elems : UNION {[D -> Ids] : D \in SUBSET Keys}]
<1>1. h \in [Ids -> R] /\ \A u \in Ids : h[u].type # "array" => DOMAIN h[u].elems = {}
  BY DEF HeapTyped
<1>2. PICK elems : elems = [j \in DOMAIN h[v].elems \cup {k} |-> IF j = k THEN w ELSE h[v].elems[j]]
  OBVIOUS
<1>3. PICK f : f = [h[v] EXCEPT !.elems = elems]
  OBVIOUS
<1>4. h2 = [h EXCEPT ![v] = f]
  BY <1>2, <1>3 DEF Put
<1>5. f \in R /\ f.type = h[v].type /\ f.elems = elems
  <2>1. DOMAIN h[v].elems \subseteq Keys /\ \A j \in DOMAIN h[v].elems : h[v].elems[j] \in Ids
    BY ElementsTyped
  <2>2. DOMAIN h[v].elems \cup {k} \in SUBSET Keys
    BY <2>1
  <2>3. elems \in [DOMAIN h[v].elems \cup {k} -> Ids]
    BY <1>2, <2>1
  <2>4. elems \in UNION {[D -> Ids] : D \in SUBSET Keys}
    BY <2>2, <2>3
  <2>5. h[v] \in R
    BY <1>1
  <2> QED
    BY <1>3, <2>4, <2>5
<1>6. h2 \in [Ids -> R] /\ h2[v] = f /\ \A u \in Ids : u # v => h2[u] = h[u]
  <2> HIDE DEF R
  <2> QED
    BY <1>1, <1>4, <1>5
<1>7. \A u \in Ids : h2[u].type = h[u].type
  BY <1>5, <1>6
<1>8. \A u \in Ids : h2[u].type # "array" => DOMAIN h2[u].elems = {}
  BY <1>1, <1>6, <1>7
<1>9. DOMAIN h2[v].elems = DOMAIN h[v].elems \cup {k}
  BY <1>2, <1>5, <1>6
<1>10. Elements(h2, v) \subseteq Elements(h, v) \cup {w}
  BY <1>2, <1>5, <1>6 DEF Elements
<1> QED
  BY <1>6, <1>7, <1>8, <1>9, <1>10 DEF HeapTyped

\* An array of the running call is given an element of the running call.
LEMMA PutSound ==
    ASSUME NEW h, NEW fs, Sound(h, fs), NEW into \in Intos, into # <<>>,
           into[1] \in {"element", "append"}, h[into[2]].type = "array",
           NEW w, Fits(h, fs, w, into), NEW k \in Keys
    PROVE  Sound(Put(h, into[2], k, w), fs)
<1>1. PICK v : v = into[2]
  OBVIOUS
<1>2. v \in Ids /\ h[v].type = "array" /\ HeldInto(into) = {v} /\ HeapTyped(h) /\ FramesTyped(fs)
      /\ w \in Ids /\ h[w].type # "free"
  BY <1>1, IntoTyped DEF HeldInto, Sound, Fits
<1>3. PICK h2 : h2 = Put(h, v, k, w)
  OBVIOUS
<1>4. /\ HeapTyped(h2) /\ \A u \in Ids : h2[u].type = h[u].type /\ (u # v => h2[u] = h[u])
      /\ Elements(h2, v) \subseteq Elements(h, v) \cup {w}
  BY <1>2, <1>3, PutHeap
<1>5. h2[1] = Scalar("int") /\ h2[2] = Scalar("double")
  BY <1>2, <1>4, LiteralsAreIds DEF Sound, Scalar
<1>6. ASSUME NEW A, NEW W, Has(h, A, W) PROVE Has(h2, A, W)
  BY <1>4, <1>6 DEF Has
<1>7. ASSUME NEW A, Kept(h, A), v \in A => Has(h, A, {w}) PROVE Kept(h2, A)
  <2>1. ASSUME NEW u \in A PROVE h2[u].type = "array" /\ Has(h2, A, Elements(h2, u))
    <3>1. u \in Ids /\ h[u].type = "array" /\ Has(h, A, Elements(h, u)) /\ h2[u].type = "array"
      BY <1>4, <1>7 DEF Kept
    <3>2. CASE u = v
      <4>1. Has(h, A, Elements(h2, u))
        BY <1>4, <1>7, <3>1, <3>2 DEF Has
      <4> QED
        BY <1>6, <3>1, <4>1
    <3>3. CASE u # v
      <4>1. Elements(h2, u) = Elements(h, u)
        BY <1>4, <3>1, <3>3 DEF Elements
      <4> QED
        BY <1>6, <3>1, <4>1
    <3> QED
      BY <3>2, <3>3
  <2> QED
    BY <1>7, <2>1 DEF Kept
<1>8. ASSUME NEW i \in DOMAIN fs, Divides(fs, i)
      PROVE  /\ \E S, T \in SUBSET Ids : Halves(h2, S, T, fs, i)
             /\ v \notin HeldInto(fs[i].into)
  <2>1. PICK S, T \in SUBSET Ids : Halves(h, S, T, fs, i) /\ Has(h, S, {w}) /\ Has(h, S, {v})
    BY <1>2, <1>8 DEF Fits
  <2>2. v \in S /\ v \notin T
    BY <1>2, <2>1 DEF Has, Halves
  <2>3. Halves(h2, S, T, fs, i)
    BY <1>6, <1>7, <2>1, <2>2 DEF Halves
  <2>4. HeldInto(fs[i].into) \subseteq Outside(fs, i)
    BY <1>2 DEF Outside, FramesTyped
  <2>5. v \notin HeldInto(fs[i].into)
    BY <1>2, <2>1, <2>2, <2>4 DEF Halves, Has
  <2> QED
    BY <2>3, <2>5
<1>9. ASSUME NEW i \in DOMAIN fs PROVE FrameSound(h2, fs, i)
  <2>1. FrameSound(h, fs, i) /\ fs[i] \in Frame
    BY <1>2 DEF Sound, FramesTyped
  <2>2. fs[i].into \in Intos /\ \A x \in DOMAIN fs[i].env : fs[i].env[x] \in Ids
    BY <2>1, FrameTyped
  <2>3. \A x \in Vars \cap DOMAIN fs[i].env : h2[fs[i].env[x]].type = TypeOf[x]
    BY <1>4, <2>1, <2>2 DEF FrameSound
  <2>4. fs[i].call = "expression" =>
            LET to == fs[i].into
            IN  /\ to # <<>>
                /\ to[1] = "assign" => Seen(fs, i - 1, to[2])
                /\ to[1] \in {"element", "append"} => h2[to[2]].type = "array"
                /\ ScalarGlobals /\ to[1] = "append" => to[3] = Cardinality(DOMAIN h2[to[2]].elems)
    <3> SUFFICES ASSUME fs[i].call = "expression"
                 PROVE  /\ fs[i].into # <<>>
                        /\ fs[i].into[1] = "assign" => Seen(fs, i - 1, fs[i].into[2])
                        /\ fs[i].into[1] \in {"element", "append"} => h2[fs[i].into[2]].type = "array"
                        /\ ScalarGlobals /\ fs[i].into[1] = "append" =>
                              fs[i].into[3] = Cardinality(DOMAIN h2[fs[i].into[2]].elems)
      OBVIOUS
    <3>1. /\ fs[i].into # <<>>
          /\ fs[i].into[1] = "assign" => Seen(fs, i - 1, fs[i].into[2])
          /\ fs[i].into[1] \in {"element", "append"} => h[fs[i].into[2]].type = "array"
          /\ ScalarGlobals /\ fs[i].into[1] = "append" =>
                fs[i].into[3] = Cardinality(DOMAIN h[fs[i].into[2]].elems)
      BY <2>1 DEF FrameSound
    <3>2. fs[i].into[1] \in {"element", "append"} => fs[i].into[2] \in Ids
      BY <2>2, <3>1, IntoTyped
    <3>3. ScalarGlobals /\ fs[i].into[1] = "append" => fs[i].into[2] # v
      BY <1>8, <3>1 DEF Divides, HeldInto
    <3> QED
      BY <1>4, <3>1, <3>2, <3>3
  <2> QED
    BY <2>1, <2>3, <2>4 DEF FrameSound
<1>10. Sound(h2, fs)
  BY <1>2, <1>4, <1>5, <1>8, <1>9 DEF Sound
<1> QED
  BY <1>1, <1>3, <1>10

\* Where a result can go.
Ready(h, fs, into) ==
    /\ into \in Intos /\ into # <<>>
    /\ into[1] = "assign" => Scopes(fs, into[2]) # {}
    /\ into[1] \in {"element", "append"} => h[into[2]].type = "array"

\* Storing a result that fits; and a scalar is never written to.
LEMMA StoreSound ==
    ASSUME NEW fs, NEW into, NEW r, Sound(r.heap, fs), Ready(r.heap, fs, into),
           Fits(r.heap, fs, r.value, into), Store(fs, into, r), overflow \in BOOLEAN
    PROVE  ValuesInv' /\ \A u \in Ids : r.heap[u].type \in Scalars => heap'[u] \in {r.heap[u], Free}
<1>1. FramesTyped(fs) /\ HeapTyped(r.heap)
  BY DEF Sound
<1>2. ASSUME NEW x \in Vars \cup {"p"}, NEW s \in DOMAIN fs, s = Len(fs) \/ x \in Globals, NEW type,
             x \in Vars => type = TypeOf[x], StoreInVariable(fs, x, s, type, r)
      PROVE  ValuesInv' /\ \A u \in Ids : r.heap[u].type \in Scalars => heap'[u] \in {r.heap[u], Free}
  <2>1. PICK c \in Converted(r, type) : Finish(c.heap, Bind(fs, s, x, c.value))
    BY <1>2 DEF StoreInVariable
  <2>2. /\ Grown(r.heap, c.heap) /\ Sound(c.heap, fs) /\ Fits(c.heap, fs, c.value, into)
        /\ c.heap[c.value].type = type
    BY ConvertedFits
  <2>3. Sound(c.heap, Bind(fs, s, x, c.value))
    BY <1>2, <2>2, BindSound
  <2>4. ValuesInv' /\ \A u \in Ids : heap'[u] \in {c.heap[u], Free}
    BY <2>1, <2>3, FinishSound
  <2>5. \A u \in Ids : r.heap[u].type \in Scalars => c.heap[u] = r.heap[u]
    BY <2>2 DEF Grown, Scalars
  <2> QED
    BY <2>4, <2>5
<1>3. CASE into[1] = "declare" /\ StoreInVariable(fs, into[2], Len(fs), TypeOf[into[2]], r)
  <2>1. into[2] \in Vars /\ Len(fs) \in DOMAIN fs
    BY <1>1, <1>3, IntoTyped DEF Ready, FramesTyped
  <2> QED
    BY <1>2, <1>3, <2>1
<1>4. CASE into[1] = "assign"
           /\ StoreInVariable(fs, into[2], ScopeOf(fs, into[2]), r.heap[ValueOf(fs, into[2])].type, r)
  <2>1. PICK x, s : x = into[2] /\ s = ScopeOf(fs, x)
    OBVIOUS
  <2>2. x \in Vars \cup {"p"} /\ Scopes(fs, x) # {}
    BY <1>4, <2>1, IntoTyped DEF Ready
  <2>3. s \in DOMAIN fs /\ x \in DOMAIN fs[s].env /\ (s = Len(fs) \/ x \in Globals)
    BY <1>1, <2>1, <2>2, ScopeSound
  <2>4. x \in Vars => r.heap[ValueOf(fs, x)].type = TypeOf[x]
    BY <2>1, <2>3 DEF Sound, FrameSound, ValueOf
  <2> QED
    BY <1>2, <1>4, <2>1, <2>2, <2>3, <2>4
<1>5. CASE into[1] \in {"element", "append"} /\ StoreInArray(fs, into[2], into[3], r)
  <2>1. into[3] \in Keys /\ Finish(Put(r.heap, into[2], into[3], r.value), fs)
    BY <1>5 DEF StoreInArray, Put
  <2>2. Sound(Put(r.heap, into[2], into[3], r.value), fs)
    BY <1>5, <2>1, PutSound DEF Ready
  <2>3. ValuesInv' /\ \A u \in Ids : heap'[u] \in {Put(r.heap, into[2], into[3], r.value)[u], Free}
    BY <2>1, <2>2, FinishSound
  <2>4. into[2] \in Ids /\ r.heap[into[2]].type = "array" /\ r.value \in Ids
    BY <1>5, IntoTyped DEF Ready, Fits
  <2>5. \A u \in Ids : u # into[2] => Put(r.heap, into[2], into[3], r.value)[u] = r.heap[u]
    BY <1>1, <2>1, <2>4, PutHeap
  <2> QED
    BY <2>3, <2>4, <2>5 DEF Scalars
<1> QED
  BY <1>3, <1>4, <1>5 DEF Store

-----------------------------------------------------------------------------
(* Cloning                                                                 *)

\* The clone is of new Values: its arrays lead to no others.
LEMMA CloneSound ==
    ASSUME NEW r, HeapTyped(r.heap), r.value \in Ids, ~Knotted(r.heap, r.value), NEW c \in Clone(r),
           NEW S \in SUBSET Ids, Kept(r.heap, S), Has(r.heap, S, {r.value})
    PROVE  /\ c.value \in Ids /\ Grown(r.heap, c.heap)
           /\ \E N \in SUBSET FreeIds(r.heap) : Kept(c.heap, N) /\ Has(c.heap, N, {c.value})
<1>1. PICK h, v : h = r.heap /\ v = r.value
  OBVIOUS
<1>2. PICK at : at = Paths(h, v)
  OBVIOUS
<1>3. /\ <<>> \in DOMAIN at /\ at[<<>>] = v
      /\ \A p \in DOMAIN at :
            /\ at[p] \in Ids /\ at[p] \in Reach(h, {v})
            /\ \A k \in DOMAIN h[at[p]].elems :
                  Append(p, k) \in DOMAIN at /\ at[Append(p, k)] = h[at[p]].elems[k]
  <2>1. HeapTyped(h) /\ v \in Ids /\ ~Knotted(h, v)
    BY <1>1
  <2> QED
    BY <1>2, <2>1, PathsSound
<1>4. \A p \in DOMAIN at : h[at[p]].type # "free"
  <2>1. HeapTyped(h) /\ Kept(h, S) /\ Has(h, S, {v})
    BY <1>1
  <2>2. Has(h, S, Reach(h, {v}))
    BY <2>1, ReachHas
  <2> QED
    BY <1>3, <2>2 DEF Has
<1>5. PICK place : /\ place \in Places(h, DOMAIN at)
                   /\ c = [value |-> place[<<>>], heap |-> Copied(h, at, place)]
  <2>1. Places(h, DOMAIN at) # {}
    BY <1>1, <1>2 DEF Clone
  <2>2. c = [value |-> (CHOOSE f \in Places(h, DOMAIN at) : TRUE)[<<>>],
             heap |-> Copied(h, at, CHOOSE f \in Places(h, DOMAIN at) : TRUE)]
    BY <1>1, <1>2, <2>1 DEF Clone
  <2> QED
    BY <2>1, <2>2
<1>6. /\ place \in [DOMAIN at -> FreeIds(h)]
      /\ \A p, q \in DOMAIN at : place[p] = place[q] => p = q
  BY <1>5 DEF Places
<1>7. \A u \in FreeIds(h) : u \in Ids /\ h[u].type = "free"
  BY FreeTyped DEF FreeIds
<1>8. PICK h2 : h2 = Copied(h, at, place)
  OBVIOUS
<1>9. c.value = place[<<>>] /\ c.heap = h2 /\ c.value \in Ids
  BY <1>3, <1>5, <1>6, <1>7, <1>8
<1> DEFINE Copy(p) == [type  |-> h[at[p]].type,
                       elems |-> [k \in DOMAIN h[at[p]].elems |-> place[Append(p, k)]]]
           R == [type : Scalars \cup {"array", "free"}, elems : UNION {[D -> Ids] : D \in SUBSET Keys}]
<1>10. h2 = [u \in Ids |-> IF u \in {place[p] : p \in DOMAIN at}
                           THEN Copy(CHOOSE p \in DOMAIN at : place[p] = u) ELSE h[u]]
  BY <1>8 DEF Copied
<1>11. ASSUME NEW p \in DOMAIN at
       PROVE  /\ h2[place[p]].type = h[at[p]].type
              /\ h2[place[p]].elems = [k \in DOMAIN h[at[p]].elems |-> place[Append(p, k)]]
              /\ h2[place[p]] \in R
  <2>1. place[p] \in Ids /\ (CHOOSE q \in DOMAIN at : place[q] = place[p]) = p
    BY <1>6, <1>7
  <2>2. h2[place[p]] = Copy(p)
    <3> HIDE DEF Copy
    <3> QED
      BY <1>10, <2>1
  <2>3. at[p] \in Ids /\ HeapTyped(h)
    BY <1>1, <1>3
  <2>4. h[at[p]].type \in Scalars \cup {"array", "free"} /\ DOMAIN h[at[p]].elems \in SUBSET Keys
    BY <2>3, ElementsTyped
  <2>5. [k \in DOMAIN h[at[p]].elems |-> place[Append(p, k)]] \in [DOMAIN h[at[p]].elems -> Ids]
    BY <1>3, <1>6, <1>7
  <2>6. [k \in DOMAIN h[at[p]].elems |-> place[Append(p, k)]] \in UNION {[D -> Ids] : D \in SUBSET Keys}
    BY <2>4, <2>5
  <2>7. Copy(p) \in R
    BY <2>4, <2>6
  <2> QED
    BY <2>2, <2>7
<1> HIDE DEF Copy
<1>12. \A u \in Ids : u \notin {place[p] : p \in DOMAIN at} => h2[u] = h[u]
  BY <1>10
<1>13. HeapTyped(h2)
  <2>1. h \in [Ids -> R] /\ \A u \in Ids : h[u].type # "array" => DOMAIN h[u].elems = {}
    BY <1>1 DEF HeapTyped
  <2> HIDE DEF R
  <2>2. \A u \in Ids : h2[u] \in R
    BY <1>11, <1>12, <2>1
  <2>3. \A u \in Ids : h2[u].type # "array" => DOMAIN h2[u].elems = {}
    <3>1. ASSUME NEW p \in DOMAIN at, h2[place[p]].type # "array" PROVE DOMAIN h2[place[p]].elems = {}
      BY <1>3, <1>11, <2>1, <3>1
    <3> QED
      BY <1>12, <2>1, <3>1
  <2>4. h2 \in [Ids -> R]
    BY <1>10, <2>2
  <2> QED
    BY <2>3, <2>4 DEF HeapTyped, R
<1>14. Grown(h, h2)
  <2>1. \A u \in Ids : h[u].type # "free" => u \notin {place[p] : p \in DOMAIN at}
    BY <1>6, <1>7
  <2> QED
    BY <1>12, <1>13, <2>1 DEF Grown
<1>15. PICK N : N = {place[p] : p \in {q \in DOMAIN at : h[at[q]].type = "array"}}
  OBVIOUS
<1>16. N \in SUBSET FreeIds(h) /\ N \subseteq Ids
  BY <1>6, <1>7, <1>15
<1>17. ASSUME NEW p \in DOMAIN at PROVE Has(h2, N, {place[p]})
  <2>1. place[p] \in Ids /\ h2[place[p]].type # "free"
    BY <1>4, <1>6, <1>7, <1>11
  <2>2. h2[place[p]].type = "array" => place[p] \in N
    BY <1>11, <1>15
  <2> QED
    BY <2>1, <2>2 DEF Has
<1>18. Has(h2, N, {c.value})
  BY <1>3, <1>9, <1>17
<1>19. ASSUME NEW u \in N PROVE h2[u].type = "array" /\ Has(h2, N, Elements(h2, u))
  <2>1. PICK p \in DOMAIN at : u = place[p] /\ h[at[p]].type = "array"
    BY <1>15
  <2>2. ASSUME NEW w \in Elements(h2, u) PROVE \E q \in DOMAIN at : w = place[q]
    <3>1. w \in {h2[u].elems[k] : k \in DOMAIN h2[u].elems}
      BY <2>2 DEF Elements
    <3>2. PICK g : g = [k \in DOMAIN h[at[p]].elems |-> place[Append(p, k)]]
      OBVIOUS
    <3>3. h2[u].elems = g
      BY <1>11, <2>1, <3>2
    <3>4. PICK k \in DOMAIN g : w = g[k]
      BY <3>1, <3>3
    <3>5. k \in DOMAIN h[at[p]].elems /\ w = place[Append(p, k)]
      BY <3>2, <3>4
    <3> QED
      BY <1>3, <3>5
  <2>3. Has(h2, N, Elements(h2, u))
    BY <1>17, <2>2 DEF Has
  <2> QED
    BY <1>11, <2>1, <2>3
<1> QED
  BY <1>1, <1>9, <1>14, <1>16, <1>18, <1>19 DEF Kept

-----------------------------------------------------------------------------
(* The steps                                                               *)

\* An array has a number of elements.
LEMMA AppendKeyNat ==
    ASSUME NEW h, HeapTyped(h), NEW v \in Ids
    PROVE  IsFiniteSet(DOMAIN h[v].elems) /\ Cardinality(DOMAIN h[v].elems) \in Nat
<1>1. DOMAIN h[v].elems \subseteq 0..MaxKey
  BY ElementsTyped DEF Keys
<1>2. IsFiniteSet(0..MaxKey)
  BY ValuesAssumption, FS_Interval
<1>3. IsFiniteSet(DOMAIN h[v].elems)
  BY <1>1, <1>2, FS_Subset
<1> QED
  BY <1>3, FS_CardinalityType

\* Where the running call can store.
LEMMA TargetsReady ==
    ASSUME ValuesInv, NEW into \in Targets
    PROVE  /\ Ready(heap, frames, into) /\ HeldInto(into) \subseteq Arrays
           /\ into[1] = "append" => into[3] = Cardinality(DOMAIN heap[into[2]].elems)
<1>1. HeapTyped(heap) /\ FramesTyped(frames)
  BY DEF ValuesInv, Sound
<1>2. \A v \in Arrays : v \in Ids /\ heap[v].type = "array"
  <2>1. 1 \in DOMAIN frames /\ Divides(frames, 1)
    BY <1>1 DEF FramesTyped, Divides
  <2>2. PICK S, T \in SUBSET Ids : Halves(heap, S, T, frames, 1)
    BY <2>1 DEF ValuesInv, Sound
  <2>3. Arrays \subseteq S
    BY <2>1, <2>2, NamedInside
  <2> QED
    BY <2>3 DEF Arrays
<1>3. CASE into \in Declarations
  <2>1. PICK x \in (IF Top = 1 THEN Vars ELSE Locals) : into = <<"declare", x>>
    BY <1>3 DEF Declarations
  <2>2. x \in Vars
    BY <2>1, ValuesAssumption
  <2>3. into[1] = "declare" /\ into # <<>> /\ into \in Intos
    BY <2>1, <2>2 DEF Intos
  <2> QED
    BY <2>3 DEF Ready, HeldInto
<1>4. CASE into \in Assignments
  <2>1. PICK x \in Visible : into = <<"assign", x>>
    BY <1>4 DEF Assignments
  <2>2. x \in Vars \cup {"p"} /\ Scopes(frames, x) # {}
    BY DEF Visible
  <2>3. into[1] = "assign" /\ into[2] = x /\ into # <<>> /\ into \in Intos
    BY <2>1, <2>2 DEF Intos
  <2> QED
    BY <2>2, <2>3 DEF Ready, HeldInto
<1>5. CASE into \in ElementPuts
  <2>1. PICK v \in Arrays, k \in Keys : into = <<"element", v, k>>
    BY <1>5 DEF ElementPuts
  <2>2. v \in Ids /\ heap[v].type = "array" /\ k \in Nat
    BY <1>2 DEF Keys
  <2>3. into[1] = "element" /\ into[2] = v /\ into # <<>> /\ into \in Intos
    BY <2>1, <2>2 DEF Intos
  <2> QED
    BY <2>2, <2>3 DEF Ready, HeldInto
<1>6. CASE into \in Appends
  <2>1. PICK v \in Arrays : into = <<"append", v, AppendKey(v)>>
    BY <1>6 DEF Appends
  <2>2. v \in Ids /\ heap[v].type = "array"
    BY <1>2
  <2>3. AppendKey(v) = Cardinality(DOMAIN heap[v].elems) /\ AppendKey(v) \in Nat
    BY <1>1, <2>2, AppendKeyNat DEF AppendKey
  <2>4. into[1] = "append" /\ into[2] = v /\ into[3] = AppendKey(v) /\ into # <<>> /\ into \in Intos
    BY <2>1, <2>2, <2>3 DEF Intos
  <2> QED
    BY <2>2, <2>3, <2>4 DEF Ready, HeldInto
<1> QED
  BY <1>3, <1>4, <1>5, <1>6 DEF Targets

\* What is ready stays ready with new Values.
LEMMA ReadyGrows ==
    ASSUME NEW h, NEW h2, Grown(h, h2), NEW fs, NEW into, Ready(h, fs, into)
    PROVE  Ready(h2, fs, into)
  BY IntoTyped DEF Ready, Grown

\* The running call stores a result.
LEMMA StatementStep ==
    ASSUME ValuesInv, NEW into \in Targets, NEW r \in Results, Store(frames, into, r)
    PROVE  ValuesInv' /\ \A u \in Ids : heap[u].type \in Scalars => heap'[u] \in {heap[u], Free}
<1>1. Ready(heap, frames, into) /\ HeldInto(into) \subseteq Arrays
  BY TargetsReady
<1>2. Grown(heap, r.heap) /\ Sound(r.heap, frames) /\ Fits(r.heap, frames, r.value, into)
  BY <1>1, ResultFits
<1>3. Ready(r.heap, frames, into) /\ overflow \in BOOLEAN
  BY <1>1, <1>2, ReadyGrows DEF ValuesInv
<1>4. ValuesInv' /\ \A u \in Ids : r.heap[u].type \in Scalars => heap'[u] \in {r.heap[u], Free}
  BY <1>2, <1>3, StoreSound
<1>5. \A u \in Ids : heap[u].type \in Scalars => r.heap[u] = heap[u]
  BY <1>2 DEF Grown, Scalars
<1> QED
  BY <1>4, <1>5

\* What the result of the running call is stored in is there.
LEMMA ReturnReady ==
    ASSUME ValuesInv, frames[Top].call = "expression", NEW into, into = frames[Top].into
    PROVE  /\ Len(frames) > 1 /\ Ready(heap, Front(frames), into)
           /\ ScalarGlobals /\ into[1] = "append" => into[3] = Cardinality(DOMAIN heap[into[2]].elems)
<1>1. FramesTyped(frames) /\ Len(frames) \in DOMAIN frames /\ Len(frames) \in Nat
  BY DEF ValuesInv, Sound, FramesTyped
<1>2. FrameSound(heap, frames, Len(frames)) /\ frames[Len(frames)].call = "expression"
      /\ frames[Len(frames)].into = into
  BY <1>1 DEF ValuesInv, Sound, Top
<1>3. Len(frames) > 1
  BY <1>1, <1>2 DEF FrameSound
<1>4. into \in Intos
  <2>1. frames[Len(frames)] \in Frame
    BY <1>1 DEF FramesTyped
  <2> QED
    BY <1>2, <2>1, FrameTyped
<1>5. /\ into # <<>> /\ (into[1] = "assign" => Seen(frames, Len(frames) - 1, into[2]))
      /\ into[1] \in {"element", "append"} => heap[into[2]].type = "array"
      /\ ScalarGlobals /\ into[1] = "append" => into[3] = Cardinality(DOMAIN heap[into[2]].elems)
  BY <1>2 DEF FrameSound
<1>6. ASSUME NEW x, Seen(frames, Len(frames) - 1, x) PROVE Scopes(Front(frames), x) # {}
  <2>1. IsNext(Front(frames), frames)
    BY <1>1, <1>3, FrontFrame
  <2>2. /\ FramesTyped(Front(frames)) /\ Len(Front(frames)) = Len(frames) - 1
        /\ DOMAIN Front(frames) = 1..(Len(frames) - 1)
        /\ \A j \in DOMAIN Front(frames) : frames[j] = Front(frames)[j]
    BY <1>1, <2>1 DEF IsNext, FramesTyped
  <2>3. PICK j \in 1..(Len(frames) - 1) :
            x \in DOMAIN frames[j].env /\ (j = Len(frames) - 1 \/ x \in Globals)
    BY <1>6 DEF Seen
  <2>4. j \in Scopes(Front(frames), x)
    BY <2>2, <2>3 DEF Scopes
  <2> QED
    BY <2>4
<1> QED
  BY <1>3, <1>4, <1>5, <1>6 DEF Ready

\* A call in an expression returns, and its result is stored.
LEMMA ReturnStep ==
    ASSUME ValuesInv, frames[Top].call = "expression", NEW r \in Results,
           Store(Front(frames), frames[Top].into, r)
    PROVE  ValuesInv' /\ \A u \in Ids : heap[u].type \in Scalars => heap'[u] \in {heap[u], Free}
<1>1. PICK into : into = frames[Top].into
  OBVIOUS
<1>2. Len(frames) > 1 /\ Ready(heap, Front(frames), into)
  BY <1>1, ReturnReady
<1>3. /\ Grown(heap, r.heap) /\ Sound(r.heap, Front(frames))
      /\ Fits(r.heap, Front(frames), r.value, into)
  BY <1>1, <1>2, ReturnFits DEF Top
<1>4. Ready(r.heap, Front(frames), into) /\ overflow \in BOOLEAN
  BY <1>2, <1>3, ReadyGrows DEF ValuesInv
<1>5. ValuesInv' /\ \A u \in Ids : r.heap[u].type \in Scalars => heap'[u] \in {r.heap[u], Free}
  BY <1>1, <1>3, <1>4, StoreSound
<1>6. \A u \in Ids : heap[u].type \in Scalars => r.heap[u] = heap[u]
  BY <1>3 DEF Grown, Scalars
<1> QED
  BY <1>5, <1>6

\* A call begins.
LEMMA EnteredSound ==
    ASSUME NEW h, NEW fs, Sound(h, fs), NEW v, NEW into \in Intos, Fits(h, fs, v, into),
           NEW how \in {"statement", "expression"}, NEW gs,
           gs = Append(fs, [call |-> how, env |-> [x \in {"p"} |-> v], into |-> into]),
           FrameSound(h, gs, Len(gs)),
           Divides(gs, Len(gs)) => \E S, T \in SUBSET Ids : Halves(h, S, T, gs, Len(gs))
    PROVE  Sound(h, gs)
<1>1. PICK f : f = [call |-> how, env |-> [x \in {"p"} |-> v], into |-> into]
  OBVIOUS
<1>2. v \in Ids /\ FramesTyped(fs)
  BY DEF Fits, Sound
<1>3. f \in Frame /\ f.into = into /\ f.env = [x \in {"p"} |-> v]
  <2>1. [x \in {"p"} |-> v] \in [{"p"} -> Ids] /\ {"p"} \in SUBSET (Vars \cup {"p"})
    BY <1>2
  <2>2. [x \in {"p"} |-> v] \in UNION {[X -> Ids] : X \in SUBSET (Vars \cup {"p"})}
    BY <2>1
  <2> QED
    BY <1>1, <2>2 DEF Frame
<1>4. IsNext(fs, gs) /\ gs[Len(gs)] = f /\ DOMAIN gs = DOMAIN fs \cup {Len(gs)} /\ FramesTyped(gs)
  <2>1. gs = Append(fs, f)
    BY <1>1
  <2> QED
    <3>1. IsNext(fs, gs) /\ gs[Len(gs)] = f /\ DOMAIN gs = DOMAIN fs \cup {Len(gs)}
      BY <1>2, <1>3, <2>1, AppendFrame
    <3> QED
      BY <3>1 DEF IsNext
<1>5. EnvOf(gs, Len(gs)) = {v} /\ HeldInto(gs[Len(gs)].into) = HeldInto(into)
  BY <1>3, <1>4 DEF EnvOf
<1>6. ASSUME NEW i \in DOMAIN fs
      PROVE  FrameSound(h, gs, i) /\ (Divides(gs, i) => \E S, T \in SUBSET Ids : Halves(h, S, T, gs, i))
  <2>1. FrameSound(h, gs, i)
    BY <1>4, NextFrame DEF Sound
  <2>2. ASSUME Divides(gs, i) PROVE \E S, T \in SUBSET Ids : Halves(h, S, T, gs, i)
    <3>1. Divides(fs, i) /\ Outside(gs, i) = Outside(fs, i)
          /\ Inside(gs, i) = Inside(fs, i) \cup {v} \cup HeldInto(into)
      <4>1. Divides(gs, i) <=> Divides(fs, i)
        BY <1>4, NextFrame
      <4>2. Outside(gs, i) = Outside(fs, i)
        BY <1>4, NextFrame
      <4>3. Inside(gs, i) = Inside(fs, i) \cup EnvOf(gs, Len(gs)) \cup HeldInto(gs[Len(gs)].into)
        BY <1>4, NextFrame
      <4> QED
        BY <1>5, <2>2, <4>1, <4>2, <4>3
    <3>2. PICK S, T \in SUBSET Ids : /\ Halves(h, S, T, fs, i)
                                     /\ Has(h, S, {v}) /\ Has(h, S, HeldInto(into))
      BY <3>1 DEF Fits
    <3>3. Halves(h, S, T, gs, i)
      BY <3>1, <3>2 DEF Halves, Has
    <3> QED
      BY <3>3
  <2> QED
    BY <2>1, <2>2
<1> QED
  BY <1>4, <1>6 DEF Sound

\* A call that is a statement begins.
LEMMA CallStatementStep ==
    ASSUME ValuesInv, CallStatement
    PROVE  ValuesInv' /\ \A u \in Ids : heap[u].type \in Scalars => heap'[u] \in {heap[u], Free}
<1>1. PICK r \in Results : Enter(r.heap, "statement", r.value, <<>>)
  BY DEF CallStatement
<1>2. PICK gs : gs = Append(frames, [call |-> "statement", env |-> [x \in {"p"} |-> r.value], into |-> <<>>])
  OBVIOUS
<1>3. Finish(r.heap, gs)
  BY <1>1, <1>2 DEF Enter
<1>4. HeldInto(<<>>) = {} /\ <<>> \in Intos
  BY DEF HeldInto, Intos
<1>5. Grown(heap, r.heap) /\ Sound(r.heap, frames) /\ Fits(r.heap, frames, r.value, <<>>)
  BY <1>4, ResultFits
<1>6. FramesTyped(frames) /\ r.value \in Ids
  BY <1>5 DEF Sound, Fits
<1>7. /\ gs[Len(gs)] = [call |-> "statement", env |-> [x \in {"p"} |-> r.value], into |-> <<>>]
      /\ Len(gs) = Len(frames) + 1 /\ Len(gs) > 1
  BY <1>2, <1>6 DEF FramesTyped
<1>8. FrameSound(r.heap, gs, Len(gs)) /\ ~Divides(gs, Len(gs))
  BY <1>6, <1>7, ValuesAssumption DEF FrameSound, Divides
<1>9. Sound(r.heap, gs)
  BY <1>2, <1>4, <1>5, <1>8, EnteredSound
<1>10. ValuesInv' /\ \A u \in Ids : heap'[u] \in {r.heap[u], Free}
  BY <1>3, <1>9, FinishSound DEF ValuesInv
<1>11. \A u \in Ids : heap[u].type \in Scalars => r.heap[u] = heap[u]
  BY <1>5 DEF Grown, Scalars
<1> QED
  BY <1>10, <1>11

\* What the calls before a new one hold.
LEMMA NewOutside ==
    ASSUME NEW fs, NEW gs, IsNext(fs, gs)
    PROVE  /\ Inside(gs, Len(gs)) = EnvOf(gs, Len(gs))
           /\ Outside(gs, Len(gs)) = Inside(fs, 1) \cup Outside(fs, 1) \cup HeldInto(gs[Len(gs)].into)
<1>1. /\ FramesTyped(fs) /\ Len(fs) \in Nat \ {0} /\ DOMAIN fs = 1..Len(fs) /\ Len(gs) = Len(fs) + 1
      /\ \A j \in DOMAIN fs : gs[j] = fs[j]
  BY DEF IsNext, FramesTyped
<1>2. Inside(gs, Len(gs)) = EnvOf(gs, Len(gs))
  <2>1. Len(gs)..Len(gs) = {Len(gs)} /\ (Len(gs) + 1)..Len(gs) = {}
    BY <1>1
  <2> QED
    BY <2>1 DEF Inside
<1>3. Inside(fs, 1) \cup Outside(fs, 1)
          = (UNION {EnvOf(fs, j) : j \in 1..Len(fs)}) \cup (UNION {HeldInto(fs[j].into) : j \in 1..Len(fs)})
  <2>1. 1..Len(fs) = {1} \cup ((1 + 1)..Len(fs)) /\ 1..(1 - 1) = {} /\ 1..1 = {1}
    BY <1>1
  <2> QED
    BY <2>1 DEF Inside, Outside
<1>4. UNION {EnvOf(gs, j) : j \in 1..(Len(gs) - 1)} = UNION {EnvOf(fs, j) : j \in 1..Len(fs)}
  <2>1. Len(gs) - 1 = Len(fs) /\ \A j \in 1..Len(fs) : EnvOf(gs, j) = EnvOf(fs, j)
    BY <1>1 DEF EnvOf
  <2> QED
    BY <2>1
<1>5. UNION {HeldInto(gs[j].into) : j \in 1..Len(gs)}
          = (UNION {HeldInto(fs[j].into) : j \in 1..Len(fs)}) \cup HeldInto(gs[Len(gs)].into)
  <2>1. 1..Len(gs) = (1..Len(fs)) \cup {Len(gs)} /\ \A j \in 1..Len(fs) : gs[j].into = fs[j].into
    BY <1>1
  <2> QED
    BY <2>1
<1>6. Outside(gs, Len(gs)) = Inside(fs, 1) \cup Outside(fs, 1) \cup HeldInto(gs[Len(gs)].into)
  BY <1>3, <1>4, <1>5 DEF Outside
<1> QED
  BY <1>2, <1>6

\* Two sets of arrays that lead to no others, together.
LEMMA UnionKept ==
    ASSUME NEW h, NEW S, NEW T, Kept(h, S), Kept(h, T)
    PROVE  Kept(h, S \cup T)
  BY DEF Kept, Has

\* The statement that stores f(expr) calls f with a clone.
LEMMA CallExpressionStep ==
    ASSUME ValuesInv, CallExpression
    PROVE  ValuesInv' /\ \A u \in Ids : heap[u].type \in Scalars => heap'[u] \in {heap[u], Free}
<1>0. PICK into \in Targets, r \in Results :
          /\ ~Knotted(r.heap, r.value)
          /\ \E c \in Clone(r) : Enter(c.heap, "expression", c.value, into)
  BY DEF CallExpression
<1>1. PICK c \in Clone(r) : Enter(c.heap, "expression", c.value, into)
  BY <1>0
<1>2. /\ Ready(heap, frames, into) /\ HeldInto(into) \subseteq Arrays
      /\ into[1] = "append" => into[3] = Cardinality(DOMAIN heap[into[2]].elems)
  BY TargetsReady
<1>3. Grown(heap, r.heap) /\ Sound(r.heap, frames) /\ Fits(r.heap, frames, r.value, into)
  BY <1>2, ResultFits
<1>4. FramesTyped(frames) /\ HeapTyped(r.heap) /\ r.value \in Ids /\ 1 \in DOMAIN frames
      /\ Divides(frames, 1) /\ Len(frames) \in Nat \ {0}
  BY <1>3 DEF Sound, Fits, FramesTyped, Divides
<1>5. PICK S1, T1 \in SUBSET Ids : /\ Halves(r.heap, S1, T1, frames, 1)
                                   /\ Has(r.heap, S1, {r.value}) /\ Has(r.heap, S1, HeldInto(into))
  BY <1>3, <1>4 DEF Fits
<1>6. /\ c.value \in Ids /\ Grown(r.heap, c.heap)
      /\ \E N \in SUBSET FreeIds(r.heap) : Kept(c.heap, N) /\ Has(c.heap, N, {c.value})
  <2>1. Kept(r.heap, S1)
    BY <1>5 DEF Halves
  <2> QED
    BY <1>0, <1>1, <1>4, <1>5, <2>1, CloneSound
<1>7. PICK N \in SUBSET FreeIds(r.heap) : Kept(c.heap, N) /\ Has(c.heap, N, {c.value})
  BY <1>6
<1>8. N \subseteq Ids /\ \A A : Kept(r.heap, A) => A \cap N = {}
  <2>1. \A u \in FreeIds(r.heap) : u \in Ids /\ r.heap[u].type = "free"
    BY FreeTyped DEF FreeIds
  <2> QED
    BY <1>7, <2>1 DEF Kept
<1>9. Sound(c.heap, frames)
  BY <1>3, <1>6, GrownSound
<1>10. Fits(c.heap, frames, c.value, into)
  <2>1. ASSUME NEW i \in DOMAIN frames, Divides(frames, i)
        PROVE  \E S, T \in SUBSET Ids : /\ Halves(c.heap, S, T, frames, i)
                                        /\ Has(c.heap, S, {c.value}) /\ Has(c.heap, S, HeldInto(into))
    <3>1. PICK S, T \in SUBSET Ids : Halves(r.heap, S, T, frames, i) /\ Has(r.heap, S, HeldInto(into))
      BY <1>3, <2>1 DEF Fits
    <3>2. Halves(c.heap, S, T, frames, i) /\ Has(c.heap, S, HeldInto(into))
      BY <1>6, <3>1, HalvesGrow, HasGrows
    <3>3. T \cap N = {}
      BY <1>8, <3>1 DEF Halves
    <3>4. Kept(c.heap, S \cup N)
      BY <1>7, <3>2, UnionKept DEF Halves
    <3>5. Halves(c.heap, S \cup N, T, frames, i)
      BY <3>2, <3>3, <3>4 DEF Halves, Has
    <3>6. Has(c.heap, S \cup N, {c.value}) /\ Has(c.heap, S \cup N, HeldInto(into))
      BY <1>7, <3>2 DEF Has
    <3> QED
      BY <1>8, <3>5, <3>6
  <2>2. c.heap[c.value].type # "free"
    BY <1>7 DEF Has
  <2> QED
    BY <1>6, <2>1, <2>2 DEF Fits
<1>11. PICK f : f = [call |-> "expression", env |-> [x \in {"p"} |-> c.value], into |-> into]
  OBVIOUS
<1>12. PICK gs : gs = Append(frames, f)
  OBVIOUS
<1>13. Finish(c.heap, gs)
  BY <1>1, <1>11, <1>12 DEF Enter
<1>14. into \in Intos /\ into # <<>>
  BY <1>2 DEF Ready
<1>15. f \in Frame /\ f.call = "expression" /\ f.into = into /\ f.env = [x \in {"p"} |-> c.value]
  <2>1. [x \in {"p"} |-> c.value] \in [{"p"} -> Ids] /\ {"p"} \in SUBSET (Vars \cup {"p"})
    BY <1>6
  <2>2. [x \in {"p"} |-> c.value] \in UNION {[X -> Ids] : X \in SUBSET (Vars \cup {"p"})}
    BY <2>1
  <2> QED
    BY <1>11, <1>14, <2>2 DEF Frame
<1>16. IsNext(frames, gs) /\ gs[Len(gs)] = f
  BY <1>4, <1>12, <1>15, AppendFrame
<1>17. EnvOf(gs, Len(gs)) = {c.value} /\ HeldInto(gs[Len(gs)].into) = HeldInto(into)
  BY <1>15, <1>16 DEF EnvOf
<1>18. FrameSound(c.heap, gs, Len(gs))
  <2>1. Len(gs) = Len(frames) + 1 /\ Len(gs) > 1 /\ Len(gs) - 1 = Len(frames)
    BY <1>4, <1>16 DEF IsNext
  <2>2. into[1] = "assign" => Seen(gs, Len(frames), into[2])
    <3>1. ASSUME into[1] = "assign" PROVE Seen(gs, Len(frames), into[2])
      <4>1. PICK s \in Scopes(frames, into[2]) : TRUE
        BY <1>2, <3>1 DEF Ready
      <4>2. /\ s \in 1..Len(frames) /\ gs[s] = frames[s]
            /\ into[2] \in DOMAIN frames[s].env /\ (s = Len(frames) \/ into[2] \in Globals)
        BY <1>4, <1>16, <4>1 DEF Scopes, IsNext, FramesTyped
      <4> QED
        BY <4>2 DEF Seen
    <3> QED
      BY <3>1
  <2>3. Ready(c.heap, frames, into)
    BY <1>2, <1>3, <1>6, ReadyGrows
  <2>4. into[1] = "append" => into[3] = Cardinality(DOMAIN c.heap[into[2]].elems)
    <3>1. ASSUME into[1] = "append" PROVE c.heap[into[2]] = heap[into[2]]
      <4>1. into[2] \in Ids /\ heap[into[2]].type = "array"
        BY <1>2, <1>14, <3>1, IntoTyped DEF Ready
      <4>2. r.heap[into[2]] = heap[into[2]]
        BY <1>3, <4>1 DEF Grown
      <4> QED
        BY <1>6, <4>1, <4>2 DEF Grown
    <3> QED
      BY <1>2, <3>1
  <2>5. Vars \cap DOMAIN f.env = {}
    BY <1>15, ValuesAssumption
  <2> QED
    BY <1>14, <1>15, <1>16, <2>1, <2>2, <2>3, <2>4, <2>5 DEF FrameSound, Ready
<1>19. \E S, T \in SUBSET Ids : Halves(c.heap, S, T, gs, Len(gs))
  <2>1. Halves(c.heap, S1, T1, frames, 1) /\ Has(c.heap, S1, HeldInto(into))
    BY <1>5, <1>6, HalvesGrow, HasGrows
  <2>2. Kept(c.heap, S1 \cup T1) /\ (S1 \cup T1) \cap N = {}
    BY <1>5, <1>8, <2>1, UnionKept DEF Halves
  <2>3. Outside(gs, Len(gs)) = Inside(frames, 1) \cup Outside(frames, 1) \cup HeldInto(into)
        /\ Inside(gs, Len(gs)) = {c.value}
    BY <1>16, <1>17, NewOutside
  <2>4. Has(c.heap, S1 \cup T1, Outside(gs, Len(gs)))
    BY <2>1, <2>3 DEF Halves, Has
  <2>5. Halves(c.heap, N, S1 \cup T1, gs, Len(gs))
    BY <1>7, <2>2, <2>3, <2>4 DEF Halves
  <2> QED
    BY <1>8, <2>5
<1>20. Sound(c.heap, gs)
  BY <1>9, <1>10, <1>11, <1>12, <1>14, <1>18, <1>19, EnteredSound
<1>21. ValuesInv' /\ \A u \in Ids : heap'[u] \in {c.heap[u], Free}
  BY <1>13, <1>20, FinishSound DEF ValuesInv
<1>22. \A u \in Ids : heap[u].type \in Scalars => c.heap[u] = heap[u]
  BY <1>3, <1>6 DEF Grown, Scalars
<1> QED
  BY <1>21, <1>22

\* A call that is a statement returns.
LEMMA ReturnFromStatementStep ==
    ASSUME ValuesInv, ReturnFromStatement
    PROVE  ValuesInv' /\ \A u \in Ids : heap[u].type \in Scalars => heap'[u] \in {heap[u], Free}
<1>1. frames[Top].call = "statement" /\ Finish(heap, Front(frames))
  BY DEF ReturnFromStatement
<1>2. FramesTyped(frames) /\ Len(frames) \in DOMAIN frames /\ Sound(heap, frames)
  BY DEF ValuesInv, Sound, FramesTyped
<1>3. FrameSound(heap, frames, Len(frames)) /\ frames[Len(frames)].call = "statement"
  BY <1>1, <1>2 DEF Sound, Top
<1>4. Len(frames) > 1
  BY <1>3 DEF FrameSound
<1> QED
  BY <1>1, <1>2, <1>4, FrontSound, FinishSound DEF ValuesInv

\* The invariant holds before the script runs.
LEMMA InitSound ==
    ASSUME Init
    PROVE  ValuesInv
<1> DEFINE R == [type : Scalars \cup {"array", "free"}, elems : UNION {[D -> Ids] : D \in SUBSET Keys}]
           f == [call |-> "file", env |-> <<>>, into |-> <<>>]
<1>1. /\ heap = [v \in Ids |-> CASE v = 1 -> Scalar("int") [] v = 2 -> Scalar("double") [] OTHER -> Free]
      /\ frames = <<f>> /\ overflow \in BOOLEAN
  BY DEF Init
<1>2. \A v \in Ids : heap[v] \in {Scalar("int"), Scalar("double"), Free}
  BY <1>1
<1>3. /\ Scalar("int") \in R /\ Scalar("double") \in R
      /\ DOMAIN Scalar("int").elems = {} /\ DOMAIN Scalar("double").elems = {}
  BY FreeTyped DEF Scalar, Scalars
<1>4. HeapTyped(heap)
  <2>1. \A v \in Ids : heap[v] \in R /\ DOMAIN heap[v].elems = {}
    BY <1>2, <1>3, FreeTyped
  <2> QED
    BY <1>1, <2>1 DEF HeapTyped
<1>5. heap[1] = Scalar("int") /\ heap[2] = Scalar("double")
  BY <1>1, LiteralsAreIds
<1>6. f \in Frame
  <2>1. <<>> \in [{} -> Ids] /\ {} \in SUBSET (Vars \cup {"p"})
    OBVIOUS
  <2>2. <<>> \in UNION {[X -> Ids] : X \in SUBSET (Vars \cup {"p"})}
    BY <2>1
  <2> QED
    BY <2>2 DEF Frame, Intos
<1>7. FramesTyped(frames) /\ Len(frames) = 1 /\ DOMAIN frames = {1} /\ frames[1] = f
  <2> HIDE DEF f
  <2> QED
    BY <1>1, <1>6 DEF FramesTyped
<1>8. f.call = "file" /\ f.env = <<>> /\ f.into = <<>> /\ DOMAIN f.env = {}
  BY FreeTyped
<1> HIDE DEF f, R
<1>9. FrameSound(heap, frames, 1)
  BY <1>7, <1>8 DEF FrameSound
<1>10. Halves(heap, {}, {}, frames, 1)
  <2>1. EnvOf(frames, 1) = {} /\ HeldInto(frames[1].into) = {}
    BY <1>7, <1>8 DEF EnvOf, HeldInto
  <2>2. 1..Len(frames) = {1} /\ 1..(1 - 1) = {} /\ (1 + 1)..Len(frames) = {} /\ 1..1 = {1}
    BY <1>7
  <2>3. Inside(frames, 1) = {} /\ Outside(frames, 1) = {}
    BY <2>1, <2>2 DEF Inside, Outside
  <2> QED
    BY <2>3 DEF Halves, Kept, Has
<1>11. Sound(heap, frames)
  BY <1>4, <1>5, <1>7, <1>9, <1>10 DEF Sound
<1>12. NoneGone(heap)
  BY <1>2, <1>3, FreeTyped DEF NoneGone, Elements
<1> QED
  BY <1>1, <1>11, <1>12 DEF ValuesInv

\* Every step preserves the invariant and leaves scalars alone.
LEMMA NextSound ==
    ASSUME ValuesInv, [Next]_vars
    PROVE  ValuesInv' /\ \A u \in Ids : heap[u].type \in Scalars => heap'[u] \in {heap[u], Free}
<1>1. CASE Declare
  <2>1. PICK into \in Declarations, r \in Results : Store(frames, into, r)
    BY <1>1 DEF Declare
  <2> QED
    BY <2>1, StatementStep DEF Targets
<1>2. CASE Assign
  <2>1. PICK into \in Assignments, r \in Results : Store(frames, into, r)
    BY <1>2 DEF Assign
  <2> QED
    BY <2>1, StatementStep DEF Targets
<1>3. CASE PutElement
  <2>1. PICK into \in ElementPuts, r \in Results : Store(frames, into, r)
    BY <1>3 DEF PutElement
  <2> QED
    BY <2>1, StatementStep DEF Targets
<1>4. CASE AppendElement
  <2>1. PICK into \in Appends, r \in Results : Store(frames, into, r)
    BY <1>4 DEF AppendElement
  <2> QED
    BY <2>1, StatementStep DEF Targets
<1>5. CASE CallStatement
  BY <1>5, CallStatementStep
<1>6. CASE CallExpression
  BY <1>6, CallExpressionStep
<1>7. CASE CloneWithoutEnd
  <2>1. heap' = heap /\ frames' = frames /\ overflow' \in BOOLEAN
    BY <1>7 DEF CloneWithoutEnd
  <2>2. ValuesInv' = (Sound(heap', frames') /\ NoneGone(heap') /\ overflow' \in BOOLEAN)
    BY DEF ValuesInv
  <2>3. Sound(heap, frames) /\ NoneGone(heap)
    BY DEF ValuesInv
  <2> QED
    BY <2>1, <2>2, <2>3
<1>8. CASE ReturnFromStatement
  BY <1>8, ReturnFromStatementStep
<1>9. CASE ReturnFromExpression
  <2>1. PICK r \in Results : frames[Top].call = "expression" /\ Store(Front(frames), frames[Top].into, r)
    BY <1>9 DEF ReturnFromExpression
  <2> QED
    BY <2>1, ReturnStep
<1>10. CASE UNCHANGED vars
  <2>1. heap' = heap /\ frames' = frames /\ overflow' = overflow
    BY <1>10 DEF vars
  <2>2. ValuesInv' = (Sound(heap', frames') /\ NoneGone(heap') /\ overflow' \in BOOLEAN)
    BY DEF ValuesInv
  <2>3. Sound(heap, frames) /\ NoneGone(heap) /\ overflow \in BOOLEAN
    BY DEF ValuesInv
  <2> QED
    BY <2>1, <2>2, <2>3
<1> QED
  BY <1>1, <1>2, <1>3, <1>4, <1>5, <1>6, <1>7, <1>8, <1>9, <1>10 DEF Next

\* The invariant: the heap and the frames are typed, nothing leads to a Value that is
\* gone, and every call in an expression divides the arrays in two halves, its own and
\* its callers', that do not lead to each other.
THEOREM ValuesInductive == Spec => []ValuesInv
<1>1. Init => ValuesInv
  BY InitSound
<1>2. ValuesInv /\ [Next]_vars => ValuesInv'
  BY NextSound
<1> QED
  BY <1>1, <1>2, PTL DEF Spec

\* No variable, no element and no statement that waits for a call has a pointer to a
\* Value that is gone.
THEOREM ValuesTyped == Spec => []TypeOK
<1>1. ValuesInv => TypeOK
  <2> SUFFICES ASSUME ValuesInv PROVE TypeOK
    OBVIOUS
  <2>1. HeapTyped(heap) /\ FramesTyped(frames) /\ NoneGone(heap) /\ overflow \in BOOLEAN
    BY DEF ValuesInv, Sound
  <2>2. \A v \in FreeIds(heap) : heap[v].type = "free"
    BY FreeTyped DEF FreeIds
  <2>3. \A v \in Ids : Elements(heap, v) \subseteq Ids \ FreeIds(heap)
    BY <2>1, <2>2, ElementsTyped DEF NoneGone
  <2>4. Held(frames) \subseteq Ids \ FreeIds(heap)
    BY <2>2, HeldExists DEF ValuesInv
  <2>5. \A i \in 1..Top : /\ frames[i].call \in {"file", "statement", "expression"}
                          /\ DOMAIN frames[i].env \subseteq Vars \cup {"p"}
    <3>1. \A i \in 1..Top : frames[i] \in Frame
      BY <2>1 DEF FramesTyped, Top
    <3> QED
      BY <3>1, FrameTyped
  <2> QED
    BY <2>1, <2>3, <2>4, <2>5 DEF TypeOK
<1> QED
  BY <1>1, ValuesInductive, PTL

\* The two halves keep the callers' arrays from the call.
LEMMA InvIsolates ==
    ASSUME ValuesInv, ScalarGlobals
    PROVE  CallsInExpressionsIsolate
<1> SUFFICES ASSUME NEW i \in 2..Top, frames[i].call = "expression",
                    NEW v \in ArraysOf(1, i - 1), NEW j \in i..Top, NEW x \in DOMAIN frames[j].env,
                    v \in Reach(heap, {frames[j].env[x]})
             PROVE  FALSE
  BY DEF CallsInExpressionsIsolate
<1>1. /\ FramesTyped(frames) /\ HeapTyped(heap) /\ Len(frames) \in Nat /\ DOMAIN frames = 1..Len(frames)
      /\ frames \in Seq(Frame) /\ i \in 2..Len(frames) /\ j \in i..Len(frames) /\ i \in DOMAIN frames
      /\ i - 1 \in Nat /\ i - 1 <= Len(frames)
  BY DEF ValuesInv, Sound, FramesTyped, Top
<1>2. PICK S, T \in SUBSET Ids : Halves(heap, S, T, frames, i)
  BY <1>1 DEF ValuesInv, Sound, Divides
<1>3. Held(SubSeq(frames, 1, i - 1)) \subseteq Outside(frames, i)
  <2>1. PICK fs : fs = SubSeq(frames, 1, i - 1)
    OBVIOUS
  <2>2. DOMAIN fs = 1..(i - 1) /\ \A l \in DOMAIN fs : fs[l] = frames[l]
    BY <1>1, <2>1
  <2>3. Held(fs) = UNION {EnvOf(fs, l) \cup HeldInto(fs[l].into) : l \in DOMAIN fs}
    BY DEF Held, EnvOf, HeldInto
  <2>4. \A l \in DOMAIN fs : /\ EnvOf(fs, l) = EnvOf(frames, l) /\ fs[l].into = frames[l].into
                             /\ l \in 1..(i - 1) /\ l \in 1..i
    BY <1>1, <2>2 DEF EnvOf
  <2>5. Held(fs) \subseteq Outside(frames, i)
    BY <2>3, <2>4 DEF Outside
  <2> QED
    BY <2>1, <2>5
<1>4. Kept(heap, T) /\ Has(heap, T, Held(SubSeq(frames, 1, i - 1)))
  BY <1>2, <1>3 DEF Halves, Has
<1>5. Has(heap, T, Reach(heap, Held(SubSeq(frames, 1, i - 1))))
  BY <1>1, <1>4, ReachHas
<1>6. v \in T /\ heap[v].type = "array"
  BY <1>5 DEF ArraysOf, Has
<1>7. frames[j].env[x] \in Inside(frames, i)
  BY <1>1 DEF Inside, EnvOf
<1>8. Kept(heap, S) /\ Has(heap, S, {frames[j].env[x]})
  BY <1>2, <1>7 DEF Halves, Has
<1>9. Has(heap, S, Reach(heap, {frames[j].env[x]}))
  BY <1>1, <1>8, ReachHas
<1>10. v \in S
  BY <1>6, <1>9 DEF Has
<1> QED
  BY <1>2, <1>6, <1>10 DEF Halves

\* While a call in an expression runs, the arrays of its callers cannot be reached
\* through its variables or those of the calls it makes: clone() copies all the way
\* down, and no statement joins what it has copied to what it was copied from.
THEOREM Isolation ==
    ASSUME ScalarGlobals
    PROVE  Spec => []CallsInExpressionsIsolate
<1>1. ValuesInv => CallsInExpressionsIsolate
  BY InvIsolates
<1> QED
  BY <1>1, ValuesInductive, PTL

\* No statement changes a scalar that exists, so that variables, elements and literals
\* may share one: tryNumericCoerce() makes a new Value.
THEOREM ScalarsImmutable == Spec => ScalarsNeverChange
<1>1. ValuesInv /\ [Next]_vars =>
          [\A v \in Ids : heap[v].type \in Scalars => heap'[v] \in {heap[v], Free}]_vars
  BY NextSound
<1> QED
  BY <1>1, ValuesInductive, PTL DEF Spec, ScalarsNeverChange

\* An element put at the number of elements of an array without gaps is one more.
LEMMA AppendedOne ==
    ASSUME ValuesInv, NEW fs, NEW r, Grown(heap, r.heap), NEW into, into[1] = "append",
           NEW v, v = into[2], into[3] = Cardinality(DOMAIN heap[v].elems), v \in Ids,
           heap[v].type = "array", Dense(v), r.value \in Ids, Store(fs, into, r), heap'[v] # Free
    PROVE  Cardinality(DOMAIN heap'[v].elems) = Cardinality(DOMAIN heap[v].elems) + 1
<1>1. PICK k : k = into[3]
  OBVIOUS
<1>2. k \in Keys /\ Finish(Put(r.heap, v, k, r.value), fs)
  BY <1>1 DEF Store, StoreInArray, Put
<1>3. HeapTyped(r.heap) /\ r.heap[v] = heap[v]
  BY DEF Grown
<1>4. DOMAIN Put(r.heap, v, k, r.value)[v].elems = DOMAIN heap[v].elems \cup {k}
  BY <1>2, <1>3, PutHeap
<1>5. heap'[v] = Put(r.heap, v, k, r.value)[v]
  <2>1. PICK alive : heap' = [u \in Ids |-> IF u \in alive THEN Put(r.heap, v, k, r.value)[u] ELSE Free]
    BY <1>2 DEF Finish
  <2> QED
    BY <2>1
<1>6. IsFiniteSet(DOMAIN heap[v].elems) /\ Cardinality(DOMAIN heap[v].elems) \in Nat
  BY AppendKeyNat DEF ValuesInv, Sound
<1>7. k \notin DOMAIN heap[v].elems
  BY <1>1, <1>6 DEF Dense
<1>8. Cardinality(DOMAIN heap[v].elems \cup {k}) = Cardinality(DOMAIN heap[v].elems) + 1
  BY <1>6, <1>7, FS_AddElement
<1> QED
  BY <1>4, <1>5, <1>8

\* An append to an array without gaps adds one element and loses none, also when a
\* function called on the right-hand side ran after the index was computed: it cannot
\* reach the array.
THEOREM AppendsAdd ==
    ASSUME ScalarGlobals
    PROVE  Spec => AppendAdds
<1>1. ASSUME ValuesInv, NEW v \in Ids, heap[v].type = "array", Dense(v), Appending(v), heap'[v] # Free
      PROVE  Cardinality(DOMAIN heap'[v].elems) = Cardinality(DOMAIN heap[v].elems) + 1
  <2>1. CASE \E r \in Results : Store(frames, <<"append", v, AppendKey(v)>>, r)
    <3>1. PICK r \in Results : Store(frames, <<"append", v, AppendKey(v)>>, r)
      BY <2>1
    <3>2. PICK into : into = <<"append", v, AppendKey(v)>>
      OBVIOUS
    <3>3. into[1] = "append" /\ into[2] = v /\ into[3] = Cardinality(DOMAIN heap[v].elems)
      BY <3>2 DEF AppendKey
    <3>4. Grown(heap, r.heap) /\ r.value \in Ids
      BY <1>1, ResultServes DEF IsResult
    <3> QED
      BY <1>1, <3>1, <3>2, <3>3, <3>4, AppendedOne
  <2>2. CASE ReturnFromExpression /\ frames[Top].into[1] = "append" /\ frames[Top].into[2] = v
    <3>1. PICK r \in Results : frames[Top].call = "expression" /\ Store(Front(frames), frames[Top].into, r)
      BY <2>2 DEF ReturnFromExpression
    <3>2. PICK into : into = frames[Top].into
      OBVIOUS
    <3>3. into[1] = "append" /\ into[2] = v /\ into[3] = Cardinality(DOMAIN heap[v].elems)
      BY <1>1, <2>2, <3>1, <3>2, ReturnReady
    <3>4. Grown(heap, r.heap) /\ r.value \in Ids
      BY <1>1, ResultServes DEF IsResult
    <3> QED
      BY <1>1, <3>1, <3>2, <3>3, <3>4, AppendedOne
  <2> QED
    BY <1>1, <2>1, <2>2 DEF Appending
<1>2. ValuesInv /\ [Next]_vars =>
          [\A v \in Ids : heap[v].type = "array" /\ Dense(v) /\ Appending(v) /\ heap'[v] # Free
              => Cardinality(DOMAIN heap'[v].elems) = Cardinality(DOMAIN heap[v].elems) + 1]_vars
  BY <1>1
<1> QED
  BY <1>2, ValuesInductive, PTL DEF Spec, AppendAdds
=============================================================================
