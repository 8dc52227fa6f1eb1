------------------------------- MODULE Script -------------------------------
(***************************************************************************)
(* Scripts and what they mean.  A script is a sequence of segments: texts  *)
(* outside the tags, and code, which is a sequence of statements.  What a  *)
(* script means is said by structural recursion: no operation container,   *)
(* no names of scopes, no parser.                                          *)
(***************************************************************************)
EXTENDS Naturals, Sequences, SequencesExt, FiniteSets

CONSTANTS
    Dialects,       \* the scripts: records [leaves, names, length, cuts],
                    \* names[n] those of functions n deep
    Library,        \* the files that can be included: code for each [dir, name]
    MaxCalls,       \* calls on the C++ stack; one more overflows it
    MaxMethodDepth  \* MAX_CALL_DEPTH of MethodCallExpressionNode

File == "file"
Home == "dir"       \* the directory of the script

Call(f) == [k |-> "call", name |-> f, body |-> <<>>]
Return == [k |-> "return", name |-> "", body |-> <<>>]
Include(name) == [k |-> "include", name |-> name, body |-> <<>>]
BadToken == [k |-> "bad", name |-> "", body |-> <<>>]
Text == <<[k |-> "text", name |-> "", body |-> <<>>]>>
Function(f, body) == [k |-> "function", name |-> f, body |-> body]
Class(c, methods) == [k |-> "class", name |-> c, body |-> methods]

\* C $v = new C(); and the same with $v->m(); after it.  Each $v is another variable.
New(c) == [k |-> "new", name |-> c, body |-> <<>>]
Send(c) == [k |-> "send", name |-> c, body |-> <<>>]
Constructor == "construct"
Method == "m"

Kind(code, k) == {code[i] : i \in {j \in DOMAIN code : code[j].k = k}}
Names(statements) == {x.name : x \in statements}

\* The code of n statements, those in bodies included, at a depth of functions.
CodeOf(d) ==
    LET Code[n \in 0..d.length, depth \in 1..Len(d.names) + 1] ==
            IF n = 0 THEN {<<>>}
            ELSE {<<i>> \o rest : i \in d.leaves, rest \in Code[n - 1, depth]}
                 \cup UNION {{<<Function(f, body)>> \o rest :
                                 f \in d.names[depth],
                                 body \in Code[b, depth + 1], rest \in Code[n - 1 - b, depth]} :
                             b \in IF depth > Len(d.names) THEN {} ELSE 0..n - 1}
    IN  Code[d.length, 1]

\* The code as one segment, or as two with text between.
Segmented(d, code) ==
    {<<code>>} \cup IF d.cuts THEN {<<SubSeq(code, 1, i), Text, SubSeq(code, i + 1, Len(code))>> :
                                       i \in 1..Len(code) - 1}
                    ELSE {}

Scripts == UNION {UNION {Segmented(d, code) : code \in CodeOf(d)} : d \in Dialects}

-----------------------------------------------------------------------------
\* The classes a code defines, in the order of the text, its includes being part of it.
RECURSIVE ClassesOf(_, _)
ClassesOf(code, dir) ==
    FoldLeft(LAMBDA seen, i :
                CASE i.k = "class" -> Append(seen, i.name)
                  [] i.k = "function" -> seen \o ClassesOf(i.body, dir)
                  [] i.k = "include" /\ <<dir, i.name>> \in DOMAIN Library ->
                       seen \o ClassesOf(Library[<<dir, i.name>>], "")
                  [] OTHER -> seen,
             <<>>, code)

\* Whether the parser gets through it when these classes are known; the directory is
\* that of the file as it was written in the include, none when it is a bare name.
RECURSIVE Compiles(_, _, _)
Compiles(code, dir, known) ==
    \A i \in DOMAIN code :
        LET x == code[i]
            before == known \cup Range(ClassesOf(SubSeq(code, 1, i - 1), dir))
        IN  CASE x.k = "bad" -> FALSE
              [] x.k = "include" -> /\ <<dir, x.name>> \in DOMAIN Library
                                    /\ Compiles(Library[<<dir, x.name>>], "", before)
              [] x.k = "function" -> Compiles(x.body, dir, before)
              [] x.k = "class" -> /\ x.name \notin before
                                  /\ IsInjective([m \in DOMAIN x.body |-> x.body[m].name])
                                  /\ Compiles(x.body, dir, before \cup {x.name})
              [] x.k \in {"new", "send"} -> x.name \in before
              [] OTHER -> TRUE

\* The scopes a function of scope "path" can be declared in, from the inside out.
Outward(path) == [i \in 1..Len(path) |-> SubSeq(path, 1, Len(path) + 1 - i)]

\* What running has done so far: the output, the headers, the functions declared, each
\* with its scope and its body, the classes, and how it ended, "" while it has not.
Started == [out |-> <<>>, headers |-> {}, declared |-> {}, classes |-> {}, end |-> ""]

NativeEffect(s, f) ==
    CASE f = "print" -> [s EXCEPT !.out = Append(@, f)]
      [] f = "header" -> [s EXCEPT !.headers = @ \cup {f}]
      [] f = "throw_error" -> [s EXCEPT !.end = "error"]
      [] OTHER -> s

\* Where code runs: its scope, its directory, the calls and the methods it is in.
FileLevel(dir) == [path |-> <<File>>, dir |-> dir, calls |-> 0, methods |-> 0]
Inside(at, path) == [at EXCEPT !.path = path, !.dir = Home, !.calls = @ + 1]
InMethod(at, path) == [Inside(at, path) EXCEPT !.methods = @ + 1]

RECURSIVE Perform(_, _, _, _)
RECURSIVE Enter(_, _, _, _)
Perform(code, at, natives, s) ==
    IF code = <<>> \/ s.end # "" THEN s
    ELSE LET i == Head(code)
             visible == {d \in s.declared : d.name = i.name /\ IsPrefix(d.path, at.path)}
             d == CHOOSE v \in visible : \A w \in visible : Len(w.path) <= Len(v.path)
             class == CHOOSE c \in s.classes : c.name = i.name
             Of(m) == CHOOSE f \in class.methods : f.name = m
             Scope(m) == class.path \o <<i.name, m>>
             created ==
                IF i.name \in natives \/ Constructor \notin Names(class.methods) THEN s
                ELSE Enter(Of(Constructor).body, Inside(at, Scope(Constructor)), natives, s)
             then ==
                CASE i.k = "return" -> [s EXCEPT !.end = "return"]
                  [] i.k = "include" ->
                       Perform(Library[<<at.dir, i.name>>], [at EXCEPT !.dir = ""], natives, s)
                  [] i.k = "function" ->
                       IF \E v \in s.declared : v.path = at.path /\ v.name = i.name
                       THEN [s EXCEPT !.end = "error"]
                       ELSE [s EXCEPT !.declared =
                               @ \cup {[path |-> at.path, name |-> i.name, body |-> i.body]}]
                  [] i.k = "class" ->
                       [s EXCEPT !.classes =
                           @ \cup {[path |-> at.path, name |-> i.name, methods |-> Range(i.body)]}]
                  [] i.k = "call" ->
                       IF i.name \in natives THEN NativeEffect(s, i.name)
                       ELSE IF visible = {} THEN [s EXCEPT !.end = "error"]
                       ELSE Enter(d.body, Inside(at, Append(d.path, d.name)), natives, s)
                  [] i.k = "new" -> created
                  [] i.k = "send" ->
                       IF created.end # "" THEN created
                       ELSE IF i.name \in natives \/ Method \notin Names(class.methods)
                               \/ at.methods = MaxMethodDepth
                            THEN [created EXCEPT !.end = "error"]
                       ELSE Enter(Of(Method).body, InMethod(at, Scope(Method)), natives, created)
         IN  Perform(Tail(code), at, natives, then)

\* A body is performed unless that is one call too many; a return ends no more than it.
Enter(body, at, natives, s) ==
    IF at.calls > MaxCalls THEN [s EXCEPT !.end = "overflow"]
    ELSE LET done == Perform(body, at, natives, s)
         IN  [done EXCEPT !.end = IF @ = "return" THEN "" ELSE @]

\* A segment is compiled whole, then performed; the ones before it have been by then.
PerformSegment(s, segment, natives, rejected) ==
    CASE s.end # "" -> s
      [] segment = Text -> [s EXCEPT !.out = Append(@, "text")]
      [] OTHER -> IF ~ rejected /\ Compiles(segment, Home, natives \cup Names(s.classes))
                  THEN Perform(segment, FileLevel(Home), natives, s)
                  ELSE [s EXCEPT !.end = "error"]

\* The answer to a request for the script, when these natives are registered, functions
\* and classes, and these of its segments are rejected for where their functions stand.
Meaning(script, natives, rejected) ==
    LET s == FoldLeft(LAMBDA t, i : PerformSegment(t, script[i], natives, i \in rejected),
                      Started, [i \in DOMAIN script |-> i])
    IN  [out |-> s.out, headers |-> s.headers,
         end |-> IF s.end \in {"", "return"} THEN "ok" ELSE s.end]

-----------------------------------------------------------------------------
(* Where a script does not mean what it says.                              *)

\* A code with the files it includes, and the bodies of its functions and methods.
RECURSIVE Reached(_, _)
Reached(code, dir) ==
    {code} \cup UNION {Reached(Library[<<dir, x.name>>], "") :
                          x \in {y \in Kind(code, "include") : <<dir, y.name>> \in DOMAIN Library}}

RECURSIVE Bodies(_)
Bodies(code) ==
    UNION {{f.body} \cup Bodies(f.body) : f \in Kind(code, "function")}
    \cup UNION {Bodies(c.body) : c \in Kind(code, "class")}

Segments(script) == {script[i] : i \in {j \in DOMAIN script : script[j] # Text}}
Included(script) == UNION {Reached(code, Home) : code \in Segments(script)} \ Segments(script)
AllBodies(script) == UNION {Bodies(code) : code \in Segments(script) \cup Included(script)}
AllCode(script) == Segments(script) \cup Included(script) \cup AllBodies(script)

\* A function in a function is found, or not, where the text of the file has another:
\* whether it can be parsed is a matter of how much text stands before and after it.
Nests(code) == \E file \in Reached(code, Home) : \E b \in Bodies(file) : Kind(b, "function") # {}
MayBeRejected(script) ==
    {i \in DOMAIN script : script[i] # Text /\ Nests(script[i])}

\* The rest of a file included in a function becomes part of the function, and a class
\* in a function is never defined.
FileInFunction(script) ==
    \E b \in AllBodies(script) : Kind(b, "include") \cup Kind(b, "class") # {}

\* A method cannot call the functions of the file, nor can a constructor.
MethodCallsFunction(script) ==
    LET methods == UNION {UNION {Range(c.body) : c \in Kind(code, "class")} : code \in AllCode(script)}
        functions == UNION {Names(Kind(code, "function")) : code \in AllCode(script)}
    IN  \E m \in methods : \E b \in {m.body} \cup Bodies(m.body) :
            Names(Kind(b, "call")) \cap functions # {}

\* After the call of a method the parser wants another token, which a body may not have.
MethodCallAtEnd(script) == \E b \in AllBodies(script) : b # <<>> /\ Last(b).k = "send"

\* An included file looks for constructors under its own name, and finds none.
NewInInclude(script) ==
    \E file \in Included(script) : \E b \in {file} \cup Bodies(file) :
        Kind(b, "new") \cup Kind(b, "send") # {}

\* A name declared twice in a scope: the two bodies become one.
RECURSIVE Declarations(_, _, _)
Declarations(code, path, dir) ==
    FoldLeft(LAMBDA seen, i :
                CASE i.k = "function" ->
                       seen \o <<<<path, i.name>>>> \o Declarations(i.body, Append(path, i.name), dir)
                  [] i.k = "include" /\ <<dir, i.name>> \in DOMAIN Library ->
                       seen \o Declarations(Library[<<dir, i.name>>], path, "")
                  [] OTHER -> seen,
             <<>>, code)

Redeclares(script) ==
    LET all == FoldLeft(LAMBDA seen, s : IF s = Text THEN seen
                                         ELSE seen \o Declarations(s, <<File>>, Home),
                        <<>>, script)
    IN  ~ IsInjective(all)

Gap(script) ==
    \/ FileInFunction(script) \/ MethodCallsFunction(script) \/ MethodCallAtEnd(script)
    \/ NewInInclude(script) \/ Redeclares(script)

=============================================================================
