------------------------------ MODULE Program -------------------------------
(***************************************************************************)
(* VoidScript::run on one script: segment after segment, the lexer enters  *)
(* the scope of the file, the parser leaves operations in the container    *)
(* under the names of scopes, and the interpreter executes those of the    *)
(* current scope.  Calls find functions, and their operations, by name.    *)
(* The container, the scope stack and the symbol tables are singletons.    *)
(***************************************************************************)
EXTENDS Script, ScopeStack, Registry

VARIABLES
    script,         \* what the file held when it was read
    segment,        \* the segment being processed
    parsers,        \* the live calls of parseScript: what is left of their tokens
    calls,          \* the live calls under Interpreter::run: what is left of their operations
    container,      \* Operations::Container: scope name -> operations
    scopeStack,     \* scopeStack_
    declared,       \* symbols in the tables of scopes_: [kind, path, name]
    methodsOf,      \* classes_: the methods of each class of a script
    headers,        \* headers_ of the header module
    out,            \* standard output, captured
    end             \* "" while run() goes on, then "ok", "error" or "overflow"

singletons == <<container, scopeStack, declared, methodsOf>>
program == <<script, segment, parsers, calls, singletons, headers, out, end>>

Current == CurrentScope(scopeStack)

OperationsOf(path) == IF path \in DOMAIN container THEN container[path] ELSE <<>>

Operation(op, name, path) == [op |-> op, name |-> name, path |-> path]
Symbol(kind, path, name) == [kind |-> kind, path |-> path, name |-> name]
Activation(what, path) == [what |-> what, left |-> OperationsOf(path)]

\* Container::add and Container::clear.
Add(path, operation) ==
    container' = [p \in DOMAIN container \cup {path} |->
                    IF p = path THEN Append(OperationsOf(p), operation) ELSE container[p]]
Clear(path) ==
    container' = [p \in DOMAIN container |-> IF p = path THEN <<>> ELSE container[p]]

\* SymbolContainer::create: a new table, even if the name had one.
Create(path) ==
    /\ scopeStack' = Append(scopeStack, path)
    /\ declared' = {d \in declared : d.path # path}

-----------------------------------------------------------------------------
(* VoidScript::run                                                         *)

ReadScript(s) ==
    /\ script' = s
    /\ segment' = 1
    /\ Create(<<File>>)
    /\ UNCHANGED <<parsers, calls, container, methodsOf, headers, out, end>>

Running == script # <<>> /\ end = ""
BetweenSegments == Running /\ parsers = <<>> /\ calls = <<>>

End(how) == end' = how /\ parsers' = <<>> /\ calls' = <<>>

Finish ==
    /\ BetweenSegments /\ segment > Len(script)
    /\ End("ok")
    /\ UNCHANGED <<script, segment, singletons, headers, out>>

OutsideTags ==
    /\ BetweenSegments /\ segment <= Len(script) /\ script[segment] = Text
    /\ out' = Append(out, "text")
    /\ segment' = segment + 1
    /\ UNCHANGED <<script, parsers, calls, singletons, headers, end>>

\* Lexer::tokenizeNamespace enters the scope and nothing leaves it.
Tokenize(path) == scopeStack' = Append(scopeStack, path)

\* A call of parseScript for a file, an included file or the body of a function.
Parser(what, code, dir, name, parent) ==
    [what |-> what, code |-> code, dir |-> dir, name |-> name, parent |-> parent]

ParseSegment ==
    /\ BetweenSegments /\ segment <= Len(script) /\ script[segment] # Text
    /\ Tokenize(<<File>>)
    /\ parsers' = <<Parser("file", script[segment], Home, "", <<>>)>>
    /\ UNCHANGED <<script, segment, calls, container, declared, methodsOf, headers, out, end>>

-----------------------------------------------------------------------------
(* The parser                                                              *)

Top == Last(parsers)
Parsing(kind) == Running /\ parsers # <<>> /\ Top.code # <<>> /\ Head(Top.code).k = kind
Parsed(what) == Running /\ parsers # <<>> /\ Top.code = <<>> /\ Top.what = what
Statement == Head(Top.code)
Consumed == [parsers EXCEPT ![Len(parsers)].code = Tail(@)]

ParseStatement ==
    /\ Parsing("call") \/ Parsing("return")
    /\ Add(Current, Operation(Statement.k, Statement.name, Current))
    /\ parsers' = Consumed
    /\ UNCHANGED <<script, segment, calls, scopeStack, declared, methodsOf, headers, out, end>>

\* hasClass, which knows the classes of modules and of scripts.
HasClass(c) == c \in DOMAIN classes \cup DOMAIN methodsOf

\* current_filename_, the name of the file as it is known to the parser.
FileName == IF Top.dir = Home THEN <<File>> ELSE <<Top.dir>>

ParseNew ==
    /\ Parsing("new") /\ HasClass(Statement.name)
    /\ Add(Current, Operation("new", Statement.name, FileName))
    /\ parsers' = Consumed
    /\ UNCHANGED <<script, segment, calls, scopeStack, declared, methodsOf, headers, out, end>>

\* The tokens of a file end with one more; those of a body do not.
LastOfBody == Top.what \in {"function", "method"} /\ Len(Top.code) = 1

\* The parser of a statement looks at the token after it.
ParseSend ==
    /\ Parsing("send") /\ HasClass(Statement.name) /\ ~ LastOfBody
    /\ container' = [p \in DOMAIN container \cup {Current} |->
                        IF p # Current THEN container[p]
                        ELSE OperationsOf(p) \o <<Operation("new", Statement.name, FileName),
                                                  Operation("send", Statement.name, Current)>>]
    /\ parsers' = Consumed
    /\ UNCHANGED <<script, segment, calls, scopeStack, declared, methodsOf, headers, out, end>>

\* parseFunctionDefinition, or the method in parseClassDefinition, up to the parser of
\* the body.
EnterFunction ==
    /\ Parsing("function")
    /\ Create(Append(Current, Statement.name))
    /\ parsers' = Append(Consumed,
                         Parser(IF Top.what = "class" THEN "method" ELSE "function",
                                Statement.body, Top.dir, Statement.name, Current))
    /\ UNCHANGED <<script, segment, calls, container, methodsOf, headers, out, end>>

\* Mutant: the function is declared where the parser is, not in the scope captured before.
DeclareInOwnScope ==
    /\ Parsed("function")
    /\ scopeStack' = EnterPreviousScope(scopeStack)
    /\ Add(Current, Operation("declare", Top.name, Top.parent))
    /\ parsers' = Front(parsers)
    /\ UNCHANGED <<script, segment, calls, declared, methodsOf, headers, out, end>>

\* The end of parseBlockInNewScope, and defineFunction in the scope captured before.
LeaveFunction ==
    /\ Parsed("function")
    /\ scopeStack' = EnterPreviousScope(scopeStack)
    /\ Add(Top.parent, Operation("declare", Top.name, Top.parent))
    /\ parsers' = Front(parsers)
    /\ UNCHANGED <<script, segment, calls, declared, methodsOf, headers, out, end>>

\* The class is known from here on, to its own methods too.
EnterClass ==
    /\ Parsing("class") /\ ~ HasClass(Statement.name)
    /\ methodsOf' = methodsOf @@ Statement.name :> {}
    /\ LET path == Append(Current, Statement.name)
       IN  /\ scopeStack' = Append(scopeStack, path)
           /\ declared' = {d \in declared : d.path # path}
                          \cup {Symbol("class", Current, Statement.name)}
    /\ parsers' = Append(Consumed, Parser("class", Statement.body, Top.dir, Statement.name, Current))
    /\ UNCHANGED <<script, segment, calls, container, headers, out, end>>

\* addMethod and defineMethod: the body is under the name of the class's scope.
LeaveMethod ==
    /\ Parsed("method")
    /\ LET class == parsers[Len(parsers) - 1].name
       IN  /\ Top.name \notin methodsOf[class]
           /\ methodsOf' = [methodsOf EXCEPT ![class] = @ \cup {Top.name}]
    /\ scopeStack' = EnterPreviousScope(scopeStack)
    /\ Add(Top.parent, Operation("method", Top.name, Top.parent))
    /\ parsers' = Front(parsers)
    /\ UNCHANGED <<script, segment, calls, declared, headers, out, end>>

LeaveClass ==
    /\ Parsed("class")
    /\ scopeStack' = EnterPreviousScope(scopeStack)
    /\ Add(CurrentScope(scopeStack'), Operation("class", Top.name, Top.parent))
    /\ parsers' = Front(parsers)
    /\ UNCHANGED <<script, segment, calls, declared, methodsOf, headers, out, end>>

EnterInclude ==
    /\ Parsing("include") /\ <<Top.dir, Statement.name>> \in DOMAIN Library
    /\ Tokenize(Current)
    /\ parsers' = Append(Consumed, Parser("include", Library[<<Top.dir, Statement.name>>], "", "", <<>>))
    /\ UNCHANGED <<script, segment, calls, container, declared, methodsOf, headers, out, end>>

LeaveInclude ==
    /\ Parsed("include")
    /\ parsers' = Front(parsers)
    /\ UNCHANGED <<script, segment, calls, singletons, headers, out, end>>

\* Mutant: a file that cannot be opened is not reported.
SyntaxErrorInTokens ==
    /\ Parsing("bad")
    /\ End("error")
    /\ UNCHANGED <<script, segment, singletons, headers, out>>

\* A body that stands in another is cut out of the text of that one at its place in the
\* text of the file: beyond the end, or not, as the lengths of the texts have it.
BodyOutOfText ==
    LET text == IF Top.what = "class" THEN parsers[Len(parsers) - 1] ELSE Top
    IN  Parsing("function") /\ text.what \in {"function", "method"}

\* An exception out of every parser and of run(): reportError, the registry's, substr's.
SyntaxError ==
    /\ \/ Parsing("bad")
       \/ Parsing("include") /\ <<Top.dir, Statement.name>> \notin DOMAIN Library
       \/ Parsing("class") /\ HasClass(Statement.name)
       \/ Parsing("new") /\ ~ HasClass(Statement.name)
       \/ Parsing("send") /\ (LastOfBody \/ ~ HasClass(Statement.name))
       \/ Parsed("method") /\ Top.name \in methodsOf[parsers[Len(parsers) - 1].name]
       \/ BodyOutOfText
    /\ End("error")
    /\ UNCHANGED <<script, segment, singletons, headers, out>>

-----------------------------------------------------------------------------
(* The interpreter                                                         *)

\* Interpreter::run copies the operations of the current scope.
Interpret ==
    /\ Running /\ Len(parsers) = 1 /\ Top.code = <<>>
    /\ parsers' = <<>>
    /\ calls' = <<Activation("file", Current)>>
    /\ UNCHANGED <<script, segment, singletons, headers, out, end>>

Executing == Running /\ calls # <<>>
NextIs(op) == Executing /\ Last(calls).left # <<>> /\ Head(Last(calls).left).op = op
Op == Head(Last(calls).left)
Executed == [calls EXCEPT ![Len(calls)].left = Tail(@)]

\* DeclareFunctionStatementNode.
Declare ==
    /\ NextIs("declare")
    /\ Symbol("function", Op.path, Op.name) \notin declared
    /\ declared' = declared \cup {Symbol("function", Op.path, Op.name)}
    /\ calls' = Executed
    /\ UNCHANGED <<script, segment, parsers, container, scopeStack, methodsOf, headers, out, end>>

DeclareAgain ==
    /\ NextIs("declare")
    /\ Symbol("function", Op.path, Op.name) \in declared
    /\ End("error")
    /\ UNCHANGED <<script, segment, singletons, headers, out>>

\* ClassDefinitionStatementNode executes the operations of the class in the current scope.
DefineClass ==
    /\ NextIs("class")
    /\ LET path == Append(Current, Op.name)
       IN  declared' = declared \cup {Symbol("method", path, m.name) : m \in Range(OperationsOf(path))}
    /\ calls' = Executed
    /\ UNCHANGED <<script, segment, parsers, container, scopeStack, methodsOf, headers, out, end>>

\* CallStatementNode asks for a native first.
CallsNative(f) == NextIs("call") /\ Op.name = f /\ f \in DOMAIN functions

CallPrint ==
    /\ CallsNative("print")
    /\ out' = Append(out, Op.name)
    /\ calls' = Executed
    /\ UNCHANGED <<script, segment, parsers, singletons, headers, end>>

CallHeader ==
    /\ CallsNative("header")
    /\ headers' = headers \cup {"header"}
    /\ calls' = Executed
    /\ UNCHANGED <<script, segment, parsers, singletons, out, end>>

CallThrowError ==
    /\ CallsNative("throw_error")
    /\ End("error")
    /\ UNCHANGED <<script, segment, singletons, headers, out>>

CallOtherNative ==
    /\ \E f \in DOMAIN functions \ {"print", "header", "throw_error"} : CallsNative(f)
    /\ calls' = Executed
    /\ UNCHANGED <<script, segment, parsers, singletons, headers, out, end>>

\* Scopes whose tables have the function, from the current one outwards.
Found(f) == SelectSeq(Outward(Current), LAMBDA path : Symbol("function", path, f) \in declared)

CallsScript == NextIs("call") /\ Op.name \notin DOMAIN functions /\ Found(Op.name) # <<>>

\* A call of any kind: a scope of its own, and the operations of the body.
Begin(what, scope, body) ==
    /\ Create(scope)
    /\ calls' = Append(Executed, Activation(what, body))

StackFull == Len(calls) > MaxCalls

CallFunction ==
    /\ CallsScript /\ ~ StackFull
    /\ LET path == Append(Head(Found(Op.name)), Op.name)
       IN  Begin("function", Append(path, "call"), path)
    /\ UNCHANGED <<script, segment, parsers, container, methodsOf, headers, out, end>>

CallUnknown ==
    /\ NextIs("call") /\ Op.name \notin DOMAIN functions /\ Found(Op.name) = <<>>
    /\ End("error")
    /\ UNCHANGED <<script, segment, singletons, headers, out>>

HasMethod(c, m) == c \in DOMAIN methodsOf /\ m \in methodsOf[c]

\* NewExpressionNode, of a class of a module or one without a constructor.
NewPlain ==
    /\ NextIs("new") /\ ~ HasMethod(Op.name, Constructor)
    /\ calls' = Executed
    /\ UNCHANGED <<script, segment, parsers, singletons, headers, out, end>>

\* The body of the constructor is looked for under the name of the file of the new.
NewWithConstructor ==
    /\ NextIs("new") /\ HasMethod(Op.name, Constructor) /\ ~ StackFull
    /\ Begin("constructor", <<Constructor, "call">>, Op.path \o <<Op.name, Constructor>>)
    /\ UNCHANGED <<script, segment, parsers, container, methodsOf, headers, out, end>>

\* findClassNamespace, then the symbol of the method in the scope of the class.
MethodsFound ==
    {d \in declared : /\ d.kind = "method" /\ d.name = Method /\ Last(d.path) = Op.name
                      /\ Symbol("class", Front(d.path), Op.name) \in declared}

MethodDepth == Cardinality({i \in DOMAIN calls : calls[i].what = "method"})

\* MethodCallExpressionNode: the scope is named for class and method alone.
CallMethod ==
    /\ NextIs("send") /\ HasMethod(Op.name, Method) /\ MethodDepth < MaxMethodDepth /\ ~ StackFull
    /\ \E d \in MethodsFound : Begin("method", <<Op.name, Method>>, Append(d.path, Method))
    /\ UNCHANGED <<script, segment, parsers, container, methodsOf, headers, out, end>>

CallMethodFails ==
    /\ NextIs("send")
    /\ MethodDepth = MaxMethodDepth \/ ~ HasMethod(Op.name, Method) \/ MethodsFound = {}
    /\ End("error")
    /\ UNCHANGED <<script, segment, singletons, headers, out>>

StackOverflow ==
    /\ StackFull
    /\ \/ CallsScript
       \/ NextIs("new") /\ HasMethod(Op.name, Constructor)
       \/ NextIs("send") /\ HasMethod(Op.name, Method) /\ MethodDepth < MaxMethodDepth
    /\ End("overflow")
    /\ UNCHANGED <<script, segment, singletons, headers, out>>

\* The last operation of a body, or a return, and a plain pop.
LeaveCall ==
    /\ Executing /\ Len(calls) > 1
    /\ Last(calls).left = <<>> \/ NextIs("return")
    /\ scopeStack' = EnterPreviousScope(scopeStack)
    /\ calls' = Front(calls)
    /\ UNCHANGED <<script, segment, parsers, container, declared, methodsOf, headers, out, end>>

\* A return outside any function ends the script; the operations stay.
ReturnFromScript ==
    /\ Len(calls) = 1 /\ NextIs("return")
    /\ End("ok")
    /\ UNCHANGED <<script, segment, singletons, headers, out>>

LeaveSegment ==
    /\ Executing /\ Len(calls) = 1 /\ Last(calls).left = <<>>
    /\ Clear(<<File>>)
    /\ segment' = segment + 1
    /\ calls' = <<>>
    /\ UNCHANGED <<script, parsers, scopeStack, declared, methodsOf, headers, out, end>>

RunStep ==
    \/ Finish \/ OutsideTags \/ ParseSegment
    \/ ParseStatement \/ ParseNew \/ ParseSend \/ EnterFunction \/ LeaveFunction
    \/ EnterClass \/ LeaveMethod \/ LeaveClass
    \/ EnterInclude \/ LeaveInclude \/ SyntaxError
    \/ Interpret \/ Declare \/ DeclareAgain \/ DefineClass
    \/ CallPrint \/ CallHeader \/ CallThrowError \/ CallOtherNative
    \/ CallFunction \/ CallUnknown \/ NewPlain \/ NewWithConstructor
    \/ CallMethod \/ CallMethodFails \/ StackOverflow
    \/ LeaveCall \/ ReturnFromScript \/ LeaveSegment

=============================================================================
