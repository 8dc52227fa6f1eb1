# VoidScript, specified

TLA+ models of the VoidScript interpreter (`src/src`), the TLC runs that check
them on small instances, and proofs, checked by TLAPS, of what holds for every
instance. `PROJECT.json` says, definition by definition, which lines of the
source each module stands for.

## The system

VoidScript is a scripting language in the style of PHP: a lexer, a parser that
produces a tree of statement and expression nodes, and an interpreter that
executes the tree by C++ recursion. One script runs on one thread. What is hard
about it is not parallelism in the interpreter but the sequences: C++
exceptions that unwind a stack of nodes while a second stack is popped by hand,
state in singletons that outlives what it was about, and system calls that
block while other processes run.

| Part | State it keeps | Operations | Interacts with | What is hard |
|---|---|---|---|---|
| Interpreter (`Interpreter/`, `Nodes/`) | the C++ stack; the exception in flight; `thisObject_`; the call counter | one node per statement and expression; `runOperation`, `callUserFunction` | the symbol container on every call and loop; native modules, which call back | every exit of every construct, by five kinds of exception |
| Symbol container (`Symbols/`) | `scopes_`, `scopeStack_`, functions, classes, modules | `create`, `enter`, `enterPreviousScope`, `validateAndCleanupScopeStack`, registration, lookup | everything; a global singleton | names that collide, scopes left behind, registration that fails half way |
| Values and assignment (`Value.hpp`, assignment nodes) | shared reference-counted values | declare, assign, index, append, pass | symbol tables | who shares a value with whom |
| Parser, lexer (`Parser/`, `Lexer/`) | token position, `loop_depth_`, `switch_depth_` | one function per construct; shunting-yard expressions | creates scopes and operations | precedence; a parser of its own per function body |
| Operation container | script namespace to operations | add, get, clear | parser, interpreter | operations not cleared after an error |
| Process module | handles: pid, three pipe ends, a buffer | run, check, spawn, write, read line, wait, kill | child processes, pipes, the clock | blocking calls, deadlines, end of file, inherited descriptors, reused ids |
| Classes and instances (`ClassContainer.hpp`, class, `new`, method and member nodes) | the classes; an object is a shared map; `thisObject_` | define, `new`, method call, member read and write | every call that passes an object | who shares an object with whom; one scope for all calls of a method |
| Sockets, Redis | descriptors by object | connect, send, receive, close | servers | numbers used after close, answers that come late |
| SQLite, MariaDB, Memcached, MongoDB, Curl, StableDiffusion | handles of client libraries in tables, by the number of an object | open, use, close; requests; generations with a progress handler | client libraries, which may call back | numbers that copies share or miss, handles lost or closed twice, options that stay set |
| Xml2 | documents, nodes, lists and results, in tables by id, until the process ends | parse, create, navigate, select, change, load a schema | libxml2 | who frees a tree, what still points into it, the order of destructors at exit |
| FastCGI host (`fastcgi/`) | the singletons above, across requests | one `VoidScript` per request | everything | state of one request seen by the next |
| Command line, compiler, text, file and media modules | little | | libraries | |

What makes each part correct:

* Interpreter: whatever a script does, the scope stack holds the scopes of the
  constructs being executed, in their order; control flow ends at its target
  and errors at their handler; private members are open to methods alone; every
  unwinding ends.
* Symbol container: a scope's variables belong to one activation; a failed
  registration leaves nothing behind.
* Values: an assignment changes the variable assigned and what is documented to
  share its value; an append adds.
* Parser: an expression's tree is the one its precedences say.
* Process module: output is captured whole, the end of a stream is reported
  when it is reached, a call with a deadline ends, a signal goes to the process
  it was meant for, nothing is left behind.
* Classes and instances: a call changes its own variables and no other call's;
  private members are open to the method of their object; a function called in
  an expression cannot reach its caller's objects.
* Native modules: what belongs to one object changes through that object and
  its copies alone; every open handle is somebody's and nobody else's; a request
  goes out as it was asked for; a document is freed once, at exit.
* Host: requests do not see each other.

## The modules

| Module | Models | Source |
|---|---|---|
| `ScopeStack` | the operations that leave a scope, as operators on a sequence of names | `Symbols/SymbolContainer.cpp` |
| `Unwind` | the interpreter's constructs: the C++ stack, the scope stack, the exception in flight, `thisObject_` | `Interpreter/`, `Nodes/`, parts of `Parser.cpp` |
| `Activations` | what a script is promised: calls and loops nest | abstract; refined by `Unwind` |
| `UnwindProofs` | theorems about `Unwind` | |
| `ProcessRun` | one `process_run` or `process_check`: `pumpStdio`, system call by system call, against a child, its pipes and the clock | `Modules/BuiltIn/ProcessModule.hpp` |
| `ProcessRunProofs` | theorems about `ProcessRun` | |
| `ProcessHandles` | spawned processes and the five functions on them | `Modules/BuiltIn/ProcessModule.hpp` |
| `ProcessHandlesProofs` | theorems about `ProcessHandles` | |
| `Values`, `MCValues` | values, who points to them, and the statements and calls that move pointers | `Symbols/Value.cpp`, the assignment and call nodes |
| `ValuesProofs` | theorems about `Values` | |
| `ExpressionParser`, `MCExpressionParser` | `parseParsedExpression`, its operator stack and its recursion, and the grammar it is to read | `Parser.cpp`, `Lexer/Operators.hpp` |
| `Evaluation` | the value of a parsed expression: operators, ternaries, interpolated strings, the order of reads and calls; extends `ExpressionParser` | `Interpreter/Nodes/Expression/`, `Parser/StringInterpolation.hpp`, `Interpreter/ExpressionBuilder.hpp` |
| `Script` | what a script is, and what it means, by structural recursion | the reference for `Program` |
| `Registry` | native modules, functions and classes: registration, replacement, failure half way | `SymbolContainer.cpp`, `VoidScript.hpp` |
| `RegistryProofs` | theorems about `Registry` | |
| `Program` | `VoidScript::run`: segments, the lexer's and the parser's scopes, the operation container, calls by name | `VoidScript.hpp`, `Parser.cpp`, `Interpreter.cpp`, `OperationContainer.hpp` |
| `Host`, `MCHost` | the FastCGI process: a `VoidScript` per request over the same singletons; extends `Program` and `Registry` | `fastcgi/src/main.cpp`, `VoidScript.hpp` |
| `Service` | each request alone | abstract; refined by `Host` |
| `Sockets` | the descriptors of a process and the servers at the other end | external |
| `Network`, `MCNetwork` | Redis and TcpClient objects over shared descriptors; extends `Sockets` | `RedisModule.cpp`, `SocketModule.hpp` |
| `Session` | what a script may rely on when it talks to servers | abstract; refined by `Network` |
| `NetworkProofs` | theorems about `Network` | |
| `Objects`, `MCObjects` | instances of script classes and the calls that pass them about | the call, `new`, member and assignment nodes; `Symbols/Value.cpp` |
| `ObjectsProofs` | theorems about `Objects` | |
| `Identity` | objects of native classes and the number that `instanceId()` gives them | `Symbols/Value.cpp` |
| `Databases` | what SQLite, MariaDB and Memcached keep for an object; extends `Identity` | `SQLiteModule.cpp`, `MariaDBModule.cpp`, `MemcachedModule.cpp` |
| `HttpClient` | `CurlClient` and `CurlResponse`; extends `Databases` | `CurlModule.cpp` |
| `Generation` | `StableDiffusion`, its generations and their progress handlers; extends `Databases` | `SDModule.cpp` |
| `Documents` | the documents of `Xml2`: trees, the objects that own or point into them, and the end of the process | `XmlModule.cpp`, `XmlModule.hpp` |
| `Natives`, `MCNatives` | one script and its native objects; extends `HttpClient`, `Generation` and `Documents` | |
| `NativesProofs` | theorems about `Natives` and the modules it extends | |

### Unwind

`frames` is the C++ stack, one record per construct being executed: its kind,
the scope name it entered (`own`), where on the scope stack it put it (`base`)
and the number of the activation (`act`). `scopeStack` is `scopeStack_`,
`tables` maps the names in `scopes_` to the activation that made the table,
`sig` is the exception in flight, `origin` what it was when it was raised,
`thisObj` is `thisObject_`. Names are sequences of segments, so that
`file::f::call_3` is `<<File, 3>>`. The two counters that number calls are one
variable, `acts`; they number scopes with different bases.

Kinds of frames: `callStmt` (`CallStatementNode`), `callExpr`
(`CallExpressionNode`), `callback` (`callUserFunction`), `method`
(`MethodCallExpressionNode`), `ctor` (`NewExpressionNode`), `loop` (`while`,
`for`, for-in), `switch`, `try` and `catch`, `propInit` (the default of a
property, whose errors `NewExpressionNode` swallows), `file` (`VoidScript::run`).
`return`, `break` and `continue` are control-flow signals, which are not
`std::exception`s; `throw` and `error` are. Each handler is an action: what it
catches, what it pops and what it rethrows as.

The script is arbitrary: any statement may come next, any expression may fail.
The parser's contribution is `MayRaise`: `break` and `continue` are accepted
only inside a loop or switch of the same body.

### ProcessRun and ProcessHandles

`pc` in `ProcessRun` is the system call `pumpStdio` is about to make; the
child's steps and the clock's come between any two. A pipe holds a number of
units; `write` of the interpreter goes on inside the call until everything is
in, because the descriptor blocks; `select` reports what the kernel would. The
child is `"any"` process, which may read, write, close, exit and leave other
processes with its streams, or a `"filter"`, which copies its input and exits.
`ProcessHandles` has many children but one blocked call at a time, `call`. Each
child remembers the pipe ends it inherited (`inherits`), for no descriptor is
close-on-exec, and process ids come back after `waitpid`. What is the operating
system's in these modules is marked external.

### Values

`heap` maps addresses to Values, which have a type and, if they are arrays,
elements that are addresses again; addresses 1 and 2 are the literals of the
program text, which every execution of a `LiteralExpressionNode` hands out
anew. `frames` has a scope per running call: the variables, each with an
address, and, for a call in an expression, where the waiting statement will put
the result (`into`), for that was evaluated before the call. A Value nothing
leads to is free again, as with `shared_ptr`. The script is arbitrary, within
three limits that say what kind of script it is: `TypeOf` its variables,
`Locals` those that functions declare, `Globals` those that functions use
although they are their caller's, which `getVariable` allows. An error ends the
script, so a statement that would fail is not enabled. Methods and constructors
bind parameters as a call statement does.

### ExpressionParser

`frames` is the stack of live calls of `parseParsedExpression`, each with its
`operator_stack`, its `output_queue`, `expect_unary` and `atStart`; `use` says
what the caller makes of the expression, and `items` are those it has already.
One action is one branch of the loop, or the caller's code after the call. The
text is any sequence of tokens of a dialect, a set of words chosen so that the
branches that meet are together; most texts are no expressions at all.

`Reference` is the grammar of C read from the outside in: the loosest operator
of a span is its root. It shares nothing with the parser but the shape of
trees. Three operators name where the parser reads otherwise
(`IncrementAmongOperators`, `TernaryInGroup`, `MistakenBracket`).

`Evaluation` goes on from there. The recursion of `evaluate()` over the tree is
the stack `todo`, the values in C++ locals are `held`; a step is a node that
returns or hands over to an operand. What a variable holds, what a function
returns and whether either throws is arbitrary and recorded in `read` with its
place. An int has `Width` bits and wraps, as it does in the build, although C++
leaves overflow undefined; the smallest int by -1 kills the process. A double
is a kind without a value, so an operator has a set of outcomes. The reference
`Meaning` evaluates the tree of `Reference`, never the parser's, and says which
int solves an equation where the code computes one. Two of its operators name
what C does not have: `NullOperand` and `MinusOfString`. Texts with `->` or `[`
are parsed only; what they do is in `Objects` and `Values`.

### Registry, Program, Host

In `Registry` a module object is the number of its creation (`made`); the maps
`functions`, `classes` and `modules` hold the number that a callback captured
or `modules_` owns. A class stands for its methods: the first of them that is
there already throws. `InitPlugin` is `plugin_init` of a plugin, with the look
at `modules_` that only MariaDB's takes.

`Program` has what `VoidScript::run` has: `parsers`, the live calls of
`parseScript` (file, included file, class, body of a function or method);
`container`, the operations under the names of scopes; `calls`, the operations
each live function, method or constructor still has to execute, which
`Interpreter::run` copies; `declared`, the functions, classes and methods in
`scopes_`; `methodsOf`, the script's classes in `classes_`. A statement is parsed into the scope that
is current and executed from the scope that is current then; nothing but names
connects the two. Functions are found from the current scope outwards, methods
in the scope of their class, constructors under the name of the file. The
call's own scope is written `Append(path, "call")`: its number matters only in
`Unwind`. A statement `New` is `C $v = new C();`, `Send` the same with `$v->m();` after it.

The parser of a body gets the text of that body alone, but the positions of its
tokens are those in the file. It uses them for one thing, to cut out the text of
a body inside it (`Parser.cpp:965`), which throws when the position is beyond the end. A
model without characters has both outcomes (`BodyOutOfText`).

`Script` says what the same script means without any of that: `Perform`
executes the tree, a function is visible where it is declared and inside, an
included file is part of the one that includes it, a class and its methods
stand where they are written. `Service` is a process that
answers one request with `Meaning(script, natives, rejected)`, where `natives`
depends on which plugins loaded and `rejected` are segments with a function in
a function. `Host` implements it for every script that has no `Gap`: a name declared
twice in a scope, a file or class in a function, a method that calls a
function, a method call at the end of a body, a `new` in an included file.

`Host` is `main()`: built-in modules are registered one by one, plugins in any
order, each of which may be missing its entry point (`SkipPlugin`); what the
constructor throws is caught by nothing (`Abort`). `Crash` is a script that
overflows the C++ stack, or that lists the modules while a pointer to a
destroyed one is in the list (`Dangling`). `Respawn` is the manager's.

### Sockets, Network

`fds` is the process's descriptor table, from which `socket()` takes the lowest
free number. A command goes out in two pieces, so that it can be sent in part;
an answer is a sequence of tokens, each with the number of the command it
answers. The server answers when it likes, refuses what it cannot put together,
and hangs up. `call` is the one Redis command that is running: what it has sent
and what of the answer it still needs (`need`), for `readReply` calls itself. A
payload that is read where a line was expected may be refused or taken for
whatever it looks like. Commands differ in their words alone and are one
action.

`torn` is history: the clients that may no longer trust their connection. It
is what `Session` calls trust. A client loses it when a call of its own throws
in the middle of a command or of an answer, when its `connect()` fails and leaves the old number
behind, or when another client that has lost it works on this one's descriptor;
`connect()` and `close()` restore it. The end of the stream counts as a loss
as well, which the code does not tell from a timeout.

### Objects

`heap` has the instances, each with a class and what its one property holds,
another object or 0; a property that was never given a value is an object of no
class (`Empty`) that comes to light when it is read. `calls` are the calls that
run: the kind of each, the name of its scope, its object and where the waiting
statement puts the result (`into`), which was looked up before. `tables` is
`scopes_`, by those names: one that is new for a function or a constructor, and
`<<class, 0>>` for a method, whatever object it was called on. `Enter` replaces
the table as `create()` does, and the assignment that waits in the call that had
it goes to a variable nobody can see (`Orphaned`). `Finish` ends a statement:
what nothing leads to any more is free. A function in an expression gets what
`Clone` makes; with one property to an object, copying along each path, as the
code does, and copying the graph come to the same. `thisObj` is `thisObject_`.
`reused` and `called` of a call are history.

A call uses its own variables alone; that a function sees its caller's is in
`Values`. Nothing raises here; `Unwind` has the exceptions, with `thisObj` too.

### Identity, Databases, HttpClient, Generation, Documents, Natives

An object of a native class is a map with a number in it (`Identity`). Each
module has tables by that number: `dbs`, `clients`, `memcs`, `curls` with
`config`, `responses`, `contexts` with `ticks`. What is in them are handles of
client libraries, numbers in `library`, which says of each what it is of and
whether it is open; the libraries themselves are external. `Copy` is the clone
that a call in an expression makes of an argument. A call that fails and changes
nothing is no action; one that only writes the number is (`SqliteIsOpen`).

A client of `HttpClient` is one handle of libcurl and the options set on it.
`sent` is the last request, with what was asked for and what went out, and
`before` is history: what the handle was used for since it was made. The transfer
itself may succeed or fail, and makes a response in both cases.

In `Generation`, `active` is the one capture of the process (`g_activeModule`
and its neighbours), and `running` the generations that have begun, more than
one when a progress handler generates. The library is assumed to report
progress of generations only. Of what is captured, progress is modelled; the
log lines are filed the same way. `over` says that the process waits for itself
or has crashed.

In `Documents`, `nodes` are the allocations of libxml2: elements, attributes,
texts, the namespaces a selection copies, schemas and their parsers, DTDs. Each
has its parent, its document and how often it was freed. `handles` are the
objects in the module's holders, by id, with the nodes they point to and
whether they own them; ids of objects that no holder keeps are not counted. A
tree is its root element and what is below, so the document itself is no node;
`Texts` is what the parser can make of a text. Nodes are numbered as they are
allocated, a parent before what is below it, which is their order in the document.
`cut` is history: what a call of the script has freed under the objects that
point there. A method on such a node is undefined (`UseAnyway`) and the process
is not followed further. `Destroy` is one holder at exit, in the order opposite to
that in which they are declared, `gone` how many are; `wild` is what destructors
read although it was freed. A script uses these or the other native classes,
which share nothing with them.

## The runs

| Run | Instance | What it shows |
|---|---|---|
| `unwind` (`Unwind.cfg`) | every construct and exception, four C++ frames, three scopes entered, method depth 2 | scopes of live constructs, tables of calls; where control flow ends; the recovery of calls in expressions; that unwinding ends |
| `unwind_plain` (`UnwindPlain.cfg`) | no `try`, `propInit` or predicate methods; no return from inside a loop of a statement call, a method or a constructor; five frames | exact scopes, private access, and that `Unwind` implements `Activations` |
| `process_run` (`ProcessRun.cfg`) | input larger than a pipe, a deadline, any child that keeps its stderr to the end | whole output, whole input, nothing left behind, the one thing that can hold the call up |
| `process_handles` (`ProcessHandles.cfg`) | one filter, one source, every order of calls | honest end of file, no lost line, signals to the right process, what can hold up a wait |
| `values` (`Values.cfg`) | an array, an integer that functions may use, one call deep | scalars survive sharing; calls in expressions isolate; an append adds |
| `expressions` (`ExpressionParser.cfg`) | every text of 4 to 7 tokens in seven dialects, ints of three bits, ten things to read | outside the three gaps the grouping and the value are C's; no operand is lost or moved, or read out of order; the parser is through with any text |
| `host` (`Host.cfg`) | every script of four dialects, two built-in modules, two files of each of two plugins in any order | an answer is what the script means; a request ends; a plugin that fails damages nothing else |
| `network` (`Network.cfg`) | two Redis objects and a TcpClient, three descriptors, two commands, four shapes of answer | a trusted connection is the client's own and its answers too; what costs trust; every call ends |
| `objects` (`Objects.cfg`) | three kinds of scripts, two to four objects, three or four calls deep | variables are a call's own but for methods called again; private access; clones keep a function from its caller's objects |
| `natives` (`Natives.cfg`) | six native classes, three objects, five calls, two progress steps; or five calls on documents, and the exit | one instance at a time; handles open, held once and not lost but in four ways; requests as asked, but for what the client was used for before; captures are own; nothing of a document is freed twice, and nothing is read that is freed unless a call of the script freed it |
| `throw_flattened`, `second_request` | the smallest instance that shows it | two disagreements between code and documents, below |

Bounds. A scope can be lost or taken by a construct, one inside it that leaves
something behind and one inside that which raises: with the file that makes
four frames, and three scopes is what they can enter. `MaxMethodDepth` (100 in
the code) is 2, so that the limit is met. One loop site suffices, for names of
loops differ by the scope they are in; the proofs have no bounds. A pipe of two
units is enough for a read or write to be partial, and two processes for one to
inherit from the other or to get its id.

In `Values`, three addresses beside the literals are an array, one inside it and
a clone; two elements in all arrays together make an append to an array that is
not empty, an element shared by two indices, and an array inside itself. A
clone of nested arrays would need a fourth address: it was checked with
`MaxValues = 6` as far as a breadth-first search of five minutes goes, no
further. With an array in `Globals` a function changes its caller's array
whatever its argument was, so `CallsInExpressionsIsolate` says what it says of
functions that do not.

In `ExpressionParser`, a decision of the loop looks at the token, at the top of
the operator stack and at two flags; six tokens put two operators of any
strengths and a prefix inside a group, and seven a ternary into a branch of
another. Three bits are the least in which a quotient can be rounded, a product
overflow and the smallest int differ from -1; three operands are a result that
is an operand on either side. In `Host`, a script of four or five statements holds a function in a
function, a call before, inside and after, and a cut between segments at any
of those places; `MaxCalls = 2` is a call inside a call, so that the limit of
the stack is met by recursion and by nothing else, and `MaxMethodDepth` (100 in
the code) is 1, below it, as 100 methods are far from filling the stack. Three statements define a
class, make an object and use it, in one file or across segments or an include. Two files of one plugin are
what it takes for a name to be taken over or refused. In `Network`, two
commands are what it takes for an answer to come late, and three descriptors
let a failed `connect()` leave a number that another object then gets.

In `Objects`, four objects are one that holds another and the clones of both,
and three calls are the file and a function in each position; four methods deep,
one class is met again through another, and `KeepsVariables` needs no more than
that. The third script has everything together, with few objects. In `Natives`,
three objects are an object, its copy and another of its class, or a client, a
response and a copy; five calls make an object, copy it and use both, or send a
request, spoil an option and send another. `Steps = 2` lets a nested generation
fall between two steps of the outer one. Five calls on documents make one, take
a node and a selection of it, cut what they point to and ask for it again; the
one text of `MCTexts` has an attribute, a text and elements two deep. The proofs have
any trees.

The proofs have the `TypeOK` of `Unwind`, `ProcessRun`, `ProcessHandles`, `Values`,
`Registry`, `Network`, `Objects` and `Natives`; the others are there for the reader.

`Unwind`, `ProcessRun` and `Host` are checked for deadlock. The other
runs are not: a script of `Values` stops when its stack overflows, one of
`ProcessHandles` or `Network` may be over, a script that waits for a child that
waits for it blocks for good, a parser that has read its text is done, a script
of `Objects` whose stack overflows stops, and one of `Natives` may be over, or
wait for its own mutex.

Fairness. In `Unwind`, only that an exception in flight goes on unwinding: C++
runs nothing else. A script need not go on. In `ProcessRun`, the interpreter
and the clock; of the child, only a filter is assumed to go on, never an
arbitrary program. In `ProcessHandles`, the call the interpreter is in, and
each child, all of which are programs that work when they can. In
`ExpressionParser`, the parser, which is a loop. In `Host`, the process while
it serves a request, neither the arrival of requests nor the manager. In
`Network`, the steps of the call that is running, never a server: each `send`
and `recv` returns, with bytes or without, when `SO_SNDTIMEO` or `SO_RCVTIMEO`
is over. A script that sets the timeout to 0 gives that up. `Objects` and
`Natives` assume none.

### What the code does otherwise than its documents say

Numbers 1 and 3 have a run of their own. The others are consequences of actions
of the models. Several properties leave such a case out, by a constant or by a
condition (`LoopReturns`, `Globals`, `KillsReaped`; `torn`, `before`, `nested`),
to say what holds besides: they do not guard against the case itself. Where an
entry says that something fails, TLC finds the counterexample when the constant
is changed, or the condition dropped, as the entry has it.

1. A `throw` that crosses a call in an expression becomes an error whose text
   mentions the throw (`CallExpressionNode.hpp:143`; `BUGS.md` #28 says it
   reaches its catch intact).
2. `++` and `--` are not in the table of precedences, so they bind looser than
   everything: `$a + $b++` is read as `($a + $b)++`, and `$a * ++$b` is
   rejected (`Operators.hpp:67`, against the comment at its line 29).
3. The second request of a FastCGI process aborts it: the constructor registers
   the built-in classes again and `addNativeMethod` throws
   (`SymbolContainer.cpp:425`, against `fastcgi/src/main.cpp:16`).
4. After a timeout a Redis connection is one answer behind
   (`RedisModule.cpp:68`, against its line 187 and others like it); in `Network`
   that is a connection that is no longer trusted. Without trust in the
   condition, `result # Nothing => result.of = {result.n}` fails.
5. `return` from inside a loop, in a function called as a statement, leaks the
   call's scope (`CallStatementNode.hpp:122` pops once; `BUGS.md` #2 says it
   does not leak). The function's variables are visible to the caller from then
   on. `ExactScopes` and `ReturnLeaksNoScope` therefore hold only without such
   returns, which `LoopReturns` in `UnwindPlain.cfg` says; with `"callStmt"` in it,
   both fail. Methods and constructors use the same single pop.
6. A method that has called another method can no longer use its own class's
   private members, for the exit of a method empties `thisObject_`
   (`MethodCallExpressionNode.hpp:345`). The opposite also happens: a method
   left by an exception does not empty it (line 334), nor do the predicate
   methods (line 149), and private members are open to the code after it; that
   is why `PrivateOnlyInMethods` is checked without `try` and predicates.
7. `process_run` with much input blocks for good against any child that writes
   while it reads, whatever the deadline: with `Program = "filter"`,
   `<>Ended` fails. A child that closes both its outputs and goes on is waited
   for without the deadline too: with `"out"` and `"err"` in `Closes`,
   `HeldUpOnlyByFeeding` fails, and so does `WholeInput`.
8. `process_kill` after `process_wait` signals a process id that may have been
   given to another process: with `KillsReaped = TRUE`, `KilledAsAsked` fails.
9. `$a[] = f()` computes the index before it calls `f`
   (`IndexedAssignmentStatementNode.hpp:52`, then 66): if `f` appends to `$a`,
   its element is overwritten. The comment there takes the size for the next
   free slot. With the array in `Globals`, `AppendAdds` fails.
10. A ternary in grouping parentheses is rejected; a bracket after a call or a
    group is taken for an array literal where it is an index, or the other way
    round; `1 2 +` is accepted and means `1 + 2`. The first two are the
    gaps of `ExpressionParser`.
11. An include in a function ends the function's scope early: the lexer enters
    a scope for the included file and nothing leaves it (`Lexer.cpp:11`), so
    the parser of the function leaves that one instead. A name declared twice
    in a scope gets both bodies, one after the other, until the second
    declaration fails. An include in an included file is resolved against the
    name as it was written, which for a bare name has no directory.
12. A Redis `connect()` that fails closes the old descriptor and keeps its
    number (`RedisModule.cpp:220`); the next call or `close()` is then on
    whatever socket has got that number since. `SocketModule` forgets the
    number first. The Redis `README.md:24` says "Each instance owns its own
    connection"; `Open(FdOf(c)) => fds[FdOf(c)].owner = c`, which asks no trust
    as `DescriptorIsOwn` does, fails.
13. A second `connect()` on a MariaDB object waits for itself: it locks a mutex
    and calls `disconnect()`, which locks it again (`MariaDBModule.cpp:46`).

14. A function in a function is rejected ("basic_string_view::substr") when it
    starts further into the file than the outer body is long
    (`Parser.cpp:965`): the same two functions are accepted at the top of a
    file and rejected further down.
15. Methods and constructors cannot call the functions of the file. A method's
    scope is named `Class::method` and a constructor's `construct::call_n`, so
    the search outwards never comes to the file; `CallStatementNode.hpp:69`
    assumes "scope names are hierarchical (e.g., /file/path::class::method)".
16. A `new` in an included file runs no constructor: its operations are looked
    up under the name of the included file (`NewExpressionNode.hpp:270`), but
    were stored under the scope of the file that includes it.
17. A method call, or another expression statement, as the last statement of a
    body is a syntax error, "Cannot access token at end of stream": the parser
    takes the line of the node from the token after the semicolon
    (`Parser.cpp:686`). So is `$this->n();` as a statement anywhere, although
    the repository's `README.md:96` has methods accessed with `$this->`.
18. A class with the name of a function runs the body of that function when it
    is defined, for both keep their operations under the same name
    (`ClassDefinitionStatementNode.hpp:86`); a `return` in it ends the script.
    No dialect of `MCHost` has such names.
19. A method that calls itself gets the error of `MAX_CALL_DEPTH`; a
    constructor that does, or a function, overflows the C++ stack.
20. All calls of a method share the scope `Class::method`
    (`MethodCallExpressionNode.hpp:297`), so a method that is called again while
    it runs, on whatever object, loses `$this`, its parameters and its variables:
    after the inner call, `return $k` returns the inner call's parameter, a
    variable both declare is "already declared", and a result that was to be
    assigned to a variable is lost. That is what `reused` excepts in
    `VariablesAreOwn`.
21. Private properties can be written, and private methods called, from
    anywhere; only reading asks (`MemberExpressionNode.hpp`). `README.md:96` of
    the repository has "classes with access control modifiers";
    `ClassDefinitionStatementNode.hpp:55` says "privacy not enforced yet".
22. A function that changes its parameter changes the caller's object if the
    call is a statement (`CallStatementNode.hpp:103`) and a clone if it is in an
    expression. The clone of an object that leads to itself overflows the C++
    stack (`Value.cpp:68`).
23. What a class-typed variable or property holds without a value is an object:
    it is shared by assignment and its properties can be written.
24. A `CurlClient` keeps its options: after `put()` or `delete()` every request
    is one, after `post()` every `get()` is a POST with the old data
    (`CurlModule.cpp:226`; its line 884 says "Perform GET request", and
    `sent.verb = sent.asked` fails); an empty map of headers frees the list
    that libcurl still has (`CurlModule.cpp:112`).
25. SQLite parameters that are no array leave a statement behind
    (`SQLiteModule.cpp:184`), with which `sqlite3_close()` refuses to close; an
    `open()` that fails has closed the database that was open. An SQLite object
    gets its number with the first call, so a copy made before is another
    instance (`Value.hpp:201` has the number "lazily stamped" and "shared by
    every reference to that object"; a copy is none).
26. The constructor of `MariaDBConnection`, called on an object again before it
    connects, leaks the handle: `~MariaDBClient` only disconnects. One `MongoDB`
    module has one connection for all its objects (`MongoDBModule.hpp:122`).
27. A generation in a progress handler, or `loadControlNet()` there, ends the
    capture of the outer generation, which records nothing more and calls no
    handler (`SDModule.cpp:300`; its line 25 takes one target to be enough, and
    that no generation has `missed` a step fails). A handler may unload the model
    in use (`Crash`). A generation that throws before it begins, for an image
    that cannot be loaded or an option of the wrong type, leaks the images loaded
    before (`InputFails`, one handle for them all); `upscale()` leaks the context
    it has made as well (`SDModule.cpp:738`, `UpscaleFails`).
28. `&&` and `||` evaluate both operands (`BinaryExpressionNode.hpp:25`). The
    script `Modules/Xml2/test_scripts/xml_basic_test.vs:50` guards the right one
    by the left: `$rootAttrs != NULL && $rootAttrs->children != NULL`.
29. Any operator but `==` and `!=` beside a null yields `false`
    (`BinaryExpressionNode.hpp:36`): `"a" + $n` is `false`, and the string
    `"a${n}b"`, which is three parts put together with `+`, is `"falseb"`.
    `StringInterpolation.hpp:159` says that a literal that is nothing but a
    reference "still produces a string".
30. The smallest int divided by -1 raises `SIGFPE`
    (`BinaryExpressionNode.hpp:209`); the comment
    at line 261 has division by zero refused because it "killed the whole process with
    an uncatchable signal". `++` in an expression changes no variable, and the
    minus of a string is the string.

31. `setContent()`, `removeAttribute()` and a selection of namespaces
    (`selectNodes("namespace::*")`, whose result is freed with the call,
    `XmlModule.cpp:745`) leave objects that point to freed nodes, and a result
    that `xpath()` keeps reads the types of its nodes again when it is destroyed
    at exit. `XmlModule.hpp:417` has it that the holders free their contents "so
    cleanup still happens exactly once": every node is freed once, but not
    unread. That is what `cut` excepts in `CleanedUpOnce`, and `CleanedUp`, below,
    proves that there is no other exception.
32. `readMemory()` and `readFile()` give the document to the object they return
    and not to the one they are called on: `test_scripts/xml_basic_test.vs:15`
    calls the one and line 16 asks the object for its root, which fails. The
    root of an `Xml2` is in `nodeHolder` alone (`XmlModule.cpp:1905`), where the
    methods of nodes do not look.
33. `createXPath()` is a method of `Xml2` that looks for the handle of a
    document, so that no script can make an `XmlXPath`; `appendChild()` and the
    validations are placeholders. Loading a schema or a DTD again leaks the one
    that was there (`XmlModule.cpp:55`).

Numbers 1, 2, 5 to 11, 14 to 23 and 28 to 32 were confirmed by running scripts in the
interpreter (31 with an address sanitizer), except the reuse of an id in 8, where the call of `kill` on a
reaped id was. Numbers 3, 4, 12, 13 and 24 to 27 need servers or libraries and
follow from the code and, but for 13 and MongoDB, from what the runs reach.

## The proofs

`UnwindProofs` proves, for every set of constructs and exceptions, any nesting
and scripts of any length (assuming only `UnwindAssumption`, the types of the
constants):

* `TypeCorrect`, `ScopesKept`, `TablesOwned`: `TypeOK`, `LiveScopesKept` and
  `CallTableIsOwn` are invariants;
* `RecoveryExact`: a call in an expression and a callback leave the scope stack
  exactly as they found it, whatever was left behind inside.

The argument. `LiveScopesKept` alone is not inductive: the recovery of a call
searches the scope stack for the call's name, so one must know that the name
occurs once (`CallNamesFresh`: no number comes back), that live calls have such
names and tables (`LiveCallsNamed`), and that a pop always finds a scope of a
caller below (`CallersBelow`: `enterPreviousScope` never removes the last
entry). `IInv` is the conjunction, checked by TLC and proved inductive. Every
step either appends a scope with a fresh name or one no live call owns
(`GrowKeeps`) or cuts the scope stack above the scopes of the constructs that
remain (`CutKeeps`); the lemmas on sequences say that the plain pop and the
recovery are such cuts.

Of control flow, without any condition:

* `ControlReachesTarget`: `ControlFlowReachesTarget`, no construct on the way
  ends a `break`, a `continue` or a `return`.

The second part is about scripts that are `Disciplined`: no `try` and no default
of a property, and no `return` from inside a loop in a function called as a
statement, a method or a constructor. Each of the three is a way to leave a scope
behind (numbers 5 and 6 above, and what `try` keeps of the calls it cuts off),
and `UnwindPlain.cfg` has the same limits:

* `ScopesExact`, `NoScopeLeaked`: `ExactScopes` and `ReturnLeaksNoScope`;
* `ActivationsNest`: `RefinesActivations`, which is the whole refinement: the
  initial state and every step of `Unwind` are ones of `Activations`, or stutter;
* `PrivateGuarded`: `PrivateOnlyInMethods`, also without predicate methods.

The invariant, `ExactInv`, says which live construct each entry of the scope
stack belongs to (`Covered`), at rest all of them, and while a `return` is in
flight all but those of the loops it has left, which the body that ends it
then pops.

`ProcessRunProofs` proves, for every size of pipe, buffer and input, every
deadline and every child:

* `OutputWhole`: `WholeOutput`, from the invariant that an output the
  interpreter has closed before the deadline is empty and open at nobody's end,
  and that what was written is captured or in the pipe;
* `LeavesNothing`: `NothingLeftBehind`;
* `InputWhole`: `WholeInput`, for a child that keeps one of its outputs open
  until it ends. While it does, the loop goes on, so the interpreter feeds it
  until all is written, unless nobody reads any more or the deadline has passed;
* `RunTyped`: `TypeOK`.

`ProcessHandlesProofs` proves, for any number of handles, process ids and lines
(`Pids # {}` in `ProcessHandlesAssumption`: there are processes):

* `LinesNeverLost` and `EofNeverEarly`: `LinesKept` and `EofIsHonest`;
* `KillsOnlyAsked`: `KilledAsAsked`, for a script that kills no handle it has
  waited for (`~KillsReaped`; without, it is number 8 above);
* `HandlesTyped`: `TypeOK`, and with it that a process id names one live process.

The argument. `HandlesInv` says of every line where it is: read by the script, in
the buffer or in the pipe (`LinesCounted`). The end of file needs more, for who
holds the other end of a pipe is a matter of all children: an output that the
interpreter has closed, or told to be at its end, has nobody left who could
write to it, and an empty pipe (`ClosedAtEnd`, `ToldAtEnd`). An id comes back
only after `waitpid`, so a handle that was not waited for is the only owner of
its own (`IdsUnique`).

`ValuesProofs` proves, for any variables and types, heaps of any size, arrays
nested and knotted in any way, and any depth of calls (from `ValuesAssumption`,
the types of the constants):

* `ValuesTyped`: `TypeOK`, which says that nothing keeps a pointer to a Value
  that is gone;
* `ScalarsImmutable`: `ScalarsNeverChange`;
* `Isolation` and `AppendsAdd`: `CallsInExpressionsIsolate` and `AppendAdds`, if no global
  that functions use is an array (`ScalarGlobals`, as in `Values.cfg`; without it
  both are false, and number 9 above is one consequence).

The argument. What a call in an expression is passed leads to nothing its
callers have when it begins, and that must last. `Sound` therefore has, for every
such call, a division of the arrays in two halves, neither of which leads to the
other: `Inside`, what the call and those it makes hold, is in one, and `Outside`,
what its callers hold, the array that waits for its result included, in the other. That
is stronger than the property, which is about what is held now: garbage is
divided too. A statement stores what is within the half of the running call
(`Fits`), for every division that there is; a result joins the half of the call it
returns to; and a scalar belongs to neither, which is why functions may use the
scalars of their callers. The clone begins a division (`CloneSound`), and there the
copying itself matters: `Paths` is a recursive function, and that every path of
the argument has its continuations, and so its copy, is proved by induction on
the stages of that function. An append stores at the number of elements counted
before the call, which is still the number because the array is on the other side
of the division (`FrameSound`).

`RegistryProofs` proves, for every set of modules of which only copies of one
plugin share names (`CopiesAssumption`), registered in any order and any number
of times:

* `RegistryTyped` and `RegistryContained`: `RegistryTypeOK` and
  `FailureIsContained`;
* `MethodsLive`: the object behind every registered class is in `modules_`;
* `PluginIsARegistryStep`: what `plugin_init` does is one of those steps.

The argument. A module throws at the first class that is there already. By the
assumption only a copy can have registered it, and a copy registers all its
classes or, if it throws, none that were new: the classes of a module are
registered all or not at all (`AllOrNone`). So a module that throws has taken over functions and
no class, and one that is replaced has had none of its classes taken by
another.

`NetworkProofs` proves, for every set of objects, any number of descriptors and
commands and answers of any shape:

* `OwnDescriptors`: `DescriptorIsOwn`, two objects that are both trusted never
  share a descriptor;
* `NetworkTyped`, and `CallsAreSane`: a running call still needs part of its
  answer;
* `TrustedAreClean`: on a connection its client may trust, nothing is on its way
  but one command or the rest of one answer (`CleanInv`);
* `KeepsThePromise`: `ImplementsSession`, the refinement of `Session`, for servers
  whose every answer is one whole reply (`RepliesAssumption`).

For the first three the inductive invariant is their conjunction. A descriptor gets a
second object only when `socket()` gives out the number that a failed
`connect()` has left behind, and the object that kept it has lost its trust by then
(`SharersAreHit`, `OpeningKeeps`, `ClosingKeeps`).

The refinement needs in addition what is in the stream. `CleanInv` says of each
trusted connection: outside a call of its client the buffer and both directions of
the socket are empty; in a call either pieces of this one command are on their way
to the server and nothing has come back (`Asking`), or the command has been taken
and what has been read, and what is still to arrive, continue one answer from the
token up to which it was parsed, with exactly as much due as the parser still needs
(`Answering`). How much is due after j tokens is a count (`Due`: one more for each array, one
less for each value, error or payload), so no recursion is needed; it is 0 at the
end of a reply and nowhere else (`IsReply`). So a call ends when the stream is empty
(`NothingLeft`), an error inside an array does not and costs the client its trust,
and a payload is never read where a line is expected (`DueAgrees`). A step of one
client cannot touch what another one trusts (`UnhitKept`). Each step is then one of
`Session` or a stutter: sending and receiving are `Interfere` where they are on
somebody else's socket, which only a client without trust does (`UseIsInterference`).

`ObjectsProofs` proves, for any classes, any scripts, heaps of any size and any
depth of calls (from `ObjectsAssumption`, the types of the constants):

* `CallsOwnVariables`: `VariablesAreOwn`;
* `PrivateToReceiver`: `ThisIsReceiver`;
* `ObjectsTyped`: `TypeOK`;
* `ArgumentsCopied`: `ArgumentsAreCopies`.

The argument. The inductive invariant `ObjectsInv` adds to the second and third
that the names of scopes are those that `Enter` gives, and that nothing a method
calls is a function (`CallsAreSound`: the search outwards never comes to the
file, number 15 above), so that a function has no `thisObject_` to give back;
and that two running calls share a scope only if both are of one method and the
first is marked (`ScopesApart`). A step then writes the table of the innermost
call, or replaces the table of calls it marks. `CopiesInv` adds the divisions of
the heap that `ValuesProofs` has, here without a condition: a function never sees
its caller's variables in this model, and no function runs above a method
(`FunctionsBelow`: no method calls one, directly or not), so that a method that is
entered again takes over the scope of no call that a function waits for. The file divides what
exists from nothing; that half says that no pointer dangles.

`NativesProofs` proves, for any number of objects, calls, base URLs, timeouts and
steps (from the assumptions on the constants; `MaxObjects # 0`, for a generation
needs an object):

* `NumbersFollowNew`, `HandlesHeld`, `RequestsHonest`, `CapturesOwn`:
  `IdentityFollowsNew`, `HandlesAreHeld`, `RequestsAsAsked` and `CapturesAreOwn`;
* `InstancesIndependent`: `OneInstanceAtATime`;
* `CleanedUp`: `CleanedUpOnce`, for trees of any size and depth that the parser
  makes (`DocumentsAssumption`: in a tree, parents come first);
* `NativesTyped`: `TypeOK`.

The argument. `NativesInv` has a part for each module. That a number is given
once needs that the counter stays within the numbers there are, which is a
pigeonhole: every number given is on an object (`Numbered`, `NumbersFit`). The
tables of all modules are taken as one function from places to handles
(`Entries`), so that the lemmas on what a call does to the handles (`Sound`) are
proved once. An option set on a handle of libcurl has a use of that handle in its
history (`OptionsAccounted`). Of the generations in progress only the one on top
can have the callbacks, and it has them unless something captured inside it
(`CapturesNested`). For `InstancesIndependent`, each action changes what hangs on
one number, and objects with the same number are of one instance.

`DocumentsInv` is the invariant of the documents. `CleanedUpOnce` says how often a
node was freed and not why, so it is not inductive: `FreedOnce` gives the reason, a
call of the script (`cut`) or the destructor of the object that owns the tree the
node is in, and there may only be one reason. So what is owned is the root of a tree
(`OwnedAreRoots`), with one owner (`OneOwner`), and no call frees a root that has
one: `setContent()` frees what is below an element, `removeAttribute()` an
attribute, a selection the namespaces it copied for itself. And a node is in one
tree, for no call of the module moves a node. That all is freed at the end needs
that every root has an owner, but for the known leaks (`Rooted`), and that each
class of owners is among the holders destroyed (`KeepsItsKind`). That no destructor
reads what another one freed is where the order of the holders matters: a node that
an `XmlNode` owns looks for the dictionary of its document, which `~XmlDocument`
frees, later; so the mutant that destroys the holders in the order of their
declaration breaks it.

`Above`, the nodes above one, is a recursive function of numbers: that each step
up leads to a smaller number makes it one (`NodeSound`). What it gives is proved
by a least counterexample (`LeastOf`): if it is wrong of some node, then of a
first one, and it is right of that one's parent.

What is model-checked only:

* everything under fairness, which is out of the prover's reach: `UnwindEnds`,
  `HeldUpOnlyByFeeding`, `WaitHeldUpOnlyByHeirs`, `ParsingEnds`, `RequestEnds`,
  `CallsEnd`;
* the refinement `ImplementsService`;
* `ExpressionParser`, `Evaluation`, and `Script` with what extends it (`Program`, `Host`):
  trees need recursive operators, which the prover does not take. So
  `ReadsAsCOutsideGaps`, `NoOperandLost`, `EvaluatesAsC` and `OperandsRunInOrder` have no
  theorem; every other invariant of a run has one.

Induction is not lost altogether. A theorem with an operator as its parameter cannot be
used, but a set of numbers that has 0 and the successor of each of its members is all of
`Nat` (`SetInduction` in `ValuesProofs`, from the least element that `WFMin` gives); so what a
recursive function of numbers computes can be proved, and is, for `Paths`, and in
the same way for `Above` of `Documents`.

## What is not modelled

* What floats and doubles compute, and of the operators those that `Evaluation`
  has no word for: `%`, the comparisons, `||` and the bitwise ones. In `Values`: constants, enums, declarations repeated
  in a loop, and nulls; class instances are in `Objects`. A null is what a
  function without a result returns; any variable takes it, and a variable that
  holds it takes a value of any type.
* In `Objects`: properties of other types and more than one of them, paths of
  more than one property, defaults, inheritance, exceptions (`Unwind`), and a
  function's use of its caller's variables (`Values`).
* In `Databases`: transactions, results and statements that are bound well;
  MongoDB. In `HttpClient`: the parts of a response, and that the data of an
  earlier request, which a later one may send again, is freed by then. In
  `Generation`: parameters of models, the log lines.
* In `Documents`: names, values, the texts of attributes, serialization;
  validation, which changes no tree; a document that a script made without a
  root, which it cannot give one; the document as the parent of its root, which
  `getParent()` hands out as a node (`XmlModule.cpp:988`).
* In `ProcessHandles`: lines that arrive in parts, which the handle keeps until
  the rest comes (`ProcessModule.hpp:625`); a line is a unit of the pipe.
* In `Program`: control flow and `try`, which `Unwind` has; properties and
  access levels of classes, enums, lambdas; several scripts on one command
  line; the scopes that a syntax error leaves behind, for the process does not
  live to use them.
* In `ExpressionParser`: lambdas, `match`, and the
  hoisting of method calls into statements of their own.
* `MethodCallStatementNode`, which that hoisting leaves to a few positions.
* Errors of `select`, `read`, `pipe` and `fork`; arguments and environment of
  processes; processes started by `process_run` while handles are open.
* In `Network`: name resolution and a host with several addresses.
* Everything marked `not_modelled` in `PROJECT.json`: pure functions of text,
  calls into client libraries, code generation. They are most of the lines of
  the repository, `json.hpp`, which is vendored, two fifths of all.

## Plan

1. (done) `ScopeStack`, `Unwind`, `Activations`; `ProcessRun`,
   `ProcessHandles`; `Values`; with `UnwindProofs` and `ProcessRunProofs`.
2. (done) `Registry` and its proofs; `Program` and `Host` over it, against
   `Script` and `Service`, with the classes of scripts.
3. (done) `ExpressionParser` against a grammar, `Evaluation` over it.
4. (done) `Sockets`, `Network`, `Session` and the proofs.
5. (done) `Identity`, `Databases`, `HttpClient`, `Generation`, `Documents` and
   `Natives`, the native classes; `Objects`, the classes of scripts, with `ObjectsProofs`;
   `WholeInput` and `TypeOK` of `ProcessRun`.
6. (done) Proofs of `ProcessHandles`, `Natives` and `Values`;
   `ArgumentsAreCopies`; `ControlFlowReachesTarget`, and of disciplined scripts
   `ExactScopes`, `PrivateOnlyInMethods` and the refinement of `Activations`; the
   refinement of `Session`; `CleanedUpOnce`, for any trees.
7. Models: hoisting of method calls, with `MethodCallStatementNode`.
