-------------------------------- MODULE Host --------------------------------
(***************************************************************************)
(* fastcgi/src/main.cpp: a process that builds a VoidScript for every      *)
(* request - which registers the built-in modules and loads the plugins -  *)
(* and runs the script.  A process that is gone is replaced by a new one:  *)
(* the manager of the processes, external.                                 *)
(***************************************************************************)
EXTENDS Program

CONSTANTS
    BuiltIns,       \* the modules the constructor registers, in its order
    Plugins         \* the modules of the .so files under the modules directory

ASSUME HostAssumption ==
    /\ BuiltIns \in Seq(Modules)
    /\ Plugins \subseteq Modules

VARIABLES
    phase,          \* "accept", "build", "load", "run", "gone"
    todo,           \* built-in modules still to register
    files,          \* plugins still to load
    response        \* what was written for the last request, or NoResponse

host == <<phase, todo, files, response>>
vars == <<host, program, registry>>

NoResponse == [out |-> <<>>, headers |-> {}, end |-> ""]

Init ==
    /\ NoNatives
    /\ script = <<>> /\ segment = 1 /\ parsers = <<>> /\ calls = <<>>
    /\ container = <<>> /\ scopeStack = <<>> /\ declared = {} /\ methodsOf = <<>>
    /\ headers = {} /\ out = <<>> /\ end = ""
    /\ phase = "accept" /\ todo = <<>> /\ files = {}
    /\ response = NoResponse

\* FCGI_Accept returns; the headers are cleared and the streams redirected.
Accept ==
    /\ phase = "accept"
    /\ phase' = "build"
    /\ headers' = {} /\ out' = <<>> /\ end' = ""
    /\ todo' = BuiltIns /\ files' = Plugins
    /\ response' = NoResponse
    /\ UNCHANGED <<script, segment, parsers, calls, singletons, registry>>

\* The symbol container is made at its first use, with the scope of the first script.
MakeContainer ==
    scopeStack' = IF scopeStack = <<>> THEN <<<<File>>>> ELSE scopeStack

RegisterBuiltIn ==
    /\ phase = "build" /\ todo # <<>>
    /\ MakeContainer
    /\ RegisterModule(Head(todo))
    /\ todo' = Tail(todo)
    /\ UNCHANGED <<phase, files, response, script, segment, parsers, calls, container, declared,
                   methodsOf, headers, out, end>>

\* Nothing catches what the constructor throws.
Abort ==
    /\ phase = "build" /\ todo # <<>>
    /\ RegistrationThrows(Head(todo))
    /\ phase' = "gone"
    /\ UNCHANGED <<todo, files, response, program>>

BuiltInsDone ==
    /\ phase = "build" /\ todo = <<>>
    /\ phase' = "load"
    /\ UNCHANGED <<todo, files, response, program, registry>>

\* The directory iterator comes to the files in any order.
LoadPlugin ==
    /\ phase = "load"
    /\ \E m \in files : InitPlugin(m) /\ files' = files \ {m}
    /\ UNCHANGED <<phase, todo, response, program>>

\* dlopen or dlsym finds nothing to call.
SkipPlugin ==
    /\ phase = "load"
    /\ \E m \in files : files' = files \ {m}
    /\ UNCHANGED <<phase, todo, response, program, registry>>

StartRun ==
    /\ phase = "load" /\ files = {}
    /\ phase' = "run"
    /\ \E s \in Scripts : ReadScript(s)
    /\ UNCHANGED <<todo, files, response, registry>>

Run ==
    /\ phase = "run"
    /\ RunStep
    /\ UNCHANGED <<host, registry>>

\* list_module_functions follows the pointers of functionModules_: with a module gone,
\* it may read anything, or crash.
Crash ==
    /\ phase = "run"
    /\ \/ end = "overflow"
       \/ CallsNative("list_module_functions") /\ Dangling
    /\ phase' = "gone"
    /\ UNCHANGED <<todo, files, response, program, registry>>

Respond ==
    /\ phase = "run" /\ end \in {"ok", "error"}
    /\ response' = [out |-> out, headers |-> headers, end |-> end]
    /\ phase' = "accept"
    /\ script' = <<>>
    /\ UNCHANGED <<todo, files, segment, parsers, calls, singletons, headers, out, end, registry>>

\* A new process in the place of the one that is gone.
Respawn ==
    /\ phase = "gone"
    /\ modules' = <<>> /\ functions' = <<>> /\ classes' = <<>> /\ current' = 0 /\ made' = 0
    /\ script' = <<>> /\ segment' = 1 /\ parsers' = <<>> /\ calls' = <<>>
    /\ container' = <<>> /\ scopeStack' = <<>> /\ declared' = {} /\ methodsOf' = <<>>
    /\ headers' = {} /\ out' = <<>> /\ end' = ""
    /\ phase' = "accept" /\ todo' = <<>> /\ files' = {}
    /\ response' = NoResponse

Serving ==
    \/ RegisterBuiltIn \/ Abort \/ BuiltInsDone \/ LoadPlugin \/ SkipPlugin
    \/ StartRun \/ Run \/ Crash \/ Respond

Next == Accept \/ Serving \/ Respawn

\* A process that serves a request goes on.
Spec == Init /\ [][Next]_vars /\ WF_vars(Serving)

-----------------------------------------------------------------------------
TypeOK ==
    /\ RegistryTypeOK
    /\ phase \in {"accept", "build", "load", "run", "gone"}
    /\ todo \in Seq(Modules) /\ files \subseteq Plugins
    /\ end \in {"", "ok", "error", "overflow"}
    /\ Len(calls) <= MaxCalls + 1
    /\ parsers # <<>> => calls = <<>>
    /\ \A i \in DOMAIN parsers : (parsers[i].what = "file") = (i = 1)
    /\ \A d \in declared : d.path \in Range(scopeStack) \/ d.path \in DOMAIN container

Service == INSTANCE Service WITH
    Natives <- {UNION {UNION {Offers(m, k) : k \in Kinds} : m \in Range(BuiltIns) \cup loaded} :
                   loaded \in SUBSET Plugins},
    request <- [state |-> CASE phase = "run" -> "read"
                            [] phase \in {"build", "load"} -> "pending"
                            [] OTHER -> "none",
                script |-> IF phase = "run" THEN script ELSE <<>>],
    answer <- response,
    fresh <- CASE phase = "accept" -> made = 0
               [] phase = "build" -> made = Len(BuiltIns) - Len(todo)
               [] OTHER -> TRUE

\* Each request alone: the answer is what its script means, whatever names, scopes and
\* singletons it went through, and only a request that finds a used process is lost.
ImplementsService == Service!Spec

\* Whatever the script, the process is through with a request at some time: it answers,
\* or it is gone.
RequestEnds == phase = "build" ~> phase \in {"accept", "gone"}

\* "FastCGI loop: handle each request": no request takes its process down.
EveryRequestAnswered == phase = "gone" => end = "overflow" \/ Dangling
=============================================================================
