------------------------------ MODULE Registry ------------------------------
(***************************************************************************)
(* The natives of the symbol container: modules_, functions_ with          *)
(* functionModules_, and the native methods of classes_.  A BaseModule is  *)
(* an object; the callbacks it registers capture its address, and          *)
(* modules_ owns it.  A module lists what registerFunctions registers, in  *)
(* order; a class stands for its methods.                                  *)
(***************************************************************************)
EXTENDS Naturals, Sequences, FiniteSets, Functions

CONSTANTS
    Modules         \* records [name, symbols, guarded]: guarded if plugin_init looks
                    \* for the name in modules_ first, as MariaDB's does

Kinds == {"function", "class"}

ASSUME ModulesAssumption ==
    \A m \in Modules :
        /\ m.guarded \in BOOLEAN
        /\ m.symbols \in Seq([kind : Kinds, name : STRING])

VARIABLES
    modules,        \* modules_: the object of each name
    functions,      \* functions_: the object each callback captured
    classes,        \* classes_: the object the methods of each class captured
    current,        \* currentModule_, 0 for nullptr
    made            \* how many BaseModule objects there have been; they are 1..made

registry == <<modules, functions, classes, current, made>>

ModuleNames == {m.name : m \in Modules}
Offers(m, kind) == {m.symbols[i].name : i \in {j \in DOMAIN m.symbols : m.symbols[j].kind = kind}}
NamesOf(kind) == UNION {Offers(m, kind) : m \in Modules}

Live == Range(modules)

NoNatives ==
    /\ modules = <<>> /\ functions = <<>> /\ classes = <<>>
    /\ current = 0
    /\ made = 0

\* The object o takes the names: operator[] of a map replaces what is there.
Taken(map, names, o) == [n \in DOMAIN map \cup names |-> IF n \in names THEN o ELSE map[n]]

\* addNativeMethod throws when the class has the method already.
Clashes(m) ==
    {i \in DOMAIN m.symbols : m.symbols[i].kind = "class" /\ m.symbols[i].name \in DOMAIN classes}

\* What m has registered before it throws, or all of it.
Before(m) ==
    {i \in DOMAIN m.symbols : \A c \in Clashes(m) : i < c}

RegisteredNames(m, kind) == {m.symbols[i].name : i \in {j \in Before(m) : m.symbols[j].kind = kind}}

RegisterFunctions(m) ==
    /\ made' = made + 1
    /\ functions' = Taken(functions, RegisteredNames(m, "function"), made + 1)
    /\ classes' = Taken(classes, RegisteredNames(m, "class"), made + 1)

\* Mutant: storeModule leaves an older module of the name where it is.
RegisterModuleOnce(m) ==
    /\ Clashes(m) = {}
    /\ RegisterFunctions(m)
    /\ modules' = IF m.name \in DOMAIN modules THEN modules ELSE Taken(modules, {m.name}, made + 1)
    /\ current' = 0

\* registerModule and storeModule; an older module of the name is destroyed.
RegisterModule(m) ==
    /\ Clashes(m) = {}
    /\ RegisterFunctions(m)
    /\ modules' = Taken(modules, {m.name}, made + 1)
    /\ current' = 0

\* registerFunctions throws: the module is destroyed, what it registered stays.
RegistrationThrows(m) ==
    /\ Clashes(m) # {}
    /\ RegisterFunctions(m)
    /\ current' = made + 1
    /\ UNCHANGED modules

AlreadyLoaded(m) ==
    /\ m.guarded
    /\ m.name \in DOMAIN modules \/ Clashes(m) # {}

\* loadPlugin, once plugin_init has been found: what it throws is caught.
InitPlugin(m) ==
    \/ AlreadyLoaded(m) /\ UNCHANGED registry
    \/ ~ AlreadyLoaded(m) /\ RegisterModule(m)
    \/ ~ AlreadyLoaded(m) /\ RegistrationThrows(m)

\* The constructor of VoidScript registers without looking first.
RegistryNext == \E m \in Modules : RegisterModule(m) \/ RegistrationThrows(m)

RegistrySpec == NoNatives /\ [][RegistryNext]_registry

-----------------------------------------------------------------------------
\* Two files of one plugin are all that share a name or a symbol.
Copies(m, n) ==
    \/ m.name = n.name
    \/ Offers(m, "function") \cap Offers(n, "function") # {}
    \/ Offers(m, "class") \cap Offers(n, "class") # {}

ASSUME CopiesAssumption ==
    \A m, n \in Modules : Copies(m, n) => m.name = n.name /\ m.symbols = n.symbols

RegistryTypeOK ==
    /\ made \in Nat
    /\ current \in 0..made
    /\ modules \in [DOMAIN modules -> 1..made] /\ DOMAIN modules \subseteq ModuleNames
    /\ functions \in [DOMAIN functions -> 1..made] /\ DOMAIN functions \subseteq NamesOf("function")
    /\ classes \in [DOMAIN classes -> 1..made] /\ DOMAIN classes \subseteq NamesOf("class")

Owned(m, o) == m.name \in DOMAIN modules /\ modules[m.name] = o

\* A plugin that fails half way takes nothing else with it: the methods of every class,
\* and the functions of every module that has no class, belong to a module that is
\* still there - the one of that name, so that the introspection functions find it.
FailureIsContained ==
    \A m \in Modules :
        /\ \A c \in Offers(m, "class") \cap DOMAIN classes : Owned(m, classes[c])
        /\ Offers(m, "class") = {} =>
               \A f \in Offers(m, "function") \cap DOMAIN functions : Owned(m, functions[f])

\* functionModules_ points to a module that is gone: what list_module_functions reads.
Dangling == \E f \in DOMAIN functions : functions[f] \notin Live
=============================================================================
