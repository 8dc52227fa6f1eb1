------------------------------- MODULE MCHost -------------------------------
(* Two built-in modules, two files of each of two plugins, and the scripts. *)
EXTENDS Host

Native(name) == [kind |-> "function", name |-> name]
NativeClass(name) == [kind |-> "class", name |-> name]
Module(name, symbols) == [name |-> name, symbols |-> symbols, guarded |-> FALSE, file |-> 1]
Guarded(module) == [module EXCEPT !.guarded = TRUE]
Copy(module) == [module EXCEPT !.file = 2]

MCBuiltIns ==
    << Module("Print", <<Native("print"), Native("throw_error"), Native("header"),
                          Native("list_module_functions")>>),
       Module("DateTime", <<NativeClass("DateTime")>>) >>

Curl == Module("Curl", <<Native("curlGet"), NativeClass("CurlClient")>>)
MariaDB == Guarded(Module("MariaDB", <<NativeClass("MariaDBConnection")>>))

MCPlugins == {Curl, Copy(Curl), MariaDB, Copy(MariaDB)}

MCModules == Range(MCBuiltIns) \cup MCPlugins

\* A class, one whose method does not end, one that cannot be, and one as in a module.
Plain == Class("C", <<Function("construct", <<Call("print")>>), Function("m", <<Call("print"), Return>>)>>)
Recursive == Class("C", <<Function("m", <<Call("print"), Send("C"), Return>>)>>)
Twice == Class("C", <<Function("m", <<>>), Function("m", <<>>)>>)
Caller == Class("C", <<Function("construct", <<New("C")>>), Function("n", <<Call("f")>>)>>)

\* A library, one that includes it by a bare name, and one with a class.
MCLibrary ==
    <<Home, "lib">> :> <<Function("g", <<Call("print")>>), Call("g")>>
    @@ <<Home, "outer">> :> <<Call("print"), Include("lib")>>
    @@ <<Home, "class">> :> <<Plain>>

\* One function and two segments; functions inside functions; classes; everything else.
MCDialects ==
    { [leaves |-> {Call("print"), Call("f"), Return},
       names |-> <<{"f"}, {"f"}>>, length |-> 4, cuts |-> TRUE],
      [leaves |-> {Call("f"), Call("g")},
       names |-> <<{"f"}, {"g"}>>, length |-> 5, cuts |-> FALSE],
      [leaves |-> {Plain, Recursive, Twice, Caller, New("C"), Send("C"), Call("f")},
       names |-> <<{"f"}>>, length |-> 3, cuts |-> TRUE],
      [leaves |-> {Call(f) : f \in {"g", "curlGet", "header", "throw_error", "list_module_functions"}}
                  \cup {Include("lib"), Include("outer"), Include("class"), BadToken,
                        New("CurlClient"), Send("C")},
       names |-> <<{"g"}>>, length |-> 3, cuts |-> FALSE] }
=============================================================================
