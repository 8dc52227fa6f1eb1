--------------------------- MODULE RegistryProofs ---------------------------
(***************************************************************************)
(* A registration that fails half way is contained, for any set of modules *)
(* in which only copies of one plugin share names.  FailureIsContained is  *)
(* not inductive: a failing module could leave some of its classes behind  *)
(* with an owner that is destroyed.  AllOrNone says why it cannot - the    *)
(* class it clashes on came from a copy, which registered all of them, so  *)
(* the first class it comes to is the one that throws.                     *)
(***************************************************************************)
EXTENDS Registry, TLAPS

\* The classes of a module are registered together or not at all.
AllOrNone ==
    \A m \in Modules : \/ Offers(m, "class") \cap DOMAIN classes = {}
                       \/ Offers(m, "class") \subseteq DOMAIN classes

RegistryInv == RegistryTypeOK /\ FailureIsContained /\ AllOrNone

-----------------------------------------------------------------------------
(* Lemmas about the operators                                              *)

\* Modules that share a name or a symbol offer the same symbols.
LEMMA CopiesOffer ==
    ASSUME NEW m \in Modules, NEW n \in Modules, Copies(m, n), NEW kind
    PROVE  m.name = n.name /\ Offers(m, kind) = Offers(n, kind)
<1>1. m.name = n.name /\ m.symbols = n.symbols
  BY CopiesAssumption
<1> QED
  BY <1>1 DEF Offers

\* Taking names extends the range by the new object and no more.
LEMMA TakenType ==
    ASSUME NEW map, NEW names, NEW k \in Nat, map \in [DOMAIN map -> 1..k]
    PROVE  Taken(map, names, k + 1) \in [DOMAIN map \cup names -> 1..k + 1]
<1>1. 1..k \subseteq 1..k + 1 /\ k + 1 \in 1..k + 1
  OBVIOUS
<1>2. \A n \in DOMAIN map : map[n] \in 1..k
  OBVIOUS
<1> QED
  BY <1>1, <1>2 DEF Taken

\* What is registered is offered; without a clash it is all that is offered.
LEMMA RegisteredOffered ==
    ASSUME NEW m \in Modules, NEW kind
    PROVE  /\ RegisteredNames(m, kind) \subseteq Offers(m, kind)
           /\ Clashes(m) = {} => RegisteredNames(m, kind) = Offers(m, kind)
  BY DEF RegisteredNames, Offers, Before

\* A module that clashes has a copy in place, so that none of its classes is taken over.
LEMMA NoClassTaken ==
    ASSUME NEW m \in Modules, Clashes(m) # {}, AllOrNone
    PROVE  /\ RegisteredNames(m, "class") = {}
           /\ Offers(m, "class") # {}
<1>1. PICK c \in Clashes(m) : TRUE
  OBVIOUS
<1>2. m.symbols[c].name \in Offers(m, "class") \cap DOMAIN classes
  BY <1>1 DEF Clashes, Offers
<1>3. Offers(m, "class") \subseteq DOMAIN classes
  BY <1>2 DEF AllOrNone
<1>4. \A j \in DOMAIN m.symbols : m.symbols[j].kind = "class" => j \in Clashes(m)
  BY <1>3 DEF Clashes, Offers
<1>5. \A j \in Before(m) : m.symbols[j].kind # "class"
  <2>1. DOMAIN m.symbols \subseteq Int
    BY ModulesAssumption
  <2> QED
    BY <1>4, <2>1 DEF Before
<1> QED
  BY <1>2, <1>5 DEF RegisteredNames

-----------------------------------------------------------------------------
LEMMA RegistryInit == NoNatives => RegistryInv
<1> SUFFICES ASSUME NoNatives PROVE RegistryInv
  OBVIOUS
<1>1. /\ DOMAIN modules = {} /\ DOMAIN functions = {} /\ DOMAIN classes = {}
      /\ modules \in [{} -> 1..0] /\ functions \in [{} -> 1..0] /\ classes \in [{} -> 1..0]
  BY DEF NoNatives
<1>2. RegistryTypeOK
  BY <1>1 DEF NoNatives, RegistryTypeOK
<1> QED
  BY <1>1, <1>2 DEF RegistryInv, FailureIsContained, AllOrNone

\* Types, whether the registration succeeds or not.
LEMMA FunctionsAndClassesTyped ==
    ASSUME RegistryTypeOK, NEW m \in Modules, RegisterFunctions(m)
    PROVE  /\ made' \in Nat /\ made' = made + 1
           /\ functions' \in [DOMAIN functions' -> 1..made']
           /\ DOMAIN functions' \subseteq NamesOf("function")
           /\ classes' \in [DOMAIN classes' -> 1..made']
           /\ DOMAIN classes' \subseteq NamesOf("class")
<1>1. /\ RegisteredNames(m, "function") \subseteq NamesOf("function")
      /\ RegisteredNames(m, "class") \subseteq NamesOf("class")
  BY RegisteredOffered DEF NamesOf
<1>2. made \in Nat /\ made' = made + 1
  BY DEF RegistryTypeOK, RegisterFunctions
<1>3. /\ functions' \in [DOMAIN functions \cup RegisteredNames(m, "function") -> 1..made']
      /\ classes' \in [DOMAIN classes \cup RegisteredNames(m, "class") -> 1..made']
  BY <1>2, TakenType DEF RegistryTypeOK, RegisterFunctions
<1>4. /\ DOMAIN functions' = DOMAIN functions \cup RegisteredNames(m, "function")
      /\ DOMAIN classes' = DOMAIN classes \cup RegisteredNames(m, "class")
  BY <1>3
<1> QED
  BY <1>1, <1>2, <1>3, <1>4 DEF RegistryTypeOK

\* A registration that succeeds makes the new object the owner of all the module offers.
LEMMA RegisterModuleKeeps ==
    ASSUME RegistryInv, NEW m \in Modules, RegisterModule(m)
    PROVE  RegistryInv'
<1> DEFINE o == made + 1
<1>1. /\ classes' = Taken(classes, Offers(m, "class"), o)
      /\ functions' = Taken(functions, Offers(m, "function"), o)
      /\ modules' = Taken(modules, {m.name}, o)
  BY RegisteredOffered DEF RegisterModule, RegisterFunctions
<1>2. /\ RegistryTypeOK /\ FailureIsContained /\ AllOrNone
      /\ RegisterFunctions(m) /\ current' = 0
  BY DEF RegistryInv, RegisterModule
<1>3. RegistryTypeOK'
  <2>1. modules' \in [DOMAIN modules \cup {m.name} -> 1..o]
    BY <1>1, <1>2, TakenType DEF RegistryTypeOK
  <2>2. DOMAIN modules' = DOMAIN modules \cup {m.name}
    BY <2>1
  <2>3. m.name \in ModuleNames
    BY DEF ModuleNames
  <2>4. made' \in Nat /\ made' = o /\ current' \in 0..made'
    BY <1>2, FunctionsAndClassesTyped
  <2>5. DOMAIN modules' \subseteq ModuleNames /\ modules' \in [DOMAIN modules' -> 1..made']
    BY <1>2, <2>1, <2>2, <2>3, <2>4 DEF RegistryTypeOK
  <2>6. /\ functions' \in [DOMAIN functions' -> 1..made']
        /\ DOMAIN functions' \subseteq NamesOf("function")
        /\ classes' \in [DOMAIN classes' -> 1..made']
        /\ DOMAIN classes' \subseteq NamesOf("class")
    BY <1>2, FunctionsAndClassesTyped
  <2>7. ModuleNames' = ModuleNames /\ \A kind : NamesOf(kind)' = NamesOf(kind)
    BY DEF ModuleNames, NamesOf, Offers
  <2> QED
    BY <2>4, <2>5, <2>6, <2>7 DEF RegistryTypeOK
<1>4. /\ DOMAIN classes' = DOMAIN classes \cup Offers(m, "class")
      /\ DOMAIN functions' = DOMAIN functions \cup Offers(m, "function")
      /\ \A c \in Offers(m, "class") : classes'[c] = o
      /\ \A c \in DOMAIN classes \ Offers(m, "class") : classes'[c] = classes[c]
      /\ \A f \in Offers(m, "function") : functions'[f] = o
      /\ \A f \in DOMAIN functions \ Offers(m, "function") : functions'[f] = functions[f]
      /\ m.name \in DOMAIN modules' /\ modules'[m.name] = o
      /\ \A x \in DOMAIN modules \ {m.name} : x \in DOMAIN modules' /\ modules'[x] = modules[x]
  BY <1>1 DEF Taken
<1>5. FailureIsContained'
  <2> SUFFICES ASSUME NEW n \in Modules
               PROVE  /\ \A c \in Offers(n, "class") \cap DOMAIN classes' : Owned(n, classes[c])'
                      /\ Offers(n, "class") = {} =>
                            \A f \in Offers(n, "function") \cap DOMAIN functions' :
                                Owned(n, functions[f])'
    BY DEF FailureIsContained, Offers
  <2>1. CASE Copies(m, n)
    <3>1. n.name = m.name /\ Offers(n, "class") = Offers(m, "class")
                          /\ Offers(n, "function") = Offers(m, "function")
      BY <2>1, CopiesOffer
    <3> QED
      BY <1>4, <3>1 DEF Owned
  <2>2. CASE ~ Copies(m, n)
    <3>1. /\ n.name # m.name
          /\ Offers(n, "class") \cap Offers(m, "class") = {}
          /\ Offers(n, "function") \cap Offers(m, "function") = {}
      BY <2>2 DEF Copies
    <3>2. \A c \in Offers(n, "class") \cap DOMAIN classes' : Owned(n, classes[c])'
      BY <1>2, <1>4, <3>1 DEF Owned, FailureIsContained
    <3>3. ASSUME Offers(n, "class") = {}
          PROVE  \A f \in Offers(n, "function") \cap DOMAIN functions' : Owned(n, functions[f])'
      BY <1>2, <1>4, <3>1, <3>3 DEF Owned, FailureIsContained
    <3> QED
      BY <3>2, <3>3
  <2> QED
    BY <2>1, <2>2
<1>6. AllOrNone'
  <2> SUFFICES ASSUME NEW n \in Modules
               PROVE  \/ Offers(n, "class") \cap DOMAIN classes' = {}
                      \/ Offers(n, "class") \subseteq DOMAIN classes'
    BY DEF AllOrNone, Offers
  <2>1. CASE Copies(m, n)
    BY <1>4, <2>1, CopiesOffer
  <2>2. CASE ~ Copies(m, n)
    BY <1>2, <1>4, <2>2 DEF Copies, AllOrNone
  <2> QED
    BY <2>1, <2>2
<1> QED
  BY <1>3, <1>5, <1>6 DEF RegistryInv

\* One that throws takes over functions, but none of a module without classes.
LEMMA RegistrationThrowsKeeps ==
    ASSUME RegistryInv, NEW m \in Modules, RegistrationThrows(m)
    PROVE  RegistryInv'
<1>1. /\ RegistryTypeOK /\ FailureIsContained /\ AllOrNone
      /\ RegisterFunctions(m) /\ current' = made + 1 /\ modules' = modules
      /\ Clashes(m) # {}
  BY DEF RegistryInv, RegistrationThrows
<1>2. RegisteredNames(m, "class") = {} /\ Offers(m, "class") # {}
  BY <1>1, NoClassTaken
<1>3. DOMAIN classes' = DOMAIN classes /\ \A c \in DOMAIN classes : classes'[c] = classes[c]
  BY <1>1, <1>2 DEF RegisterFunctions, Taken
<1>4. /\ DOMAIN functions' = DOMAIN functions \cup RegisteredNames(m, "function")
      /\ \A f \in DOMAIN functions \ RegisteredNames(m, "function") : functions'[f] = functions[f]
      /\ RegisteredNames(m, "function") \subseteq Offers(m, "function")
  BY <1>1, RegisteredOffered DEF RegisterFunctions, Taken
<1>5. RegistryTypeOK'
  <2>1. made' \in Nat /\ made' = made + 1 /\ current' \in 0..made'
    BY <1>1, FunctionsAndClassesTyped
  <2>2. modules' \in [DOMAIN modules' -> 1..made'] /\ DOMAIN modules' \subseteq ModuleNames
    <3>1. 1..made \subseteq 1..made'
      BY <1>1, <2>1 DEF RegistryTypeOK
    <3>2. modules \in [DOMAIN modules -> 1..made] /\ DOMAIN modules \subseteq ModuleNames
      BY <1>1 DEF RegistryTypeOK
    <3> QED
      BY <1>1, <3>1, <3>2
  <2>3. /\ functions' \in [DOMAIN functions' -> 1..made']
        /\ DOMAIN functions' \subseteq NamesOf("function")
        /\ classes' \in [DOMAIN classes' -> 1..made']
        /\ DOMAIN classes' \subseteq NamesOf("class")
    BY <1>1, FunctionsAndClassesTyped
  <2> QED
    BY <2>1, <2>2, <2>3 DEF RegistryTypeOK, ModuleNames, NamesOf, Offers
<1>6. FailureIsContained'
  <2> SUFFICES ASSUME NEW n \in Modules
               PROVE  /\ \A c \in Offers(n, "class") \cap DOMAIN classes' : Owned(n, classes[c])'
                      /\ Offers(n, "class") = {} =>
                            \A f \in Offers(n, "function") \cap DOMAIN functions' :
                                Owned(n, functions[f])'
    BY DEF FailureIsContained, Offers
  <2>1. \A c \in Offers(n, "class") \cap DOMAIN classes' : Owned(n, classes[c])'
    BY <1>1, <1>3 DEF Owned, FailureIsContained
  <2>2. ASSUME Offers(n, "class") = {}
        PROVE  \A f \in Offers(n, "function") \cap DOMAIN functions' : Owned(n, functions[f])'
    <3>1. ~ Copies(m, n)
      BY <1>2, <2>2, CopiesOffer
    <3>2. Offers(n, "function") \cap RegisteredNames(m, "function") = {}
      BY <1>4, <3>1 DEF Copies
    <3> QED
      BY <1>1, <1>4, <2>2, <3>2 DEF Owned, FailureIsContained
  <2> QED
    BY <2>1, <2>2
<1>7. AllOrNone'
  BY <1>1, <1>3 DEF AllOrNone, Offers
<1> QED
  BY <1>5, <1>6, <1>7 DEF RegistryInv

LEMMA RegistryStep == RegistryInv /\ [RegistryNext]_registry => RegistryInv'
<1> SUFFICES ASSUME RegistryInv, [RegistryNext]_registry
             PROVE  RegistryInv'
  OBVIOUS
<1>1. CASE UNCHANGED registry
  BY <1>1 DEF registry, RegistryInv, RegistryTypeOK, FailureIsContained, AllOrNone, Owned,
              ModuleNames, NamesOf, Offers
<1>2. ASSUME NEW m \in Modules, RegisterModule(m) \/ RegistrationThrows(m)
      PROVE  RegistryInv'
  BY <1>2, RegisterModuleKeeps, RegistrationThrowsKeeps
<1> QED
  BY <1>1, <1>2 DEF RegistryNext

LEMMA RegistryInvariant == RegistrySpec => []RegistryInv
  BY RegistryInit, RegistryStep, PTL DEF RegistrySpec

-----------------------------------------------------------------------------
\* Names come from modules, and objects from those made so far: storeModule,
\* registerFunction and addNativeMethod invent neither.
THEOREM RegistryTyped == RegistrySpec => []RegistryTypeOK
  BY RegistryInvariant, PTL DEF RegistryInv

\* A plugin whose registration throws half way (loadPlugin catches it) takes nothing of
\* any other module with it, for every set of modules.
THEOREM RegistryContained == RegistrySpec => []FailureIsContained
  BY RegistryInvariant, PTL DEF RegistryInv

\* No method of any class is called on a module that is gone: only functions of a module
\* that has classes too can be left behind.
MethodsAreLive == \A c \in DOMAIN classes : classes[c] \in Live

THEOREM MethodsLive == RegistrySpec => []MethodsAreLive
<1>1. RegistryInv => MethodsAreLive
  <2> SUFFICES ASSUME RegistryInv, NEW c \in DOMAIN classes
               PROVE  classes[c] \in Live
    BY DEF MethodsAreLive
  <2>1. PICK m \in Modules : c \in Offers(m, "class")
    BY DEF RegistryInv, RegistryTypeOK, NamesOf
  <2>2. Owned(m, classes[c])
    BY <2>1 DEF RegistryInv, FailureIsContained
  <2> QED
    BY <2>2 DEF Owned, Live, Range
<1> QED
  BY <1>1, RegistryInvariant, PTL

\* What loadPlugin does with a module is a step of the registry, or none.
THEOREM PluginIsARegistryStep ==
    ASSUME NEW m \in Modules, InitPlugin(m)
    PROVE  [RegistryNext]_registry
  BY DEF InitPlugin, RegistryNext
=============================================================================
