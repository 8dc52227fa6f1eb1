------------------------------ MODULE Identity ------------------------------
(***************************************************************************)
(* Objects of native classes, and what tells them apart.  An object is a   *)
(* map; a native module keeps what belongs to an object in a table of its  *)
(* own, by a number that instanceId() writes into the map the first time   *)
(* it is asked.  A call in an expression clones its arguments, number and  *)
(* all: a copy stands for the same instance if it was made after that.     *)
(***************************************************************************)
EXTENDS Naturals, Sequences

CONSTANT MaxObjects     \* bound: objects; far below INT_MAX, which wraps numbers

ASSUME IdentityAssumption == MaxObjects \in Nat \ {0}

VARIABLES
    objects,    \* every object so far: its class, its number or 0, and
                \* (history) the object that `new` made it or its original
    stamps      \* the counter of instanceId()

\* Classes whose constructor asks for the number, and the one whose does not.
AtOnce  == {"MariaDBConnection", "MemcachedConnection", "CurlClient",
            "CurlResponse", "StableDiffusion"}
Classes == AtOnce \cup {"SQLite"}

Addresses == 1..MaxObjects
Keys      == 1..MaxObjects
Known     == DOMAIN objects
Fresh     == Len(objects) + 1

IdentityTypeOK ==
    /\ objects \in Seq([class : Classes, id : {0} \cup Keys, origin : Addresses])
    /\ stamps \in Nat /\ Len(objects) <= MaxObjects

IdentityInit == objects = <<>> /\ stamps = 1

Is(o, class) == o \in Known /\ objects[o].class = class

-----------------------------------------------------------------------------
\* Mutant: the text of the object, as the modules used once: it holds no more
\* than the class.
KeyOfText(o) == IF objects[o].class \in AtOnce THEN 1 ELSE 2

\* The number of an object, given when there is none.
Key(o) == IF objects[o].id = 0 THEN stamps ELSE objects[o].id

\* instanceId(): every method of a native class begins with it.
Identify(o) == /\ objects' = [objects EXCEPT ![o].id = Key(o)]
               /\ stamps' = IF objects[o].id = 0 THEN stamps + 1 ELSE stamps

\* Mutant: no constructor asks for the number.
MakeUnstamped(class) ==
    /\ objects' = Append(objects, [class |-> class, id |-> 0, origin |-> Fresh])
    /\ UNCHANGED stamps

\* A new object; the number is what its constructor files things under.
Make(class) ==
    /\ Len(objects) < MaxObjects
    /\ IF class = "SQLite"
       THEN /\ objects' = Append(objects, [class |-> class, id |-> 0, origin |-> Fresh])
            /\ UNCHANGED stamps
       ELSE /\ objects' = Append(objects, [class |-> class, id |-> stamps, origin |-> Fresh])
            /\ stamps' = stamps + 1

\* An argument of a call in an expression, or of a callback.
Copy(o) == /\ o \in Known /\ Len(objects) < MaxObjects
           /\ objects' = Append(objects, objects[o])
           /\ UNCHANGED stamps
=============================================================================
