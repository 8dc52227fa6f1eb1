------------------------------ MODULE Natives ------------------------------
(***************************************************************************)
(* One script and the objects of native classes that it makes, copies and  *)
(* calls: alone, and from the progress handler of a generation.            *)
(***************************************************************************)
EXTENDS HttpClient, Generation, Documents

CONSTANT MaxCalls       \* bound: calls and copies that a script makes

ASSUME NativesAssumption == MaxCalls \in Nat

VARIABLE calls          \* calls so far, for the bound

tableVars == <<objects, stamps, library, dbVars, httpVars, sdVars>>
vars == <<tableVars, docVars, calls>>

TypeOK == /\ IdentityTypeOK /\ DatabasesTypeOK /\ HttpTypeOK /\ GenerationTypeOK
          /\ DocumentsTypeOK
          /\ calls \in 0..MaxCalls

Init == /\ IdentityInit /\ DatabasesInit /\ HttpInit /\ GenerationInit /\ DocumentsInit
        /\ calls = 0

\* callMethod() and `new`: the object is the first argument, and no copy.
Database ==
    /\ DatabaseNew \/ \E o \in Known : DatabaseCall(o)
    /\ UNCHANGED <<httpVars, sdVars>>

Http ==
    /\ HttpNew \/ \E o \in Known : HttpCall(o)
    /\ UNCHANGED <<dbVars, sdVars>>

Diffusion ==
    /\ SdNew \/ \E o \in Known : GenerationCall(o)
    /\ UNCHANGED <<dbVars, httpVars>>

Pass == (\E o \in Known : Copy(o)) /\ UNCHANGED <<library, dbVars, httpVars, sdVars>>

Script == /\ InScript /\ over = "no" /\ calls < MaxCalls /\ handles = <<>>
          /\ Database \/ Http \/ Diffusion \/ Pass
          /\ calls' = calls + 1
          /\ UNCHANGED docVars

Library == /\ over = "no" /\ GenerationStep
           /\ UNCHANGED <<objects, stamps, dbs, clients, memcs, httpVars, docVars, calls>>

\* Xml2 shares nothing with the others: a script uses it, or them.
Xml == /\ process = "runs" /\ calls < MaxCalls /\ objects = <<>>
       /\ DocumentCall
       /\ calls' = calls + 1
       /\ UNCHANGED tableVars

Exit == Destroy /\ UNCHANGED <<tableVars, calls>>

Next == Script \/ Library \/ Xml \/ Exit

Spec == Init /\ [][Next]_vars

-----------------------------------------------------------------------------
(* Two objects have the same number only if one is a copy of the other     *)
(* (or both of a third), and always if they are: a number that came late,  *)
(* as for SQLite, is missed by the copies made before.  ("the id only has  *)
(* to be unique among live instances", "shared by every reference to that  *)
(* object", Value.hpp.)                                                    *)
IdentityFollowsNew ==
    \A o, p \in Known :
        /\ objects[o].id # 0 /\ objects[o].id = objects[p].id
              => objects[o].origin = objects[p].origin
        /\ objects[o].origin = objects[p].origin /\ objects[o].class \in AtOnce
              => objects[o].id = objects[p].id /\ objects[o].id # 0

\* What belongs to an object, or to its number, in the tables of its module.
Belongings(o) ==
    LET k == objects[o].id
    IN  IF k = 0 THEN <<>>
        ELSE <<dbs[k], clients[k], memcs[k], curls[k], config[k], responses[k],
               contexts[k], ticks[k]>>

(* A step changes the belongings of one instance, which all its copies     *)
(* share: objects of one class do not see each other, whatever generates   *)
(* meanwhile.  ("multiple `SQLite` objects are independent", "multiple     *)
(* `StableDiffusion` objects are independent", the modules' READMEs.)      *)
OneInstanceAtATime ==
    [][\E m \in Addresses : \A o \in Known :
          objects[o].id # 0 /\ Belongings(o)' # Belongings(o) => objects[o].origin = m]_vars

\* The tables of handles, and what one has for a key.
Tables == {"dbs", "clients", "memcs", "curls", "contexts"}
Entry(t, k) == CASE t = "dbs" -> dbs[k] [] t = "clients" -> clients[k].conn
                 [] t = "memcs" -> memcs[k] [] t = "curls" -> curls[k].easy
                 [] t = "contexts" -> contexts[k]

Holders(h) == {p \in Tables \X Keys : Entry(p[1], p[2]) = h}

Held(h) == \/ Holders(h) # {}
           \/ \E i \in 1..Depth : running[i].upscaler /\ running[i].uses = h

(* Every handle in a table is open and in no other place, so that nothing  *)
(* is closed twice or used after it was closed; and every open handle is   *)
(* in a table or used by a generation that runs, but for four kinds: a     *)
(* database whose statement was left behind, a connection of MariaDB whose *)
(* client was replaced before it connected, and the images and the context *)
(* of a generation or an upscaling that threw before it began.             *)
HandlesAreHeld ==
    \A h \in DOMAIN library :
        /\ Held(h) => library[h].open /\ \A x, y \in Holders(h) : x = y
        /\ library[h].open /\ ~Held(h) =>
              \/ library[h].of = "SQLite" /\ library[h].state = "pinned"
              \/ library[h].of = "MariaDBConnection" /\ library[h].state = "new"
              \/ library[h].of = "upscaler" /\ library[h].state = "new"
              \/ library[h].of = "input"

(* A request goes out as it was asked for: with its verb, its own data or  *)
(* none, its headers or none, and its timeout.  What can change that is    *)
(* what the same client was used for since its construction, and nothing   *)
(* else: PUT and DELETE stick, data and headers go with later requests, a  *)
(* timeout is not taken back by 0, and a list of headers is used after it  *)
(* was freed only if an empty map or a refused one came in between.        *)
RequestsAsAsked ==
    sent.n # 0 =>
        /\ sent.verb # sent.asked =>
              \/ sent.asked = "POST" /\ sent.before \cap {"PUT", "DELETE"} # {}
              \/ sent.asked = "GET" /\ sent.before \cap {"POST", "PUT", "DELETE"} # {}
        /\ sent.asked \in {"POST", "PUT"} => sent.body = sent.n
        /\ sent.asked \in {"GET", "DELETE"} /\ sent.body # 0 =>
              sent.before \cap {"POST", "PUT"} # {}
        /\ sent.given = "own" => sent.headers = sent.n /\ ~sent.freed
        /\ sent.given # "own" /\ sent.headers # 0 => "headers" \in sent.before
        /\ sent.freed => sent.given = "empty" \/ "dropped headers" \in sent.before
        /\ sent.wanted # 0 => sent.timeout = sent.wanted

(* What an object recorded of a generation is of its own; a generation     *)
(* misses a step, or its handler one, only if another capture began inside *)
(* it; and a handler runs in the generation that it was given to.          *)
CapturesAreOwn ==
    /\ \A k \in Keys : \A i \in DOMAIN ticks[k] : ticks[k][i] = k
    /\ \A i \in 1..Depth : /\ running[i].missed => running[i].nested
                           /\ running[i].at = "handler" => running[i].handler
=============================================================================
