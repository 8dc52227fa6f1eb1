------------------------------ MODULE Session ------------------------------
(***************************************************************************)
(* What a script may rely on when it talks to servers.  On a connection it *)
(* trusts, what a call returns is the answer to its own command.  Trust is *)
(* lost by a failure of the client's own, or when a client that has lost   *)
(* it works on somebody else's connection; connect() and close() restore   *)
(* it.                                                                     *)
(***************************************************************************)
EXTENDS Naturals

CONSTANT Clients

VARIABLES
    trust,      \* client |-> "closed", "open" or "torn"
    asked,      \* the command that is waiting for its answer
    answer      \* what the last call returned: the commands it answers

vars == <<trust, asked, answer>>

NotAsked == [by |-> "nobody", n |-> 0]
NoAnswer == [by |-> "nobody", n |-> 0, of |-> {}]

Init == /\ trust = [c \in Clients |-> "closed"]
        /\ asked = NotAsked /\ answer = NoAnswer

\* What a step of c may do to the others.
Damage(c) ==
    \A d \in Clients \ {c} :
        trust'[d] # trust[d] => trust[c] = "torn" /\ trust'[d] = "torn"

Becomes(c, states) ==
    /\ trust' \in [Clients -> {"closed", "open", "torn"}]
    /\ trust'[c] \in states
    /\ Damage(c)

Connect(c)      == asked = NotAsked /\ Becomes(c, {"open"}) /\ UNCHANGED <<asked, answer>>
ConnectFails(c) == /\ asked = NotAsked
                   /\ Becomes(c, IF trust[c] = "closed" THEN {"closed"} ELSE {"closed", "torn"})
                   /\ UNCHANGED <<asked, answer>>
Close(c)        == asked = NotAsked /\ Becomes(c, {"closed"}) /\ UNCHANGED <<asked, answer>>
Interfere(c)    == trust[c] = "torn" /\ Becomes(c, {"torn"}) /\ UNCHANGED <<asked, answer>>

Ask(c) ==
    /\ asked = NotAsked /\ trust[c] # "closed"
    /\ asked'.by = c /\ asked'.n # 0
    /\ answer' = NoAnswer /\ UNCHANGED trust

Answered(c) ==
    /\ asked.by = c /\ asked' = NotAsked
    /\ answer'.by = c /\ answer'.n = asked.n
    /\ trust[c] = "open" => answer'.of = {asked.n}
    /\ UNCHANGED trust

Refused(c) ==
    /\ asked.by = c /\ asked' = NotAsked
    /\ Becomes(c, {trust[c], "torn"})
    /\ UNCHANGED answer

Next == \E c \in Clients : \/ Connect(c) \/ ConnectFails(c) \/ Close(c) \/ Interfere(c)
                           \/ Ask(c) \/ Answered(c) \/ Refused(c)

Spec == Init /\ [][Next]_vars
=============================================================================
