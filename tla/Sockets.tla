------------------------------ MODULE Sockets ------------------------------
(***************************************************************************)
(* What the network clients share: the process's table of descriptors, of  *)
(* which socket() takes the lowest free number, and at the other end of    *)
(* each socket a server that answers the commands it gets, in order, when  *)
(* it likes.  A command arrives in two pieces; an answer is a sequence of  *)
(* RESP tokens, each of which says which command it answers.               *)
(***************************************************************************)
EXTENDS Integers, Sequences, FiniteSets

CONSTANTS
    Redis,      \* the Redis objects of the script
    Tcp,        \* its TcpClient objects
    Shapes,     \* the shapes of an answer: sequences of token kinds
    MaxFd,      \* bound: descriptors
    MaxCalls    \* bound: commands a script sends

Clients == Redis \cup Tcp
NoFd    == 0
Fds     == 1..MaxFd
Pieces  == 2
Kinds   == {"value", "error", "bulk", "data", "array"}

ASSUME SocketsAssumption ==
    /\ Redis \cap Tcp = {} /\ "nobody" \notin Clients
    /\ Shapes \subseteq Seq(Kinds)
    /\ MaxFd \in Nat /\ MaxCalls \in Nat

\* How many parts of an answer are due when j of its tokens have been read: an
\* array announces two more in its own place, a bulk its data in its own.
Due(shape, j) ==
    1 + Cardinality({i \in 1..j : shape[i] = "array"})
      - Cardinality({i \in 1..j : shape[i] \in {"value", "error", "data"}})

\* One whole answer: nothing is due at its end and not before, and data come
\* where a bulk has announced them.
IsReply(shape) ==
    /\ \A j \in 0..Len(shape) : Due(shape, j) >= 0 /\ (Due(shape, j) = 0 <=> j = Len(shape))
    /\ \A i \in 1..Len(shape) : shape[i] = "data" <=> i > 1 /\ shape[i - 1] = "bulk"

\* Servers speak the protocol.
ASSUME RepliesAssumption == \A shape \in Shapes : IsReply(shape)

VARIABLE fds    \* descriptor |-> the socket it stands for

Token  == [kind : Kinds, of : Nat]
Piece  == [of : Nat, part : 1..Pieces]
Unused == [owner |-> "nobody", serving |-> FALSE, up |-> <<>>, down |-> <<>>]
Used   == [owner : Clients,             \* who opened it
           serving : BOOLEAN,           \* the server's end is open
           up : Seq(Piece), down : Seq(Token)]  \* sent, and not yet received
Socket == Used \cup {Unused}

New(c)  == [owner |-> c, serving |-> TRUE, up |-> <<>>, down |-> <<>>]
Open(f) == f \in Fds /\ fds[f] # Unused

Closed(fd)  == IF fd = NoFd THEN fds ELSE [fds EXCEPT ![fd] = Unused]
Free(table) == {f \in Fds : table[f] = Unused}

\* socket() takes the lowest free number.
Lowest(table, fd) == fd \in Free(table) /\ \A f \in Free(table) : fd <= f

Answer(n, shape) == [i \in DOMAIN shape |-> [kind |-> shape[i], of |-> n]]

-----------------------------------------------------------------------------
(* The server. *)

\* Two pieces of one command: the server answers it.
Serve(f) ==
    LET up == fds[f].up
    IN  /\ Open(f) /\ fds[f].serving /\ Len(up) >= Pieces
        /\ up[1].of = up[2].of
        /\ \E shape \in Shapes :
              fds' = [fds EXCEPT ![f].up = SubSeq(up, Pieces + 1, Len(up)),
                                 ![f].down = @ \o Answer(up[1].of, shape)]

\* Half a command, and then the start of the next: a protocol error.
Reject(f) ==
    LET up == fds[f].up
    IN  /\ Open(f) /\ fds[f].serving /\ Len(up) >= Pieces
        /\ up[1].of # up[2].of
        /\ fds' = [fds EXCEPT ![f].up = <<>>, ![f].serving = FALSE,
                              ![f].down = @ \o Answer(up[1].of, <<"error">>)]

\* The server goes away, with part of what it sent perhaps still to arrive.
HangUp(f) ==
    /\ Open(f) /\ fds[f].serving
    /\ \E k \in 0..Len(fds[f].down) :
          fds' = [fds EXCEPT ![f].up = <<>>, ![f].serving = FALSE,
                             ![f].down = SubSeq(@, 1, k)]

ServerNext == \E f \in Fds : Serve(f) \/ Reject(f) \/ HangUp(f)
=============================================================================
