------------------------------ MODULE Network ------------------------------
(***************************************************************************)
(* The Redis and TcpClient objects of one script, over the descriptors of  *)
(* one process.  The interpreter runs one call at a time; servers answer   *)
(* meanwhile, later, or never.                                             *)
(***************************************************************************)
EXTENDS Sockets

VARIABLES
    conns,      \* conns_: the descriptor and the unread input of a Redis object
    socks,      \* fds_: the descriptor of a TcpClient
    call,       \* the Redis call that is running
    issued,     \* commands sent so far; the number of a command is its name
    result,     \* what the last Redis call returned
    torn        \* history: clients that may no longer trust their connection

vars == <<fds, conns, socks, call, issued, result, torn>>

Idle    == [by |-> "nobody", n |-> 0, sent |-> 0, need |-> <<>>, got |-> {}]
Nothing == [by |-> "nobody", n |-> 0, of |-> {}]
FdOf(c) == IF c \in Redis THEN conns[c].fd ELSE socks[c]
Numbers == 0..MaxCalls

TypeOK ==
    /\ fds \in [Fds -> Socket]
    /\ conns \in [Redis -> [fd : Fds \cup {NoFd}, buf : Seq(Token)]]
    /\ socks \in [Tcp -> Fds \cup {NoFd}]
    /\ call \in [by : Redis \cup {"nobody"}, n : Numbers, sent : 0..Pieces,
                 need : Seq({"reply", "data"}), got : SUBSET Nat]
    /\ issued \in Numbers
    /\ result \in [by : Redis \cup {"nobody"}, n : Numbers, of : SUBSET Nat]
    /\ torn \subseteq Clients

Init ==
    /\ fds = [f \in Fds |-> Unused]
    /\ conns = [c \in Redis |-> [fd |-> NoFd, buf |-> <<>>]]
    /\ socks = [c \in Tcp |-> NoFd]
    /\ call = Idle /\ issued = 0 /\ result = Nothing /\ torn = {}

\* Whose socket a client works on when its descriptor is no longer its own.
Hit(c) == IF Open(FdOf(c)) THEN {fds[FdOf(c)].owner} \ {c} ELSE {}

-----------------------------------------------------------------------------
(* Redis: connect() and close(). *)

ConnectWith(c, buf) ==
    /\ call = Idle
    /\ \E new \in Fds :
          /\ Lowest(Closed(conns[c].fd), new)
          /\ fds' = [Closed(conns[c].fd) EXCEPT ![new] = New(c)]
          /\ conns' = [conns EXCEPT ![c] = [fd |-> new, buf |-> buf]]
    /\ torn' = (torn \ {c}) \cup Hit(c)
    /\ UNCHANGED <<socks, call, issued, result>>

\* Mutant: only the descriptor is replaced, and what was read stays.
ConnectKeepingBuffer(c) == ConnectWith(c, conns[c].buf)

Connect(c) == ConnectWith(c, <<>>)

\* The old descriptor is closed before the server is looked up, and stays in
\* conns_ until there is a new one.
ConnectFails(c) ==
    /\ call = Idle
    /\ fds' = Closed(conns[c].fd)
    /\ torn' = torn \cup Hit(c) \cup (IF conns[c].fd = NoFd THEN {} ELSE {c})
    /\ UNCHANGED <<conns, socks, call, issued, result>>

Close(c) ==
    /\ call = Idle /\ conns[c].fd # NoFd
    /\ fds' = Closed(conns[c].fd)
    /\ conns' = [conns EXCEPT ![c].fd = NoFd]
    /\ torn' = (torn \ {c}) \cup Hit(c)
    /\ UNCHANGED <<socks, call, issued, result>>

-----------------------------------------------------------------------------
(* Redis: a command, from its first byte to the end of its answer. *)

by == call.by
fd == conns[by].fd

StartCall(c) ==
    /\ call = Idle /\ conns[c].fd # NoFd /\ issued < MaxCalls
    /\ issued' = issued + 1
    /\ call' = [Idle EXCEPT !.by = c, !.n = issued + 1, !.need = <<"reply">>]
    /\ result' = Nothing
    /\ UNCHANGED <<fds, conns, socks, torn>>

Sending == call # Idle /\ call.sent < Pieces
Reading == call # Idle /\ call.sent = Pieces /\ conns[by].buf = <<>>
Parsing == call # Idle /\ call.sent = Pieces /\ conns[by].buf # <<>>

Throws(spoilt) == /\ call' = Idle
                  /\ torn' = torn \cup Hit(by) \cup spoilt
                  /\ UNCHANGED <<socks, issued, result>>

\* send() takes what fits.  A socket whose server has gone may take it too.
SendPiece ==
    /\ Sending /\ Open(fd)
    /\ call' = [call EXCEPT !.sent = @ + 1]
    /\ fds' = IF fds[fd].serving
              THEN [fds EXCEPT ![fd].up = Append(@, [of |-> call.n, part |-> call.sent + 1])]
              ELSE fds
    /\ torn' = torn \cup Hit(by)
    /\ UNCHANGED <<conns, socks, issued, result>>

\* No room before the timeout, no server, or no such descriptor.  What was
\* sent of the command stays in the stream.
SendFails ==
    /\ Sending
    /\ Throws(IF call.sent = 0 THEN {} ELSE {by})
    /\ UNCHANGED <<fds, conns>>

\* fillMore(): some of what has arrived.
Recv ==
    /\ Reading /\ Open(fd)
    /\ \E k \in 1..Len(fds[fd].down) :
          /\ conns' = [conns EXCEPT ![by].buf = SubSeq(fds[fd].down, 1, k)]
          /\ fds' = [fds EXCEPT ![fd].down = SubSeq(@, k + 1, Len(@))]
    /\ torn' = torn \cup Hit(by)
    /\ UNCHANGED <<socks, call, issued, result>>

\* Mutant: the read is tried again for as long as the server is there.
ServerGone == Open(fd) => fds[fd].down = <<>> /\ ~fds[fd].serving

NothingComes == Open(fd) => fds[fd].down = <<>>

\* fillMore() returns false: the timeout, the end of the stream, or an error.
\* The descriptor stays, and the answer may still come.
RecvFails ==
    /\ Reading /\ NothingComes
    /\ Throws({by})
    /\ UNCHANGED <<fds, conns>>

token == Head(conns[by].buf)
Take  == /\ conns' = [conns EXCEPT ![by].buf = Tail(@)]
         /\ UNCHANGED fds

\* A piece of the answer is read and this is what is still needed of it.
Read(need) ==
    LET got == call.got \cup {token.of}
    IN  /\ Take
        /\ IF need = <<>>
           THEN /\ call' = Idle
                /\ result' = [by |-> by, n |-> call.n, of |-> got]
           ELSE /\ call' = [call EXCEPT !.need = need, !.got = got]
                /\ UNCHANGED result
        /\ UNCHANGED <<socks, issued, torn>>

Rest == Tail(call.need)

\* readReply(): the line says what follows.
ReadValue == /\ Parsing /\ Head(call.need) = "reply" /\ token.kind = "value"
             /\ Read(Rest)
ReadBulk  == /\ Parsing /\ Head(call.need) = "reply" /\ token.kind = "bulk"
             /\ Read(<<"data">> \o Rest)
ReadArray == /\ Parsing /\ Head(call.need) = "reply" /\ token.kind = "array"
             /\ Read(<<"reply", "reply">> \o Rest)

\* An error throws from wherever it is: the rest of an array stays unread.
ReadError ==
    /\ Parsing /\ Head(call.need) = "reply" /\ token.kind = "error"
    /\ Take
    /\ Throws(IF Rest = <<>> THEN {} ELSE {by})

\* A payload where a line is expected: an unexpected type, or whatever the
\* stored value happens to look like.
MisreadData ==
    /\ Parsing /\ Head(call.need) = "reply" /\ token.kind = "data"
    /\ \/ Take /\ Throws({by})
       \/ Read(Rest)

\* readN(): the payload of a bulk, whatever is in it.
ReadData == /\ Parsing /\ Head(call.need) = "data"
            /\ Read(Rest)

CallStep == \/ SendPiece \/ SendFails \/ Recv \/ RecvFails
            \/ ReadValue \/ ReadBulk \/ ReadArray \/ ReadError \/ MisreadData \/ ReadData

-----------------------------------------------------------------------------
(* TcpClient. *)

TcpConnect(c) ==
    /\ call = Idle
    /\ \E new \in Fds :
          /\ Lowest(Closed(socks[c]), new)
          /\ fds' = [Closed(socks[c]) EXCEPT ![new] = New(c)]
          /\ socks' = [socks EXCEPT ![c] = new]
    /\ torn' = (torn \ {c}) \cup Hit(c)
    /\ UNCHANGED <<conns, call, issued, result>>

\* The descriptor is closed, and this is what fds_ holds afterwards.
Drop(c, kept) ==
    /\ call = Idle
    /\ fds' = Closed(socks[c])
    /\ socks' = [socks EXCEPT ![c] = kept]
    /\ torn' = (torn \ {c}) \cup Hit(c)
    /\ UNCHANGED <<conns, call, issued, result>>

\* Mutant: closed, and not forgotten.
TcpConnectFailsOpen(c) == Drop(c, socks[c])

\* The old descriptor is forgotten before the server is looked up.
TcpConnectFails(c) == Drop(c, NoFd)

TcpClose(c) == socks[c] # NoFd /\ Drop(c, NoFd)

\* send(): all the bytes or, when it throws, some of them.
TcpSend(c) ==
    /\ call = Idle /\ socks[c] # NoFd /\ Open(socks[c]) /\ issued < MaxCalls
    /\ fds[socks[c]].serving
    /\ issued' = issued + 1
    /\ \E k \in 1..Pieces :
          fds' = [fds EXCEPT ![socks[c]].up =
                    @ \o [i \in 1..k |-> [of |-> issued + 1, part |-> i]]]
    /\ torn' = torn \cup Hit(c)
    /\ UNCHANGED <<conns, socks, call, result>>

\* recv() and recvLine(): some of what has arrived.
TcpRead(c) ==
    /\ call = Idle /\ socks[c] # NoFd /\ Open(socks[c])
    /\ \E k \in 1..Len(fds[socks[c]].down) :
          fds' = [fds EXCEPT ![socks[c]].down = SubSeq(@, k + 1, Len(@))]
    /\ torn' = torn \cup Hit(c)
    /\ UNCHANGED <<conns, socks, call, issued, result>>

-----------------------------------------------------------------------------
Script == \/ \E c \in Redis : Connect(c) \/ ConnectFails(c) \/ Close(c) \/ StartCall(c)
          \/ \E c \in Tcp : \/ TcpConnect(c) \/ TcpConnectFails(c) \/ TcpClose(c)
                            \/ TcpSend(c) \/ TcpRead(c)

Servers == ServerNext /\ UNCHANGED <<conns, socks, call, issued, result, torn>>

Next == Script \/ CallStep \/ Servers

\* Every send and every recv ends: SO_SNDTIMEO and SO_RCVTIMEO see to it.
Spec == Init /\ [][Next]_vars /\ WF_vars(CallStep)

-----------------------------------------------------------------------------
(* A client that may trust its connection works on the socket it opened    *)
(* itself (README of the module: "Each instance owns its own connection"). *)
(* What makes a client lose that trust is a failed connect() of a Redis    *)
(* object that had a connection, and nothing else but the work of a client *)
(* that has lost it.                                                       *)
DescriptorIsOwn ==
    \A c \in Clients : FdOf(c) # NoFd /\ c \notin torn => fds[FdOf(c)].owner = c

\* A call ends: with its answer, or with an exception.
CallsEnd == (call # Idle) ~> (call = Idle)

\* What a script may rely on (module Session).
Trust(c) == IF FdOf(c) = NoFd THEN "closed" ELSE IF c \in torn THEN "torn" ELSE "open"
S == INSTANCE Session WITH
        Clients <- Clients,
        trust <- [c \in Clients |-> Trust(c)],
        asked <- [by |-> call.by, n |-> call.n],
        answer <- result

\* The clients keep the promise of module Session.
ImplementsSession == S!Spec
=============================================================================
