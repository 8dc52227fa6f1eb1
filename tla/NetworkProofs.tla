--------------------------- MODULE NetworkProofs ---------------------------
(***************************************************************************)
(* A client that may trust its connection works on its own socket, and     *)
(* what its calls return is the answer to its own command, for any number  *)
(* of clients, descriptors and commands.  DescriptorIsOwn carries itself:  *)
(* a client that closes a descriptor which is no longer its own is the     *)
(* only danger, and whoever it hits loses its trust in the same step.  The *)
(* type needs CallIsSane, that a call in progress still needs something,   *)
(* or the head of what it needs would not be there.  The promise of module *)
(* Session needs CleanInv, which says of a trusted connection what may be  *)
(* on its way: nothing, or the pieces of one command, or the rest of its   *)
(* answer together with how much of it is due.                             *)
(***************************************************************************)
EXTENDS Network, SequenceTheorems, FiniteSetTheorems, TLAPS

\* A call belongs to a Redis object and still needs part of its answer.
CallIsSane == call # Idle => call.by \in Redis /\ call.need # <<>>

NetInv == TypeOK /\ DescriptorIsOwn /\ CallIsSane

-----------------------------------------------------------------------------
(* Lemmas about the operators                                              *)

\* An answer is a sequence of tokens.
LEMMA AnswerType ==
    ASSUME NEW n \in Nat, NEW shape \in Seq(Kinds)
    PROVE  Answer(n, shape) \in Seq(Token)
<1>1. /\ Len(shape) \in Nat /\ DOMAIN shape = 1..Len(shape)
      /\ \A i \in 1..Len(shape) : shape[i] \in Kinds
  OBVIOUS
<1>2. Answer(n, shape) \in [1..Len(shape) -> Token]
  BY <1>1 DEF Answer, Token
<1> QED
  BY <1>1, <1>2

\* An initial part of a sequence, and what is left of it.
LEMMA Parts ==
    ASSUME NEW A, NEW s \in Seq(A), NEW i \in Nat, NEW j \in Nat, j <= Len(s)
    PROVE  /\ SubSeq(s, 1, j) \in Seq(A)
           /\ SubSeq(s, i + 1, Len(s)) \in Seq(A)
<1>1. /\ Len(s) \in Nat
      /\ \A k \in 1..Len(s) : s[k] \in A
  OBVIOUS
<1>2. \A k \in 1..j : s[k] \in A
  BY <1>1
<1>3. \A k \in i + 1..Len(s) : s[k] \in A
  BY <1>1
<1> QED
  BY <1>1, <1>2, <1>3, SubSeqProperties

\* Closing a descriptor leaves a table of sockets, as does opening one in it.
LEMMA TableType ==
    ASSUME fds \in [Fds -> Socket], NEW f \in Fds \cup {NoFd}
    PROVE  /\ Closed(f) \in [Fds -> Socket]
           /\ \A new \in Fds, c \in Clients : [Closed(f) EXCEPT ![new] = New(c)] \in [Fds -> Socket]
<1>1. <<>> \in Seq(Piece) /\ <<>> \in Seq(Token)
  OBVIOUS
<1>2. Unused \in Socket /\ \A c \in Clients : New(c) \in Socket
  BY <1>1 DEF Unused, New, Socket, Used
<1>3. Closed(f) \in [Fds -> Socket]
  BY <1>2 DEF Closed
<1> QED
  BY <1>2, <1>3

\* The descriptor of a client.
LEMMA FdType ==
    ASSUME TypeOK, NEW c \in Clients
    PROVE  FdOf(c) \in Fds \cup {NoFd}
  BY DEF TypeOK, FdOf, Clients

\* Only clients are hit: the sockets that belong to nobody are not open.
LEMMA HitType ==
    ASSUME TypeOK, NEW c \in Clients
    PROVE  Hit(c) \subseteq Clients
<1> SUFFICES ASSUME Open(FdOf(c)) PROVE fds[FdOf(c)].owner \in Clients
  BY DEF Hit
<1> QED
  BY DEF Open, TypeOK, Socket, Used

\* Whoever shares the descriptor of c and still trusts it is hit by c.
LEMMA SharersAreHit ==
    ASSUME TypeOK, DescriptorIsOwn, NEW c \in Clients, NEW d \in Clients \ {c},
           FdOf(d) # NoFd, d \notin torn, d \notin Hit(c)
    PROVE  /\ FdOf(d) \in Fds /\ FdOf(d) # FdOf(c)
           /\ fds[FdOf(d)].owner = d
           /\ fds[FdOf(d)] # Unused
           /\ Closed(FdOf(c))[FdOf(d)] = fds[FdOf(d)]
<1>1. FdOf(d) \in Fds /\ FdOf(c) \in Fds \cup {NoFd}
  BY FdType
<1>2. fds[FdOf(d)].owner = d
  BY DEF DescriptorIsOwn
<1>3. fds[FdOf(d)] # Unused
  BY <1>2, SocketsAssumption DEF Unused
<1>4. FdOf(d) # FdOf(c)
  BY <1>1, <1>2, <1>3 DEF Hit, Open
<1>5. Closed(FdOf(c))[FdOf(d)] = fds[FdOf(d)]
  BY <1>1, <1>4 DEF Closed, TypeOK
<1> QED
  BY <1>1, <1>2, <1>3, <1>4, <1>5

\* Steps that open and close nothing, and restore nobody's trust.
LEMMA OwnersKept ==
    ASSUME NetInv,
           \A f \in Fds : fds'[f].owner = fds[f].owner,
           \A c \in Clients : FdOf(c)' = FdOf(c),
           torn \subseteq torn'
    PROVE  DescriptorIsOwn'
<1> SUFFICES ASSUME NEW c \in Clients, FdOf(c)' # NoFd, c \notin torn'
             PROVE  fds'[FdOf(c)'].owner = c
  BY DEF DescriptorIsOwn
<1>1. FdOf(c) \in Fds /\ fds[FdOf(c)].owner = c
  BY FdType DEF NetInv, DescriptorIsOwn
<1> QED
  BY <1>1

\* A client that opens a new descriptor in place of the one it has.
LEMMA OpeningKeeps ==
    ASSUME NetInv, NEW c \in Clients, NEW new \in Fds,
           Lowest(Closed(FdOf(c)), new),
           fds' = [Closed(FdOf(c)) EXCEPT ![new] = New(c)],
           FdOf(c)' = new, \A d \in Clients \ {c} : FdOf(d)' = FdOf(d),
           torn' = (torn \ {c}) \cup Hit(c)
    PROVE  DescriptorIsOwn'
<1> SUFFICES ASSUME NEW d \in Clients, FdOf(d)' # NoFd, d \notin torn'
             PROVE  fds'[FdOf(d)'].owner = d
  BY DEF DescriptorIsOwn
<1>1. Closed(FdOf(c)) \in [Fds -> Socket] /\ Closed(FdOf(c))[new] = Unused
  BY TableType, FdType DEF NetInv, TypeOK, Lowest, Free
<1>2. CASE d = c
  BY <1>1, <1>2 DEF New
<1>3. CASE d # c
  <2>1. /\ FdOf(d) \in Fds /\ fds[FdOf(d)].owner = d
        /\ fds[FdOf(d)] # Unused
        /\ Closed(FdOf(c))[FdOf(d)] = fds[FdOf(d)]
    BY <1>3, SharersAreHit DEF NetInv
  <2>2. FdOf(d) # new
    BY <1>1, <2>1
  <2> QED
    BY <1>1, <1>3, <2>1, <2>2
<1> QED
  BY <1>2, <1>3

\* A client that closes the descriptor it has and is trusted no more, unless
\* it has none then.
LEMMA ClosingKeeps ==
    ASSUME NetInv, NEW c \in Clients,
           fds' = Closed(FdOf(c)),
           FdOf(c)' = NoFd \/ c \in torn',
           \A d \in Clients \ {c} : FdOf(d)' = FdOf(d),
           (torn \ {c}) \cup Hit(c) \subseteq torn'
    PROVE  DescriptorIsOwn'
<1> SUFFICES ASSUME NEW d \in Clients, FdOf(d)' # NoFd, d \notin torn'
             PROVE  fds'[FdOf(d)'].owner = d
  BY DEF DescriptorIsOwn
<1>1. d # c
  OBVIOUS
<1>2. fds[FdOf(d)].owner = d /\ Closed(FdOf(c))[FdOf(d)] = fds[FdOf(d)]
  BY <1>1, SharersAreHit DEF NetInv
<1> QED
  BY <1>1, <1>2

-----------------------------------------------------------------------------
(* The script's steps                                                      *)

\* connect() of a Redis object.
LEMMA ConnectKeeps == ASSUME NetInv, NEW c \in Redis, Connect(c) PROVE NetInv'
<1>1. PICK new \in Fds :
         /\ Lowest(Closed(conns[c].fd), new)
         /\ fds' = [Closed(conns[c].fd) EXCEPT ![new] = New(c)]
         /\ conns' = [conns EXCEPT ![c] = [fd |-> new, buf |-> <<>>]]
  BY DEF Connect, ConnectWith
<1>2. /\ TypeOK /\ CallIsSane /\ c \in Clients /\ c \notin Tcp
      /\ torn' = (torn \ {c}) \cup Hit(c)
      /\ UNCHANGED <<socks, call, issued, result>>
  BY SocketsAssumption DEF NetInv, Connect, ConnectWith, Clients
<1>3. TypeOK'
  <2>1. fds' \in [Fds -> Socket]
    BY <1>1, <1>2, TableType DEF TypeOK
  <2>2. conns' \in [Redis -> [fd : Fds \cup {NoFd}, buf : Seq(Token)]]
    BY <1>1, <1>2 DEF TypeOK
  <2>3. torn' \subseteq Clients
    BY <1>2, HitType DEF TypeOK
  <2> QED
    BY <1>2, <2>1, <2>2, <2>3 DEF TypeOK
<1>4. DescriptorIsOwn'
  <2>1. FdOf(c) = conns[c].fd /\ FdOf(c)' = new
    BY <1>1, <1>2 DEF FdOf, TypeOK
  <2>2. \A d \in Clients \ {c} : FdOf(d)' = FdOf(d)
    BY <1>1, <1>2 DEF FdOf, TypeOK
  <2> QED
    BY <1>1, <1>2, <2>1, <2>2, OpeningKeeps
<1> QED
  BY <1>2, <1>3, <1>4 DEF NetInv, CallIsSane

\* connect() that throws leaves the number of the closed descriptor behind.
LEMMA ConnectFailsKeeps == ASSUME NetInv, NEW c \in Redis, ConnectFails(c) PROVE NetInv'
<1>1. /\ TypeOK /\ CallIsSane /\ c \in Clients /\ FdOf(c) = conns[c].fd
      /\ UNCHANGED <<conns, socks, call, issued, result>>
      /\ fds' = Closed(FdOf(c))
      /\ torn' = torn \cup Hit(c) \cup (IF FdOf(c) = NoFd THEN {} ELSE {c})
  BY DEF NetInv, ConnectFails, Clients, FdOf
<1>2. TypeOK'
  BY <1>1, TableType, FdType, HitType DEF TypeOK
<1>3. DescriptorIsOwn'
  <2>1. \A d \in Clients : FdOf(d)' = FdOf(d)
    BY <1>1 DEF FdOf
  <2> QED
    BY <1>1, <2>1, ClosingKeeps
<1> QED
  BY <1>1, <1>2, <1>3 DEF NetInv, CallIsSane

\* close() of a Redis object.
LEMMA CloseKeeps == ASSUME NetInv, NEW c \in Redis, Close(c) PROVE NetInv'
<1>1. /\ TypeOK /\ CallIsSane /\ c \in Clients /\ c \notin Tcp /\ FdOf(c) = conns[c].fd
      /\ conns' = [conns EXCEPT ![c].fd = NoFd]
      /\ UNCHANGED <<socks, call, issued, result>>
      /\ fds' = Closed(FdOf(c))
      /\ torn' = (torn \ {c}) \cup Hit(c)
  BY SocketsAssumption DEF NetInv, Close, Clients, FdOf
<1>2. TypeOK'
  <2>1. conns' \in [Redis -> [fd : Fds \cup {NoFd}, buf : Seq(Token)]]
    BY <1>1 DEF TypeOK
  <2> QED
    BY <1>1, <2>1, TableType, FdType, HitType DEF TypeOK
<1>3. DescriptorIsOwn'
  <2>1. FdOf(c)' = NoFd /\ \A d \in Clients \ {c} : FdOf(d)' = FdOf(d)
    BY <1>1 DEF FdOf, TypeOK
  <2> QED
    BY <1>1, <2>1, ClosingKeeps
<1> QED
  BY <1>1, <1>2, <1>3 DEF NetInv, CallIsSane

\* A command starts with all of its answer still needed.
LEMMA StartCallKeeps == ASSUME NetInv, NEW c \in Redis, StartCall(c) PROVE NetInv'
<1>1. /\ TypeOK /\ UNCHANGED <<fds, conns, socks, torn>>
      /\ call' = [Idle EXCEPT !.by = c, !.n = issued + 1, !.need = <<"reply">>]
  BY DEF NetInv, StartCall
<1>2. TypeOK'
  <2>1. issued' \in Numbers /\ issued + 1 \in Numbers
    BY <1>1, SocketsAssumption DEF StartCall, TypeOK, Numbers
  <2>2. call' \in [by : Redis \cup {"nobody"}, n : Numbers, sent : 0..Pieces,
                   need : Seq({"reply", "data"}), got : SUBSET Nat]
    <3>1. call' = [by |-> c, n |-> issued + 1, sent |-> 0, need |-> <<"reply">>, got |-> {}]
      BY <1>1 DEF Idle
    <3>2. <<"reply">> \in Seq({"reply", "data"}) /\ 0 \in 0..Pieces
      BY DEF Pieces
    <3> QED
      BY <2>1, <3>1, <3>2
  <2>3. result' \in [by : Redis \cup {"nobody"}, n : Numbers, of : SUBSET Nat]
    BY SocketsAssumption DEF StartCall, Nothing, Numbers
  <2> QED
    BY <1>1, <2>1, <2>2, <2>3 DEF TypeOK
<1>3. DescriptorIsOwn'
  BY <1>1, OwnersKept DEF FdOf
<1>4. CallIsSane'
  BY <1>1 DEF CallIsSane, Idle
<1> QED
  BY <1>2, <1>3, <1>4 DEF NetInv

\* connect() of a TcpClient.
LEMMA TcpConnectKeeps == ASSUME NetInv, NEW c \in Tcp, TcpConnect(c) PROVE NetInv'
<1>1. PICK new \in Fds :
         /\ Lowest(Closed(socks[c]), new)
         /\ fds' = [Closed(socks[c]) EXCEPT ![new] = New(c)]
         /\ socks' = [socks EXCEPT ![c] = new]
  BY DEF TcpConnect
<1>2. /\ TypeOK /\ CallIsSane /\ c \in Clients /\ c \notin Redis
      /\ torn' = (torn \ {c}) \cup Hit(c)
      /\ UNCHANGED <<conns, call, issued, result>>
  BY SocketsAssumption DEF NetInv, TcpConnect, Clients
<1>3. TypeOK'
  BY <1>1, <1>2, TableType, HitType DEF TypeOK
<1>4. DescriptorIsOwn'
  <2>1. FdOf(c) = socks[c] /\ FdOf(c)' = new
    BY <1>1, <1>2 DEF FdOf, TypeOK
  <2>2. \A d \in Clients \ {c} : FdOf(d)' = FdOf(d)
    BY <1>1, <1>2 DEF FdOf, TypeOK, Clients
  <2> QED
    BY <1>1, <1>2, <2>1, <2>2, OpeningKeeps
<1> QED
  BY <1>2, <1>3, <1>4 DEF NetInv, CallIsSane

\* close() of a TcpClient, and a connect() that throws: the descriptor is forgotten.
LEMMA DropKeeps == ASSUME NetInv, NEW c \in Tcp, Drop(c, NoFd) PROVE NetInv'
<1>1. /\ TypeOK /\ CallIsSane /\ c \in Clients /\ c \notin Redis /\ FdOf(c) = socks[c]
      /\ socks' = [socks EXCEPT ![c] = NoFd]
      /\ UNCHANGED <<conns, call, issued, result>>
      /\ fds' = Closed(FdOf(c))
      /\ torn' = (torn \ {c}) \cup Hit(c)
  BY SocketsAssumption DEF NetInv, Drop, Clients, FdOf
<1>2. TypeOK'
  BY <1>1, TableType, FdType, HitType DEF TypeOK
<1>3. DescriptorIsOwn'
  <2>1. FdOf(c)' = NoFd /\ \A d \in Clients \ {c} : FdOf(d)' = FdOf(d)
    BY <1>1 DEF FdOf, TypeOK, Clients
  <2> QED
    BY <1>1, <2>1, ClosingKeeps
<1> QED
  BY <1>1, <1>2, <1>3 DEF NetInv, CallIsSane

\* send() of a TcpClient.
LEMMA TcpSendKeeps == ASSUME NetInv, NEW c \in Tcp, TcpSend(c) PROVE NetInv'
<1> DEFINE f == socks[c]
           some(k) == [i \in 1..k |-> [of |-> issued + 1, part |-> i]]
<1>1. /\ TypeOK /\ CallIsSane /\ c \in Clients /\ f \in Fds /\ fds[f] \in Used
      /\ issued' = issued + 1 /\ issued' \in Numbers /\ issued + 1 \in Nat
      /\ torn' = torn \cup Hit(c)
      /\ UNCHANGED <<conns, socks, call, result>>
  BY SocketsAssumption DEF NetInv, TcpSend, Clients, TypeOK, Open, Socket, Numbers
<1>2. PICK k \in 1..Pieces : fds' = [fds EXCEPT ![f].up = @ \o some(k)]
  BY DEF TcpSend
<1>3. some(k) \in Seq(Piece)
  <2>1. some(k) \in [1..k -> Piece] /\ k \in Nat
    BY <1>1 DEF Piece, Pieces
  <2> QED
    BY <2>1
<1>4. fds' \in [Fds -> Socket] /\ \A g \in Fds : fds'[g].owner = fds[g].owner
  <2> HIDE DEF f, some
  <2>1. fds[f] \in Used
    BY <1>1
  <2>2. fds[f].up \o some(k) \in Seq(Piece)
    BY <1>3, <2>1, ConcatProperties DEF Socket, Used, Unused
  <2> QED
    BY <1>1, <1>2, <2>1, <2>2 DEF TypeOK, Socket, Used
<1>5. TypeOK'
  BY <1>1, <1>4, HitType DEF TypeOK
<1>6. DescriptorIsOwn'
  BY <1>1, <1>4, OwnersKept DEF FdOf
<1> QED
  BY <1>1, <1>5, <1>6 DEF NetInv, CallIsSane

\* recv() of a TcpClient.
LEMMA TcpReadKeeps == ASSUME NetInv, NEW c \in Tcp, TcpRead(c) PROVE NetInv'
<1> DEFINE f == socks[c]
<1>1. /\ TypeOK /\ CallIsSane /\ c \in Clients /\ f \in Fds /\ fds[f] \in Used
      /\ torn' = torn \cup Hit(c)
      /\ UNCHANGED <<conns, socks, call, issued, result>>
  BY DEF NetInv, TcpRead, Clients, TypeOK, Open, Socket
<1>2. PICK k \in 1..Len(fds[f].down) :
         fds' = [fds EXCEPT ![f].down = SubSeq(@, k + 1, Len(@))]
  BY DEF TcpRead
<1>3. fds' \in [Fds -> Socket] /\ \A g \in Fds : fds'[g].owner = fds[g].owner
  <2>1. SubSeq(fds[f].down, k + 1, Len(fds[f].down)) \in Seq(Token)
    <3>1. fds[f].down \in Seq(Token) /\ k \in Nat
      BY <1>1 DEF Used
    <3> QED
      BY <3>1, Parts
  <2> HIDE DEF f
  <2> QED
    BY <1>1, <1>2, <2>1 DEF TypeOK, Socket, Used
<1>4. TypeOK'
  BY <1>1, <1>3, HitType DEF TypeOK
<1>5. DescriptorIsOwn'
  BY <1>1, <1>3, OwnersKept DEF FdOf
<1> QED
  BY <1>1, <1>4, <1>5 DEF NetInv, CallIsSane

-----------------------------------------------------------------------------
(* The steps of a call                                                     *)

\* What a call is, and the connection it works on.
LEMMA CallType ==
    ASSUME NetInv, call # Idle
    PROVE  /\ by \in Redis /\ by \in Clients /\ fd = FdOf(by)
           /\ call \in [by : Redis \cup {"nobody"}, n : Numbers, sent : 0..Pieces,
                        need : Seq({"reply", "data"}), got : SUBSET Nat]
           /\ call.need \in Seq({"reply", "data"}) /\ call.need # <<>>
           /\ call.n \in Nat /\ call.sent \in Nat
           /\ Open(fd) => fds[fd] \in Used
  BY DEF NetInv, TypeOK, CallIsSane, by, fd, FdOf, Clients, Open, Socket, Numbers

\* A step of a call that keeps the table, the descriptors and the types of the rest.
LEMMA CallStepKeeps ==
    ASSUME NetInv, call # Idle,
           fds' \in [Fds -> Socket], \A f \in Fds : fds'[f].owner = fds[f].owner,
           conns' \in [Redis -> [fd : Fds \cup {NoFd}, buf : Seq(Token)]],
           \A c \in Redis : conns'[c].fd = conns[c].fd,
           call' \in [by : Redis \cup {"nobody"}, n : Numbers, sent : 0..Pieces,
                      need : Seq({"reply", "data"}), got : SUBSET Nat],
           call' # Idle => call'.by = call.by /\ call'.need # <<>>,
           result' \in [by : Redis \cup {"nobody"}, n : Numbers, of : SUBSET Nat],
           torn \subseteq torn', torn' \subseteq Clients,
           UNCHANGED <<socks, issued>>
    PROVE  NetInv'
<1>1. TypeOK'
  BY DEF NetInv, TypeOK
<1>2. DescriptorIsOwn'
  BY OwnersKept DEF FdOf
<1>3. CallIsSane'
  BY CallType DEF CallIsSane, by
<1> QED
  BY <1>1, <1>2, <1>3 DEF NetInv

\* send() takes a piece.
LEMMA SendPieceKeeps == ASSUME NetInv, SendPiece PROVE NetInv'
<1>1. /\ TypeOK /\ call # Idle /\ Open(fd) /\ call.sent < Pieces
      /\ call' = [call EXCEPT !.sent = @ + 1]
      /\ torn' = torn \cup Hit(by)
      /\ UNCHANGED <<conns, socks, issued, result>>
  BY DEF NetInv, SendPiece, Sending
<1>2. call.sent + 1 \in 0..Pieces /\ call.sent + 1 \in 1..Pieces
  BY <1>1, CallType DEF Pieces
<1>3. fds' \in [Fds -> Socket] /\ \A f \in Fds : fds'[f].owner = fds[f].owner
  <2>1. CASE fds[fd].serving
    <3>1. fds' = [fds EXCEPT ![fd].up = Append(@, [of |-> call.n, part |-> call.sent + 1])]
      BY <2>1 DEF SendPiece
    <3>2. fds[fd] \in Used /\ fd \in Fds /\ [of |-> call.n, part |-> call.sent + 1] \in Piece
      BY <1>1, <1>2, CallType DEF Open, Piece
    <3>3. Append(fds[fd].up, [of |-> call.n, part |-> call.sent + 1]) \in Seq(Piece)
      BY <3>2, AppendProperties DEF Used
    <3> QED
      BY <1>1, <3>1, <3>2, <3>3 DEF TypeOK, Socket, Used
  <2>2. CASE ~fds[fd].serving
    BY <1>1, <2>2 DEF SendPiece, TypeOK
  <2> QED
    BY <2>1, <2>2
<1>4. call' \in [by : Redis \cup {"nobody"}, n : Numbers, sent : 0..Pieces,
                 need : Seq({"reply", "data"}), got : SUBSET Nat]
      /\ call'.by = call.by /\ call'.need # <<>>
  BY <1>1, <1>2, CallType
<1>5. torn' \subseteq Clients
  BY <1>1, CallType, HitType DEF TypeOK
<1> QED
  BY <1>1, <1>3, <1>4, <1>5, CallStepKeeps DEF TypeOK

\* A call that ends with an exception.
LEMMA ThrowsTyped ==
    ASSUME NetInv, call # Idle, NEW spoilt \in SUBSET {by}, Throws(spoilt)
    PROVE  /\ call' = Idle
           /\ call' \in [by : Redis \cup {"nobody"}, n : Numbers, sent : 0..Pieces,
                         need : Seq({"reply", "data"}), got : SUBSET Nat]
           /\ result' \in [by : Redis \cup {"nobody"}, n : Numbers, of : SUBSET Nat]
           /\ torn \subseteq torn' /\ torn' \subseteq Clients
           /\ UNCHANGED <<socks, issued>>
<1>1. Idle \in [by : Redis \cup {"nobody"}, n : Numbers, sent : 0..Pieces,
                need : Seq({"reply", "data"}), got : SUBSET Nat]
  <2>1. 0 \in Numbers /\ 0 \in 0..Pieces /\ <<>> \in Seq({"reply", "data"})
    BY SocketsAssumption DEF Numbers, Pieces
  <2> QED
    BY <2>1 DEF Idle
<1>2. torn' \subseteq Clients
  BY CallType, HitType DEF Throws, NetInv, TypeOK
<1> QED
  BY <1>1, <1>2 DEF Throws, NetInv, TypeOK

\* send() and recv() that fail, and the answer stays where it is.
LEMMA FailsKeep ==
    ASSUME NetInv, SendFails \/ RecvFails
    PROVE  NetInv'
<1>1. PICK spoilt \in SUBSET {by} : Throws(spoilt)
  BY DEF SendFails, RecvFails
<1>2. call # Idle /\ UNCHANGED <<fds, conns>>
  BY DEF SendFails, Sending, RecvFails, Reading
<1> QED
  BY <1>1, <1>2, ThrowsTyped, CallStepKeeps DEF NetInv, TypeOK

\* recv() takes some of what has arrived.
LEMMA RecvKeeps == ASSUME NetInv, Recv PROVE NetInv'
<1>1. PICK k \in 1..Len(fds[fd].down) :
         /\ conns' = [conns EXCEPT ![by].buf = SubSeq(fds[fd].down, 1, k)]
         /\ fds' = [fds EXCEPT ![fd].down = SubSeq(@, k + 1, Len(@))]
  BY DEF Recv
<1>2. /\ TypeOK /\ call # Idle /\ Open(fd)
      /\ torn' = torn \cup Hit(by)
      /\ UNCHANGED <<socks, call, issued, result>>
  BY DEF NetInv, Recv, Reading
<1>3. fds[fd] \in Used /\ fds[fd].down \in Seq(Token) /\ fd \in Fds
  BY <1>2, CallType DEF Open, Used
<1>4. /\ SubSeq(fds[fd].down, 1, k) \in Seq(Token)
      /\ SubSeq(fds[fd].down, k + 1, Len(fds[fd].down)) \in Seq(Token)
  BY <1>3, Parts
<1>5. fds' \in [Fds -> Socket] /\ \A f \in Fds : fds'[f].owner = fds[f].owner
  BY <1>1, <1>2, <1>3, <1>4 DEF TypeOK, Socket, Used
<1>6. /\ conns' \in [Redis -> [fd : Fds \cup {NoFd}, buf : Seq(Token)]]
      /\ \A c \in Redis : conns'[c].fd = conns[c].fd
  BY <1>1, <1>2, <1>4 DEF TypeOK
<1>7. torn' \subseteq Clients
  BY <1>2, CallType, HitType DEF TypeOK
<1> QED
  BY <1>2, <1>5, <1>6, <1>7, CallType, CallStepKeeps DEF TypeOK

\* The first token that was read is used up.
LEMMA TakeTyped ==
    ASSUME NetInv, Parsing, Take
    PROVE  /\ token \in Token
           /\ fds' \in [Fds -> Socket] /\ \A f \in Fds : fds'[f].owner = fds[f].owner
           /\ conns' \in [Redis -> [fd : Fds \cup {NoFd}, buf : Seq(Token)]]
           /\ \A c \in Redis : conns'[c].fd = conns[c].fd
<1>1. /\ TypeOK /\ by \in Redis
      /\ conns[by].buf \in Seq(Token) /\ conns[by].buf # <<>>
  BY CallType DEF NetInv, Parsing, TypeOK
<1>2. token \in Token /\ Tail(conns[by].buf) \in Seq(Token)
  BY <1>1, HeadTailProperties DEF token
<1> QED
  BY <1>1, <1>2 DEF Take, TypeOK

\* A piece of the answer is read, and this is what is needed next.
LEMMA ReadKeeps ==
    ASSUME NetInv, Parsing, NEW need \in Seq({"reply", "data"}), Read(need)
    PROVE  NetInv'
<1> DEFINE got == call.got \cup {token.of}
<1>1. call # Idle /\ Take /\ UNCHANGED <<socks, issued, torn>>
  BY DEF Parsing, Read
<1>2. /\ call.got \in SUBSET Nat /\ got \in SUBSET Nat
      /\ call.by \in Redis /\ call.n \in Numbers
  BY <1>1, TakeTyped, CallType DEF Token, by
<1>3. CASE need = <<>>
  <2>1. call' = Idle /\ result' = [by |-> by, n |-> call.n, of |-> got]
    BY <1>3 DEF Read
  <2>2. result' \in [by : Redis \cup {"nobody"}, n : Numbers, of : SUBSET Nat]
    BY <1>2, <2>1 DEF by
  <2>3. call' \in [by : Redis \cup {"nobody"}, n : Numbers, sent : 0..Pieces,
                   need : Seq({"reply", "data"}), got : SUBSET Nat]
    <3>1. 0 \in Numbers /\ 0 \in 0..Pieces /\ <<>> \in Seq({"reply", "data"})
      BY SocketsAssumption DEF Numbers, Pieces
    <3> QED
      BY <2>1, <3>1 DEF Idle
  <2> QED
    BY <1>1, <2>1, <2>2, <2>3, TakeTyped, CallStepKeeps DEF NetInv, TypeOK
<1>4. CASE need # <<>>
  <2>1. call' = [call EXCEPT !.need = need, !.got = got] /\ UNCHANGED result
    BY <1>4 DEF Read
  <2>2. /\ call' \in [by : Redis \cup {"nobody"}, n : Numbers, sent : 0..Pieces,
                      need : Seq({"reply", "data"}), got : SUBSET Nat]
        /\ call'.by = call.by /\ call'.need # <<>>
    BY <1>1, <1>2, <1>4, <2>1, CallType
  <2> QED
    BY <1>1, <2>1, <2>2, TakeTyped, CallStepKeeps DEF NetInv, TypeOK
<1> QED
  BY <1>3, <1>4

\* An error, or a payload that is not understood, ends the call.
LEMMA ParseFailsKeeps ==
    ASSUME NetInv, Parsing, Take, NEW spoilt \in SUBSET {by}, Throws(spoilt)
    PROVE  NetInv'
<1>1. call # Idle
  BY DEF Parsing
<1> QED
  BY <1>1, TakeTyped, ThrowsTyped, CallStepKeeps

\* Whatever a line says, what is still needed is a sequence of known parts.
LEMMA ParsingKeeps ==
    ASSUME NetInv, ReadValue \/ ReadBulk \/ ReadArray \/ ReadError \/ MisreadData \/ ReadData
    PROVE  NetInv'
<1> DEFINE Needs == Seq({"reply", "data"})
<1>1. Parsing /\ call # Idle
  BY DEF ReadValue, ReadBulk, ReadArray, ReadError, MisreadData, ReadData, Parsing
<1>2. Rest \in Needs
  BY <1>1, CallType, HeadTailProperties DEF Rest
<1>3. <<"data">> \o Rest \in Needs /\ <<"reply", "reply">> \o Rest \in Needs
  <2>1. <<"data">> \in Needs /\ <<"reply", "reply">> \in Needs
    OBVIOUS
  <2> QED
    BY <1>2, <2>1, ConcatProperties
<1>4. \/ \E need \in Needs : Read(need)
      \/ Take /\ \E spoilt \in SUBSET {by} : Throws(spoilt)
  <2>1. CASE ReadValue \/ ReadBulk \/ ReadArray \/ ReadData
    BY <1>2, <1>3, <2>1 DEF ReadValue, ReadBulk, ReadArray, ReadData
  <2>2. CASE ReadError
    BY <2>2 DEF ReadError
  <2>3. CASE MisreadData
    BY <1>2, <2>3 DEF MisreadData
  <2> QED
    BY <2>1, <2>2, <2>3
<1> QED
  BY <1>1, <1>4, ReadKeeps, ParseFailsKeeps

-----------------------------------------------------------------------------
(* The servers                                                             *)

\* A server changes what is on its way, never whose socket it is.
LEMMA ServersKeep == ASSUME NetInv, Servers PROVE NetInv'
<1>1. PICK f \in Fds : Serve(f) \/ Reject(f) \/ HangUp(f)
  BY DEF Servers, ServerNext
<1>2. TypeOK /\ CallIsSane /\ UNCHANGED <<conns, socks, call, issued, result, torn>>
  BY DEF NetInv, Servers
<1>3. Open(f) /\ fds[f] \in Used /\ fds[f].up \in Seq(Piece) /\ fds[f].down \in Seq(Token)
  BY <1>1, <1>2 DEF Serve, Reject, HangUp, Open, TypeOK, Socket, Used
<1>4. PICK up \in Seq(Piece), down \in Seq(Token), serving \in BOOLEAN :
         fds' = [fds EXCEPT ![f].up = up, ![f].serving = serving, ![f].down = down]
  <2>0. Len(fds[f].up) \in Nat /\ <<>> \in Seq(Piece)
        /\ (Len(fds[f].up) >= Pieces => fds[f].up[1].of \in Nat)
    <3>1. Len(fds[f].up) \in Nat /\ <<>> \in Seq(Piece)
      BY <1>3
    <3>2. ASSUME Len(fds[f].up) >= Pieces PROVE fds[f].up[1].of \in Nat
      <4>1. 1 \in 1..Len(fds[f].up)
        BY <3>1, <3>2 DEF Pieces
      <4>2. fds[f].up[1] \in Piece
        BY <1>3, <4>1, ElementOfSeq
      <4> QED
        BY <4>2 DEF Piece
    <3> QED
      BY <3>1, <3>2
  <2>1. CASE Serve(f)
    <3>1. PICK shape \in Shapes :
             fds' = [fds EXCEPT ![f].up = SubSeq(fds[f].up, Pieces + 1, Len(fds[f].up)),
                                ![f].down = @ \o Answer(fds[f].up[1].of, shape)]
      BY <2>1 DEF Serve
    <3>2. Answer(fds[f].up[1].of, shape) \in Seq(Token)
      BY <2>0, <2>1, AnswerType, SocketsAssumption DEF Serve
    <3>3. /\ SubSeq(fds[f].up, Pieces + 1, Len(fds[f].up)) \in Seq(Piece)
          /\ fds[f].down \o Answer(fds[f].up[1].of, shape) \in Seq(Token)
      BY <1>3, <2>0, <3>2, Parts, ConcatProperties DEF Pieces
    <3>4. fds' = [fds EXCEPT ![f].up = SubSeq(fds[f].up, Pieces + 1, Len(fds[f].up)),
                             ![f].serving = fds[f].serving,
                             ![f].down = fds[f].down \o Answer(fds[f].up[1].of, shape)]
      BY <1>2, <1>3, <3>1 DEF TypeOK, Used
    <3> QED
      BY <1>3, <3>3, <3>4 DEF Used
  <2>2. CASE Reject(f)
    <3>1. fds' = [fds EXCEPT ![f].up = <<>>, ![f].serving = FALSE,
                             ![f].down = fds[f].down \o Answer(fds[f].up[1].of, <<"error">>)]
      BY <2>2 DEF Reject
    <3>2. <<"error">> \in Seq(Kinds)
      BY DEF Kinds
    <3>3. Answer(fds[f].up[1].of, <<"error">>) \in Seq(Token)
      BY <2>0, <2>2, <3>2, AnswerType DEF Reject
    <3>4. fds[f].down \o Answer(fds[f].up[1].of, <<"error">>) \in Seq(Token)
      BY <1>3, <3>3, ConcatProperties
    <3> QED
      BY <2>0, <3>1, <3>4
  <2>3. CASE HangUp(f)
    <3>1. PICK k \in 0..Len(fds[f].down) :
             fds' = [fds EXCEPT ![f].up = <<>>, ![f].serving = FALSE,
                                ![f].down = SubSeq(fds[f].down, 1, k)]
      BY <2>3 DEF HangUp
    <3>2. SubSeq(fds[f].down, 1, k) \in Seq(Token)
      BY <1>3, Parts
    <3> QED
      BY <2>0, <3>1, <3>2
  <2> QED
    BY <1>1, <2>1, <2>2, <2>3
<1>5. fds' \in [Fds -> Socket] /\ \A g \in Fds : fds'[g].owner = fds[g].owner
  BY <1>2, <1>3, <1>4 DEF TypeOK, Socket, Used
<1>6. TypeOK'
  BY <1>2, <1>5 DEF TypeOK
<1>7. DescriptorIsOwn'
  BY <1>2, <1>5, OwnersKept DEF FdOf
<1> QED
  BY <1>2, <1>6, <1>7 DEF NetInv, CallIsSane

-----------------------------------------------------------------------------
LEMMA NetInit == Init => NetInv
<1> SUFFICES ASSUME Init PROVE NetInv
  OBVIOUS
<1>1. /\ 0 \in Numbers /\ 0 \in 0..Pieces
      /\ <<>> \in Seq({"reply", "data"}) /\ <<>> \in Seq(Token)
  BY SocketsAssumption DEF Numbers, Pieces
<1>2. TypeOK
  BY <1>1 DEF Init, TypeOK, Idle, Nothing, Socket
<1>3. DescriptorIsOwn /\ CallIsSane
  BY DEF Init, DescriptorIsOwn, CallIsSane, FdOf, Clients
<1> QED
  BY <1>2, <1>3 DEF NetInv

LEMMA NetNext == NetInv /\ [Next]_vars => NetInv'
<1> SUFFICES ASSUME NetInv, [Next]_vars PROVE NetInv'
  OBVIOUS
<1>1. CASE Script
  BY <1>1, ConnectKeeps, ConnectFailsKeeps, CloseKeeps, StartCallKeeps, TcpConnectKeeps,
     DropKeeps, TcpSendKeeps, TcpReadKeeps DEF Script, TcpConnectFails, TcpClose
<1>2. CASE CallStep
  BY <1>2, SendPieceKeeps, FailsKeep, RecvKeeps, ParsingKeeps DEF CallStep
<1>3. CASE Servers
  BY <1>3, ServersKeep
<1>4. CASE UNCHANGED vars
  BY <1>4 DEF vars, NetInv, TypeOK, DescriptorIsOwn, CallIsSane, FdOf
<1> QED
  BY <1>1, <1>2, <1>3, <1>4 DEF Next

\* Descriptors, connections and calls keep their types, for any number of
\* clients, descriptors and commands and for answers of any shape.
THEOREM NetworkTyped == Spec => []TypeOK
<1>1. NetInv => TypeOK
  BY DEF NetInv
<1> QED
  BY <1>1, NetInit, NetNext, PTL DEF Spec

\* A client that may trust its connection works on the socket it opened,
\* whatever the others connect, close or fail to connect.
THEOREM OwnDescriptors == Spec => []DescriptorIsOwn
<1>1. NetInv => DescriptorIsOwn
  BY DEF NetInv
<1> QED
  BY <1>1, NetInit, NetNext, PTL DEF Spec

\* A call in progress belongs to a Redis object and still needs part of its
\* answer: the parser never runs out of what to read next.
THEOREM CallsAreSane == Spec => []CallIsSane
<1>1. NetInv => CallIsSane
  BY DEF NetInv
<1> QED
  BY <1>1, NetInit, NetNext, PTL DEF Spec

-----------------------------------------------------------------------------
(* The promise of module Session                                           *)

\* What is on the way between a client that trusts its connection and the
\* server: nothing, while no call of its own runs; then the pieces it has
\* sent, and nothing to read; then the rest of the answer, of which the
\* server may have kept back the end, and nothing that was sent.
Trusted(c) == conns[c].fd # NoFd /\ c \notin torn
Sock(c)    == fds[conns[c].fd]
Sent(n, k) == [i \in 1..k |-> [of |-> n, part |-> i]]

Quiet(c) == conns[c].buf = <<>> /\ Sock(c).down = <<>> /\ Sock(c).up = <<>>

Asking(c) ==
    /\ conns[c].buf = <<>> /\ Sock(c).down = <<>>
    /\ Sock(c).up = (IF Sock(c).serving THEN Sent(call.n, call.sent) ELSE <<>>)
    /\ call.need = <<"reply">> /\ call.got = {}

\* The parts that are due after j tokens of an answer.
DueAfter(shape, j, need) ==
    /\ Len(need) = Due(shape, j)
    /\ \A i \in 1..Len(need) :
          need[i] = "data" <=> i = 1 /\ j > 0 /\ shape[j] = "bulk"

\* Tokens of the answer to command n, from the j-th on.
Follows(n, shape, j, tokens) ==
    /\ j + Len(tokens) <= Len(shape)
    /\ \A i \in 1..Len(tokens) : tokens[i] = [kind |-> shape[j + i], of |-> n]

AnsweredUpTo(c, shape, j) ==
    /\ DueAfter(shape, j, call.need)
    /\ Follows(call.n, shape, j, conns[c].buf)
    /\ Follows(call.n, shape, j + Len(conns[c].buf), Sock(c).down)

Answering(c) ==
    /\ call.sent = Pieces /\ Sock(c).up = <<>> /\ call.got \subseteq {call.n}
    /\ \E shape \in Shapes : \E j \in 0..Len(shape) : AnsweredUpTo(c, shape, j)

CleanInv ==
    \A c \in Redis : Trusted(c) =>
        IF call.by = c THEN Asking(c) \/ Answering(c) ELSE Quiet(c)

\* What is proved to hold: NetInv, and that trusted connections are clean.
SessionInv == NetInv /\ CleanInv

\* The number of parts that are due moves by one token at a time.
LEMMA DueMoves ==
    ASSUME NEW shape \in Seq(Kinds), NEW j \in Nat, j < Len(shape)
    PROVE  /\ Due(shape, 0) = 1
           /\ Due(shape, j) \in Int
           /\ Due(shape, j + 1) = Due(shape, j) + (IF shape[j + 1] = "array" THEN 1
                                                   ELSE IF shape[j + 1] = "bulk" THEN 0
                                                   ELSE 0 - 1)
<1> DEFINE Arrays(k) == {i \in 1..k : shape[i] = "array"}
           Ends(k) == {i \in 1..k : shape[i] \in {"value", "error", "data"}}
<1>1. \A k \in Nat : /\ IsFiniteSet(Arrays(k)) /\ Cardinality(Arrays(k)) \in Nat
                     /\ IsFiniteSet(Ends(k)) /\ Cardinality(Ends(k)) \in Nat
  <2> SUFFICES ASSUME NEW k \in Nat
               PROVE  /\ IsFiniteSet(Arrays(k)) /\ Cardinality(Arrays(k)) \in Nat
                      /\ IsFiniteSet(Ends(k)) /\ Cardinality(Ends(k)) \in Nat
    OBVIOUS
  <2>1. IsFiniteSet(1..k)
    <3>1. 1 \in Int /\ k \in Int
      OBVIOUS
    <3> QED
      BY <3>1, FS_Interval
  <2>2. Arrays(k) \subseteq 1..k /\ Ends(k) \subseteq 1..k
    OBVIOUS
  <2>3. IsFiniteSet(Arrays(k)) /\ IsFiniteSet(Ends(k))
    BY <2>1, <2>2, FS_Subset
  <2> QED
    BY <2>3, FS_CardinalityType
<1>2. \A k \in Nat : Due(shape, k) = 1 + Cardinality(Arrays(k)) - Cardinality(Ends(k))
  BY DEF Due
<1>3. Cardinality(Arrays(0)) = 0 /\ Cardinality(Ends(0)) = 0
  <2>1. Arrays(0) = {} /\ Ends(0) = {}
    OBVIOUS
  <2> QED
    BY <2>1, FS_EmptySet
<1>4. /\ Arrays(j + 1) = IF shape[j + 1] = "array" THEN Arrays(j) \cup {j + 1} ELSE Arrays(j)
      /\ Ends(j + 1) = IF shape[j + 1] \in {"value", "error", "data"}
                       THEN Ends(j) \cup {j + 1} ELSE Ends(j)
      /\ j + 1 \notin Arrays(j) /\ j + 1 \notin Ends(j)
  <2>1. 1..(j + 1) = (1..j) \cup {j + 1} /\ j + 1 \notin 1..j
    OBVIOUS
  <2> QED
    BY <2>1
<1>5. /\ Cardinality(Arrays(j) \cup {j + 1}) = Cardinality(Arrays(j)) + 1
      /\ Cardinality(Ends(j) \cup {j + 1}) = Cardinality(Ends(j)) + 1
  BY <1>1, <1>4, FS_AddElement
<1>6. shape[j + 1] \in Kinds
  OBVIOUS
<1>7. j + 1 \in Nat /\ 0 \in Nat
  OBVIOUS
<1> HIDE DEF Arrays, Ends
<1>8. /\ Due(shape, 0) = 1 + Cardinality(Arrays(0)) - Cardinality(Ends(0))
      /\ Due(shape, j) = 1 + Cardinality(Arrays(j)) - Cardinality(Ends(j))
      /\ Due(shape, j + 1) = 1 + Cardinality(Arrays(j + 1)) - Cardinality(Ends(j + 1))
  BY <1>2, <1>7
<1>9. Cardinality(Arrays(j)) \in Nat /\ Cardinality(Ends(j)) \in Nat
  BY <1>1
<1>10. CASE shape[j + 1] = "array"
  <2>1. shape[j + 1] \notin {"value", "error", "data"} /\ shape[j + 1] # "bulk"
    BY <1>10
  <2>2. Arrays(j + 1) = Arrays(j) \cup {j + 1} /\ Ends(j + 1) = Ends(j)
    BY <1>4, <1>10, <2>1
  <2>3. Cardinality(Arrays(j + 1)) = Cardinality(Arrays(j)) + 1
    BY <1>5, <2>2
  <2>4. Cardinality(Ends(j + 1)) = Cardinality(Ends(j))
    BY <2>2
  <2> QED
    BY <1>3, <1>8, <1>9, <1>10, <2>3, <2>4
<1>11. CASE shape[j + 1] = "bulk"
  <2>1. shape[j + 1] \notin {"value", "error", "data"} /\ shape[j + 1] # "array"
    BY <1>11
  <2>2. Arrays(j + 1) = Arrays(j) /\ Ends(j + 1) = Ends(j)
    BY <1>4, <1>11, <2>1
  <2> QED
    BY <1>3, <1>8, <1>9, <1>11, <2>1, <2>2
<1>12. CASE shape[j + 1] \in {"value", "error", "data"}
  <2>1. shape[j + 1] # "array" /\ shape[j + 1] # "bulk"
    BY <1>12
  <2>2. Arrays(j + 1) = Arrays(j) /\ Ends(j + 1) = Ends(j) \cup {j + 1}
    BY <1>4, <1>12, <2>1
  <2>3. Cardinality(Ends(j + 1)) = Cardinality(Ends(j)) + 1
    BY <1>5, <2>2
  <2>4. Cardinality(Arrays(j + 1)) = Cardinality(Arrays(j))
    BY <2>2
  <2> QED
    BY <1>3, <1>8, <1>9, <2>1, <2>3, <2>4
<1> QED
  BY <1>6, <1>10, <1>11, <1>12 DEF Kinds

\* An answer has a first token, at which one reply is due.
LEMMA FirstDue ==
    ASSUME NEW shape \in Shapes
    PROVE  /\ shape \in Seq(Kinds) /\ Len(shape) \in Nat /\ Len(shape) > 0
           /\ DueAfter(shape, 0, <<"reply">>)
<1>1. shape \in Seq(Kinds) /\ IsReply(shape) /\ Len(shape) \in Nat
  BY SocketsAssumption, RepliesAssumption
<1>2. Due(shape, 0) = 1
  <2>1. {i \in 1..0 : shape[i] = "array"} = {}
        /\ {i \in 1..0 : shape[i] \in {"value", "error", "data"}} = {}
    OBVIOUS
  <2> QED
    BY <2>1, FS_EmptySet DEF Due
<1>3. Len(shape) # 0
  BY <1>1, <1>2 DEF IsReply
<1> QED
  BY <1>1, <1>2, <1>3 DEF DueAfter

\* The next token of an answer, read as what is due first says.
LEMMA DueAgrees ==
    ASSUME NEW shape \in Shapes, NEW j \in 0..Len(shape), j < Len(shape),
           NEW need \in Seq({"reply", "data"}), DueAfter(shape, j, need)
    PROVE  /\ need # <<>> /\ Tail(need) \in Seq({"reply", "data"})
           /\ Len(Tail(need)) = Len(need) - 1
           /\ Head(need) = "data" <=> shape[j + 1] = "data"
           /\ \A i \in 1..Len(Tail(need)) : Tail(need)[i] = "reply"
<1>1. shape \in Seq(Kinds) /\ IsReply(shape) /\ Len(shape) \in Nat /\ j \in Nat
  BY FirstDue, RepliesAssumption
<1>2. Len(need) \in Nat /\ Len(need) = Due(shape, j) /\ Due(shape, j) # 0
  BY <1>1 DEF DueAfter, IsReply
<1>3. need # <<>> /\ Len(need) >= 1
  BY <1>2
<1>4. /\ Head(need) = need[1] /\ Tail(need) \in Seq({"reply", "data"})
      /\ Len(Tail(need)) = Len(need) - 1
      /\ \A i \in 1..Len(Tail(need)) : Tail(need)[i] = need[i + 1]
  BY <1>3, HeadTailProperties
<1>5. need[1] = "data" <=> j > 0 /\ shape[j] = "bulk"
  BY <1>2, <1>3 DEF DueAfter
<1>6. shape[j + 1] = "data" <=> j + 1 > 1 /\ shape[(j + 1) - 1] = "bulk"
  <2>1. j + 1 \in 1..Len(shape)
    BY <1>1
  <2> QED
    BY <1>1, <2>1 DEF IsReply
<1>7. \A i \in 1..Len(Tail(need)) : need[i + 1] = "reply"
  <2> SUFFICES ASSUME NEW i \in 1..Len(Tail(need)) PROVE need[i + 1] = "reply"
    OBVIOUS
  <2>1. i + 1 \in 1..Len(need) /\ i + 1 # 1
    BY <1>2, <1>4
  <2>2. need[i + 1] # "data" /\ need[i + 1] \in {"reply", "data"}
    BY <2>1 DEF DueAfter
  <2> QED
    BY <2>2
<1> QED
  BY <1>1, <1>3, <1>4, <1>5, <1>6, <1>7

\* What readReply() makes of the next token is what is due after it.
LEMMA DueNext ==
    ASSUME NEW shape \in Shapes, NEW j \in 0..Len(shape), j < Len(shape),
           NEW need \in Seq({"reply", "data"}), DueAfter(shape, j, need)
    PROVE  /\ shape[j + 1] \in {"value", "error", "data"} => DueAfter(shape, j + 1, Tail(need))
           /\ shape[j + 1] = "bulk" => DueAfter(shape, j + 1, <<"data">> \o Tail(need))
           /\ shape[j + 1] = "array" => DueAfter(shape, j + 1, <<"reply", "reply">> \o Tail(need))
<1> DEFINE rest == Tail(need)
<1>1. shape \in Seq(Kinds) /\ Len(shape) \in Nat /\ j \in Nat /\ j + 1 > 0
  BY FirstDue
<1>2. /\ rest \in Seq({"reply", "data"}) /\ Len(rest) = Len(need) - 1 /\ Len(rest) \in Nat
      /\ \A i \in 1..Len(rest) : rest[i] = "reply"
  BY DueAgrees
<1>3. Len(need) = Due(shape, j) /\ Due(shape, j) \in Int
  BY <1>1, DueMoves DEF DueAfter
<1>4. Due(shape, j + 1) = Due(shape, j) + (IF shape[j + 1] = "array" THEN 1
                                           ELSE IF shape[j + 1] = "bulk" THEN 0 ELSE 0 - 1)
  BY <1>1, DueMoves
<1> HIDE DEF rest
<1>5. ASSUME shape[j + 1] \in {"value", "error", "data"} PROVE DueAfter(shape, j + 1, rest)
  BY <1>1, <1>2, <1>3, <1>4, <1>5 DEF DueAfter
<1>6. ASSUME shape[j + 1] = "bulk" PROVE DueAfter(shape, j + 1, <<"data">> \o rest)
  <2>1. /\ Len(<<"data">> \o rest) = 1 + Len(rest)
        /\ \A i \in 1..(1 + Len(rest)) :
              (<<"data">> \o rest)[i] = IF i = 1 THEN "data" ELSE rest[i - 1]
    BY <1>2
  <2>2. \A i \in 1..(1 + Len(rest)) : i # 1 => rest[i - 1] = "reply"
    <3> SUFFICES ASSUME NEW i \in 1..(1 + Len(rest)), i # 1 PROVE i - 1 \in 1..Len(rest)
      BY <1>2
    <3> QED
      BY <1>2
  <2>3. \A i \in 1..(1 + Len(rest)) : (<<"data">> \o rest)[i] = "data" <=> i = 1
    BY <2>1, <2>2
  <2>4. Len(<<"data">> \o rest) = Due(shape, j + 1)
    BY <1>2, <1>3, <1>4, <1>6, <2>1
  <2> QED
    BY <1>1, <1>6, <2>1, <2>3, <2>4 DEF DueAfter
<1>7. ASSUME shape[j + 1] = "array" PROVE DueAfter(shape, j + 1, <<"reply", "reply">> \o rest)
  <2>1. /\ Len(<<"reply", "reply">> \o rest) = 2 + Len(rest)
        /\ \A i \in 1..(2 + Len(rest)) :
              (<<"reply", "reply">> \o rest)[i] = IF i <= 2 THEN "reply" ELSE rest[i - 2]
    BY <1>2
  <2>2. \A i \in 1..(2 + Len(rest)) : ~ i <= 2 => rest[i - 2] = "reply"
    <3> SUFFICES ASSUME NEW i \in 1..(2 + Len(rest)), ~ i <= 2 PROVE i - 2 \in 1..Len(rest)
      BY <1>2
    <3> QED
      BY <1>2
  <2>3. \A i \in 1..(2 + Len(rest)) : (<<"reply", "reply">> \o rest)[i] = "reply"
    BY <2>1, <2>2
  <2>4. Len(<<"reply", "reply">> \o rest) = Due(shape, j + 1)
    BY <1>2, <1>3, <1>4, <1>7, <2>1
  <2> QED
    BY <1>1, <1>7, <2>1, <2>3, <2>4 DEF DueAfter
<1> QED
  BY <1>5, <1>6, <1>7 DEF rest

-----------------------------------------------------------------------------
(* Trusted connections stay clean: what is quiet, and the script's steps   *)

\* The types of a connection, and whose it is.
LEMMA CleanType ==
    ASSUME NetInv, NEW c \in Redis, Trusted(c)
    PROVE  /\ c \in Clients /\ c \notin Tcp /\ FdOf(c) = conns[c].fd /\ conns[c].fd \in Fds
           /\ Sock(c) \in Used /\ Sock(c).owner = c /\ Open(conns[c].fd)
           /\ Sock(c).up \in Seq(Piece) /\ Sock(c).down \in Seq(Token)
           /\ conns[c].buf \in Seq(Token)
<1>1. /\ c \in Clients /\ c \notin Tcp /\ FdOf(c) = conns[c].fd
      /\ conns[c].fd \in Fds /\ conns[c].buf \in Seq(Token)
  BY SocketsAssumption DEF Clients, FdOf, Trusted, NetInv, TypeOK
<1>2. Sock(c).owner = c /\ Sock(c) \in Socket
  BY <1>1 DEF NetInv, DescriptorIsOwn, Trusted, TypeOK, Sock
<1>3. Sock(c) # Unused /\ Sock(c) \in Used
  BY <1>1, <1>2, SocketsAssumption DEF Unused, Socket
<1>4. Open(conns[c].fd)
  BY <1>1, <1>3 DEF Open, Sock
<1>5. Sock(c).up \in Seq(Piece) /\ Sock(c).down \in Seq(Token)
  BY <1>3 DEF Used
<1> QED
  BY <1>1, <1>2, <1>3, <1>4, <1>5

\* A connection that was quiet, and that a step does not touch.
LEMMA QuietKept ==
    ASSUME SessionInv, NEW d \in Redis, Trusted(d)', d \notin torn, call.by # d,
           conns'[d] = conns[d], fds'[conns[d].fd] = fds[conns[d].fd]
    PROVE  Quiet(d)'
<1>1. Quiet(d)
  BY DEF SessionInv, CleanInv, Trusted
<1> QED
  BY <1>1 DEF Quiet, Sock

\* Whom c does not hit when it works on its descriptor keeps its own socket.
LEMMA UnhitKept ==
    ASSUME SessionInv, NEW c \in Clients, NEW d \in Redis, d # c, call.by # d,
           Trusted(d)', torn \subseteq torn' \cup {c}, Hit(c) \subseteq torn',
           conns'[d] = conns[d],
           \A f \in Fds : f # FdOf(c) => fds'[f] = fds[f]
    PROVE  Quiet(d)'
<1>1. d \notin torn /\ d \notin Hit(c) /\ conns[d].fd # NoFd
  BY DEF Trusted
<1>2. d \in Clients /\ FdOf(d) = conns[d].fd
  BY DEF Clients, FdOf
<1>3. FdOf(d) \in Fds /\ FdOf(d) # FdOf(c)
  BY <1>1, <1>2, SharersAreHit DEF SessionInv, NetInv
<1> QED
  BY <1>1, <1>2, <1>3, QuietKept

\* The same for a client that opens a new descriptor.
LEMMA UnhitByOpening ==
    ASSUME SessionInv, NEW c \in Clients, NEW d \in Redis, d # c, call.by # d,
           Trusted(d)', torn \subseteq torn' \cup {c}, Hit(c) \subseteq torn',
           conns'[d] = conns[d], NEW new \in Fds, Lowest(Closed(FdOf(c)), new),
           fds' = [Closed(FdOf(c)) EXCEPT ![new] = New(c)]
    PROVE  Quiet(d)'
<1>1. d \notin torn /\ d \notin Hit(c) /\ conns[d].fd # NoFd
  BY DEF Trusted
<1>2. d \in Clients /\ FdOf(d) = conns[d].fd
  BY DEF Clients, FdOf
<1>3. /\ FdOf(d) \in Fds /\ fds[FdOf(d)] # Unused
      /\ Closed(FdOf(c))[FdOf(d)] = fds[FdOf(d)]
  BY <1>1, <1>2, SharersAreHit DEF SessionInv, NetInv
<1>4. Closed(FdOf(c)) \in [Fds -> Socket] /\ Closed(FdOf(c))[new] = Unused
  BY TableType, FdType DEF SessionInv, NetInv, TypeOK, Lowest, Free
<1>5. fds'[FdOf(d)] = fds[FdOf(d)]
  BY <1>3, <1>4
<1> QED
  BY <1>1, <1>2, <1>5, QuietKept

\* Between calls CleanInv says that trusted connections are quiet.
LEMMA IdleIsClean ==
    ASSUME call' = Idle, \A d \in Redis : Trusted(d)' => Quiet(d)'
    PROVE  CleanInv'
<1>1. \A d \in Redis : call'.by # d
  BY SocketsAssumption DEF Idle, Clients
<1> QED
  BY <1>1 DEF CleanInv

LEMMA NobodyCalls == ASSUME call = Idle, NEW d \in Redis PROVE call.by # d
  BY SocketsAssumption DEF Idle, Clients

\* connect() of a Redis object starts with nothing read.
LEMMA ConnectClean == ASSUME SessionInv, NEW c \in Redis, Connect(c) PROVE CleanInv'
<1>1. PICK new \in Fds :
         /\ Lowest(Closed(conns[c].fd), new)
         /\ fds' = [Closed(conns[c].fd) EXCEPT ![new] = New(c)]
         /\ conns' = [conns EXCEPT ![c] = [fd |-> new, buf |-> <<>>]]
  BY DEF Connect, ConnectWith
<1>2. /\ TypeOK /\ c \in Clients /\ FdOf(c) = conns[c].fd /\ call = Idle /\ call' = Idle
      /\ torn' = (torn \ {c}) \cup Hit(c)
  BY DEF SessionInv, NetInv, Connect, ConnectWith, Clients, FdOf
<1>3. \A d \in Redis : Trusted(d)' => Quiet(d)'
  <2> SUFFICES ASSUME NEW d \in Redis, Trusted(d)' PROVE Quiet(d)'
    OBVIOUS
  <2>1. CASE d = c
    <3>1. conns'[d] = [fd |-> new, buf |-> <<>>]
      BY <1>1, <1>2, <2>1 DEF TypeOK
    <3>2. Closed(conns[c].fd) \in [Fds -> Socket]
      BY <1>2, TableType, FdType DEF TypeOK
    <3>3. fds'[new] = New(c)
      BY <1>1, <3>2
    <3> QED
      BY <3>1, <3>3 DEF Quiet, Sock, New
  <2>2. CASE d # c
    <3>1. conns'[d] = conns[d]
      BY <1>1, <1>2, <2>2 DEF TypeOK
    <3> QED
      BY <1>1, <1>2, <2>2, <3>1, NobodyCalls, UnhitByOpening
  <2> QED
    BY <2>1, <2>2
<1> QED
  BY <1>2, <1>3, IdleIsClean

\* Closing a descriptor, whatever becomes of the number, dirties nobody else's.
LEMMA ClosingClean ==
    ASSUME SessionInv, NEW c \in Clients, call = Idle, call' = Idle,
           fds' = Closed(FdOf(c)), (torn \ {c}) \cup Hit(c) \subseteq torn',
           \A d \in Redis \ {c} : conns'[d] = conns[d],
           c \in Redis => conns'[c].fd = NoFd \/ c \in torn'
    PROVE  CleanInv'
<1>1. \A d \in Redis : Trusted(d)' => Quiet(d)'
  <2> SUFFICES ASSUME NEW d \in Redis, Trusted(d)' PROVE Quiet(d)'
    OBVIOUS
  <2>1. d # c
    BY DEF Trusted
  <2>2. call.by # d
    BY NobodyCalls
  <2>3. \A f \in Fds : f # FdOf(c) => fds'[f] = fds[f]
    BY DEF Closed, SessionInv, NetInv, TypeOK
  <2>4. torn \subseteq torn' \cup {c} /\ Hit(c) \subseteq torn'
    OBVIOUS
  <2> QED
    BY <2>1, <2>2, <2>3, <2>4, UnhitKept
<1> QED
  BY <1>1, IdleIsClean

LEMMA ConnectFailsClean == ASSUME SessionInv, NEW c \in Redis, ConnectFails(c) PROVE CleanInv'
<1>1. /\ c \in Clients /\ FdOf(c) = conns[c].fd /\ call = Idle /\ call' = Idle
      /\ fds' = Closed(FdOf(c)) /\ conns' = conns
      /\ torn' = torn \cup Hit(c) \cup (IF conns[c].fd = NoFd THEN {} ELSE {c})
  BY DEF ConnectFails, Clients, FdOf
<1>2. (torn \ {c}) \cup Hit(c) \subseteq torn' /\ (conns'[c].fd = NoFd \/ c \in torn')
  BY <1>1
<1> QED
  BY <1>1, <1>2, ClosingClean

LEMMA CloseClean == ASSUME SessionInv, NEW c \in Redis, Close(c) PROVE CleanInv'
<1>1. /\ TypeOK /\ c \in Clients /\ FdOf(c) = conns[c].fd /\ call = Idle /\ call' = Idle
      /\ fds' = Closed(FdOf(c)) /\ conns' = [conns EXCEPT ![c].fd = NoFd]
      /\ torn' = (torn \ {c}) \cup Hit(c)
  BY DEF SessionInv, NetInv, Close, Clients, FdOf
<1>2. conns'[c].fd = NoFd /\ \A d \in Redis \ {c} : conns'[d] = conns[d]
  BY <1>1 DEF TypeOK
<1> QED
  BY <1>1, <1>2, ClosingClean

LEMMA DropClean == ASSUME SessionInv, NEW c \in Tcp, Drop(c, NoFd) PROVE CleanInv'
<1>1. /\ c \in Clients /\ c \notin Redis /\ FdOf(c) = socks[c] /\ call = Idle /\ call' = Idle
      /\ fds' = Closed(FdOf(c)) /\ conns' = conns
      /\ torn' = (torn \ {c}) \cup Hit(c)
  BY SocketsAssumption DEF Drop, Clients, FdOf
<1> QED
  BY <1>1, ClosingClean

\* connect() of a TcpClient.
LEMMA TcpConnectClean == ASSUME SessionInv, NEW c \in Tcp, TcpConnect(c) PROVE CleanInv'
<1>1. /\ c \in Clients /\ c \notin Redis /\ FdOf(c) = socks[c] /\ call = Idle /\ call' = Idle
      /\ conns' = conns /\ torn' = (torn \ {c}) \cup Hit(c)
  BY SocketsAssumption DEF TcpConnect, Clients, FdOf
<1>2. PICK new \in Fds :
         /\ Lowest(Closed(FdOf(c)), new)
         /\ fds' = [Closed(FdOf(c)) EXCEPT ![new] = New(c)]
  BY <1>1 DEF TcpConnect
<1>3. \A d \in Redis : Trusted(d)' => Quiet(d)'
  <2> SUFFICES ASSUME NEW d \in Redis, Trusted(d)' PROVE Quiet(d)'
    OBVIOUS
  <2>1. d # c /\ conns'[d] = conns[d] /\ torn \subseteq torn' \cup {c} /\ Hit(c) \subseteq torn'
    BY <1>1
  <2>2. call.by # d
    BY <1>1, NobodyCalls
  <2> QED
    BY <1>1, <1>2, <2>1, <2>2, UnhitByOpening
<1> QED
  BY <1>1, <1>3, IdleIsClean

\* send() and recv() of a TcpClient.
LEMMA TcpUseClean ==
    ASSUME SessionInv, NEW c \in Tcp, TcpSend(c) \/ TcpRead(c)
    PROVE  CleanInv'
<1>1. /\ TypeOK /\ c \in Clients /\ c \notin Redis /\ FdOf(c) = socks[c]
      /\ call = Idle /\ call' = Idle /\ conns' = conns /\ torn' = torn \cup Hit(c)
  BY SocketsAssumption DEF SessionInv, NetInv, TcpSend, TcpRead, Clients, FdOf
<1>2. \A f \in Fds : f # FdOf(c) => fds'[f] = fds[f]
  BY <1>1 DEF TcpSend, TcpRead, TypeOK
<1>3. \A d \in Redis : Trusted(d)' => Quiet(d)'
  <2> SUFFICES ASSUME NEW d \in Redis, Trusted(d)' PROVE Quiet(d)'
    OBVIOUS
  <2>1. d # c /\ conns'[d] = conns[d] /\ torn \subseteq torn' \cup {c} /\ Hit(c) \subseteq torn'
    BY <1>1
  <2>2. call.by # d
    BY <1>1, NobodyCalls
  <2> QED
    BY <1>1, <1>2, <2>1, <2>2, UnhitKept
<1> QED
  BY <1>1, <1>3, IdleIsClean

\* A command starts on a quiet connection.
LEMMA StartCallClean == ASSUME SessionInv, NEW c \in Redis, StartCall(c) PROVE CleanInv'
<1>1. /\ call = Idle /\ UNCHANGED <<fds, conns, torn>>
      /\ call' = [by |-> c, n |-> issued + 1, sent |-> 0, need |-> <<"reply">>, got |-> {}]
  BY DEF StartCall, Idle
<1> SUFFICES ASSUME NEW d \in Redis, Trusted(d)'
             PROVE  IF call'.by = d THEN Asking(d)' \/ Answering(d)' ELSE Quiet(d)'
  BY DEF CleanInv
<1>2. Quiet(d)
  BY <1>1, NobodyCalls DEF SessionInv, CleanInv, Trusted
<1>3. Quiet(d)'
  BY <1>1, <1>2 DEF Quiet, Sock
<1>4. ASSUME d = c PROVE Asking(d)'
  <2>1. Sent(call'.n, call'.sent) = <<>>
    BY <1>1 DEF Sent
  <2>2. /\ conns'[d].buf = <<>> /\ fds'[conns'[d].fd].down = <<>>
        /\ fds'[conns'[d].fd].up = <<>>
    BY <1>3 DEF Quiet, Sock
  <2>3. call'.need = <<"reply">> /\ call'.got = {}
    BY <1>1
  <2> QED
    BY <2>1, <2>2, <2>3 DEF Asking, Sock, Sent
<1> QED
  BY <1>1, <1>3, <1>4

-----------------------------------------------------------------------------
(* Trusted connections stay clean: the steps of a call                     *)

\* A step of a call of c: the others stay quiet, and c must be seen to.
LEMMA CallStepClean ==
    ASSUME SessionInv, call # Idle, NEW c, c = call.by,
           \A d \in Redis \ {c} : conns'[d] = conns[d],
           torn \subseteq torn',
           \/ UNCHANGED fds
           \/ Hit(c) \subseteq torn' /\ \A f \in Fds : f # FdOf(c) => fds'[f] = fds[f],
           call' = Idle \/ (call' # Idle /\ call'.by = c),
           Trusted(c)' => IF call' = Idle THEN Quiet(c)' ELSE Asking(c)' \/ Answering(c)'
    PROVE  CleanInv'
<1>1. c \in Redis /\ c \in Clients
  BY CallType DEF SessionInv, by
<1>2. ASSUME NEW d \in Redis, d # c, Trusted(d)' PROVE Quiet(d)'
  <2>1. call.by # d /\ conns'[d] = conns[d] /\ d \notin torn /\ torn \subseteq torn' \cup {c}
    BY <1>2 DEF Trusted
  <2>2. CASE UNCHANGED fds
    BY <1>2, <2>1, <2>2, QuietKept
  <2>3. CASE Hit(c) \subseteq torn' /\ \A f \in Fds : f # FdOf(c) => fds'[f] = fds[f]
    BY <1>1, <1>2, <2>1, <2>3, UnhitKept
  <2> QED
    BY <2>2, <2>3
<1>3. CASE call' = Idle
  BY <1>2, <1>3, IdleIsClean
<1>4. CASE call' # Idle /\ call'.by = c
  <2> SUFFICES ASSUME NEW d \in Redis, Trusted(d)'
               PROVE  IF call'.by = d THEN Asking(d)' \/ Answering(d)' ELSE Quiet(d)'
    BY DEF CleanInv
  <2> QED
    BY <1>2, <1>4
<1> QED
  BY <1>3, <1>4

\* Where a trusted client is in its call.
LEMMA CallIsClean ==
    ASSUME SessionInv, call # Idle, NEW c, c = call.by, conns[c].fd # NoFd, c \notin torn
    PROVE  c \in Redis /\ Trusted(c) /\ (Asking(c) \/ Answering(c))
  BY CallType DEF SessionInv, CleanInv, Trusted, by

\* One more piece of a command.
LEMMA SentMore ==
    ASSUME NEW n \in Nat, NEW k \in Nat
    PROVE  Append(Sent(n, k), [of |-> n, part |-> k + 1]) = Sent(n, k + 1)
<1>1. /\ Sent(n, k) \in Seq([of : Nat, part : Nat]) /\ Len(Sent(n, k)) = k
      /\ Sent(n, k + 1) \in Seq([of : Nat, part : Nat]) /\ Len(Sent(n, k + 1)) = k + 1
      /\ \A i \in 1..(k + 1) : Sent(n, k + 1)[i] = [of |-> n, part |-> i]
      /\ \A i \in 1..k : Sent(n, k)[i] = [of |-> n, part |-> i]
  <2>1. Sent(n, k) \in [1..k -> [of : Nat, part : Nat]]
        /\ Sent(n, k + 1) \in [1..(k + 1) -> [of : Nat, part : Nat]]
    BY DEF Sent
  <2> QED
    BY <2>1 DEF Sent
<1>2. [of |-> n, part |-> k + 1] \in [of : Nat, part : Nat]
  OBVIOUS
<1> HIDE DEF Sent
<1>3. /\ Append(Sent(n, k), [of |-> n, part |-> k + 1]) \in Seq([of : Nat, part : Nat])
      /\ Len(Append(Sent(n, k), [of |-> n, part |-> k + 1])) = k + 1
      /\ \A i \in 1..(k + 1) :
            Append(Sent(n, k), [of |-> n, part |-> k + 1])[i] = [of |-> n, part |-> i]
  BY <1>1, <1>2
<1>4. \A i \in 1..(k + 1) : Append(Sent(n, k), [of |-> n, part |-> k + 1])[i] = Sent(n, k + 1)[i]
  BY <1>1, <1>3
<1> QED
  BY <1>1, <1>3, <1>4, SeqEqual

LEMMA SendPieceClean == ASSUME SessionInv, SendPiece PROVE CleanInv'
<1>1. PICK c : c = call.by
  OBVIOUS
<1>2. /\ NetInv /\ TypeOK /\ call # Idle /\ conns' = conns /\ torn' = torn \cup Hit(c) /\ call.sent < Pieces
      /\ call' = [call EXCEPT !.sent = @ + 1]
      /\ c \in Redis /\ FdOf(c) = conns[c].fd /\ fd = conns[c].fd /\ Open(fd)
      /\ call.n \in Nat /\ call.sent \in Nat
  BY <1>1, CallType DEF SessionInv, NetInv, SendPiece, Sending, by, fd, FdOf
<1>3. call' # Idle /\ call'.by = c
  <2>1. call'.by = c /\ c # "nobody"
    BY <1>1, <1>2, CallType, SocketsAssumption DEF Clients
  <2> QED
    BY <2>1 DEF Idle
<1>4. \A f \in Fds : f # FdOf(c) => fds'[f] = fds[f]
  BY <1>2 DEF SendPiece, TypeOK
<1>5. ASSUME Trusted(c)' PROVE Asking(c)'
  <2>1. Trusted(c) /\ Asking(c)
    BY <1>1, <1>2, <1>5, CallIsClean DEF Trusted, Answering
  <2>2. /\ Sock(c) \in Used /\ conns[c].fd \in Fds
    BY <1>2, <2>1, CleanType
  <2>3. /\ call'.n = call.n /\ call'.sent = call.sent + 1
        /\ call'.need = <<"reply">> /\ call'.got = {}
    BY <1>2, <2>1, CallType DEF Asking, SessionInv
  <2>4. Append(Sent(call.n, call.sent), [of |-> call.n, part |-> call.sent + 1])
           = Sent(call'.n, call'.sent)
    BY <1>2, <2>3, SentMore
  <2>5. /\ conns[c].buf = <<>> /\ Sock(c).down = <<>>
        /\ Sock(c).up = IF Sock(c).serving THEN Sent(call.n, call.sent) ELSE <<>>
    BY <2>1 DEF Asking
  <2> HIDE DEF Sent
  <2>6. CASE Sock(c).serving
    <3>1. fds' = [fds EXCEPT ![conns[c].fd].up =
                     Append(@, [of |-> call.n, part |-> call.sent + 1])]
      BY <1>2, <2>6 DEF SendPiece, Sock
    <3>2. /\ fds'[conns[c].fd].down = Sock(c).down /\ fds'[conns[c].fd].serving = Sock(c).serving
          /\ fds'[conns[c].fd].up =
                Append(Sock(c).up, [of |-> call.n, part |-> call.sent + 1])
      BY <1>2, <2>2, <3>1 DEF TypeOK, Sock, Used
    <3> QED
      BY <1>2, <2>3, <2>4, <2>5, <2>6, <3>2 DEF Asking, Sock
  <2>7. CASE ~Sock(c).serving
    <3>1. fds' = fds
      BY <1>2, <2>7 DEF SendPiece, Sock
    <3> QED
      BY <1>2, <2>3, <2>5, <2>7, <3>1 DEF Asking, Sock
  <2> QED
    BY <2>6, <2>7
<1> QED
  <2>1. Hit(c) \subseteq torn' /\ torn \subseteq torn'
    BY <1>2
  <2>2. \A d \in Redis \ {c} : conns'[d] = conns[d]
    BY <1>2
  <2>3. Trusted(c)' => IF call' = Idle THEN Quiet(c)' ELSE Asking(c)' \/ Answering(c)'
    BY <1>3, <1>5
  <2> QED
    BY <1>1, <1>2, <1>3, <1>4, <2>1, <2>2, <2>3, CallStepClean

\* send() and recv() that fail: who keeps its trust has sent nothing yet.
LEMMA FailsClean == ASSUME SessionInv, SendFails \/ RecvFails PROVE CleanInv'
<1>1. PICK c : c = call.by
  OBVIOUS
<1>2. /\ call # Idle /\ call' = Idle /\ UNCHANGED <<fds, conns>> /\ torn \subseteq torn'
  BY DEF SendFails, Sending, RecvFails, Reading, Throws
<1>3. ASSUME Trusted(c)' PROVE Quiet(c)'
  <2>1. c \notin torn /\ conns[c].fd # NoFd
    BY <1>2, <1>3 DEF Trusted
  <2>2. SendFails /\ call.sent = 0
    BY <1>1, <1>3 DEF SendFails, RecvFails, Throws, Trusted, by
  <2>3. Asking(c)
    BY <1>1, <1>2, <2>1, <2>2, CallIsClean DEF Answering, Pieces
  <2>4. Sent(call.n, call.sent) = <<>>
    BY <2>2 DEF Sent
  <2>5. Sock(c).up = <<>> /\ Sock(c).down = <<>> /\ conns[c].buf = <<>>
    BY <2>3, <2>4 DEF Asking
  <2> QED
    BY <1>2, <2>5 DEF Quiet, Sock
<1>4. Trusted(c)' => IF call' = Idle THEN Quiet(c)' ELSE Asking(c)' \/ Answering(c)'
  BY <1>2, <1>3
<1>5. \A d \in Redis \ {c} : conns'[d] = conns[d]
  BY <1>2
<1> QED
  BY <1>1, <1>2, <1>4, <1>5, CallStepClean

\* Tokens that follow one another do so in two parts.
LEMMA FollowsParts ==
    ASSUME NEW n, NEW shape \in Shapes, NEW j \in Nat, NEW tokens \in Seq(Token),
           NEW k \in 0..Len(tokens), Follows(n, shape, j, tokens)
    PROVE  /\ Len(SubSeq(tokens, 1, k)) = k
           /\ Follows(n, shape, j, SubSeq(tokens, 1, k))
           /\ Follows(n, shape, j + k, SubSeq(tokens, k + 1, Len(tokens)))
<1>1. Len(tokens) \in Nat /\ Len(shape) \in Nat /\ k \in Nat /\ k <= Len(tokens)
  BY FirstDue
<1>2. /\ Len(SubSeq(tokens, 1, k)) = k
      /\ \A i \in 1..k : SubSeq(tokens, 1, k)[i] = tokens[i]
  <2>1. \A i \in 1..k : tokens[i] \in Token
    BY <1>1
  <2> QED
    BY <1>1, <2>1, SubSeqProperties
<1>3. /\ Len(SubSeq(tokens, k + 1, Len(tokens))) = Len(tokens) - k
      /\ \A i \in 1..(Len(tokens) - k) : SubSeq(tokens, k + 1, Len(tokens))[i] = tokens[k + i]
  <2>1. \A i \in (k + 1)..Len(tokens) : tokens[i] \in Token
    BY <1>1
  <2>2. k + 1 \in Int /\ Len(tokens) \in Int
    BY <1>1
  <2> QED
    BY <1>1, <2>1, <2>2, SubSeqProperties
<1>4. \A i \in 1..(Len(tokens) - k) :
         k + i \in 1..Len(tokens) /\ j + (k + i) = (j + k) + i
  BY <1>1
<1>5. Follows(n, shape, j, SubSeq(tokens, 1, k))
  BY <1>1, <1>2 DEF Follows
<1>6. Follows(n, shape, j + k, SubSeq(tokens, k + 1, Len(tokens)))
  <2>1. (j + k) + Len(SubSeq(tokens, k + 1, Len(tokens))) <= Len(shape)
    <3>1. j + Len(tokens) <= Len(shape)
      BY DEF Follows
    <3>2. (j + k) + (Len(tokens) - k) = j + Len(tokens)
      BY <1>1
    <3> QED
      BY <1>3, <3>1, <3>2
  <2>2. ASSUME NEW i \in 1..(Len(tokens) - k)
        PROVE  SubSeq(tokens, k + 1, Len(tokens))[i] = [kind |-> shape[(j + k) + i], of |-> n]
    <3>1. tokens[k + i] = [kind |-> shape[j + (k + i)], of |-> n]
      BY <1>4 DEF Follows
    <3> QED
      BY <1>3, <1>4, <3>1
  <2> QED
    BY <1>3, <2>1, <2>2 DEF Follows
<1> QED
  BY <1>2, <1>5, <1>6

LEMMA RecvClean == ASSUME SessionInv, Recv PROVE CleanInv'
<1>1. PICK c : c = call.by
  OBVIOUS
<1>2. /\ NetInv /\ TypeOK /\ call # Idle /\ call' = call /\ torn' = torn \cup Hit(c)
      /\ c \in Redis /\ c \in Clients /\ FdOf(c) = conns[c].fd /\ fd = conns[c].fd
      /\ conns[c].buf = <<>>
  BY <1>1, CallType DEF SessionInv, NetInv, Recv, Reading, by, fd, FdOf
<1>3. PICK k \in 1..Len(fds[fd].down) :
         /\ conns' = [conns EXCEPT ![c].buf = SubSeq(fds[fd].down, 1, k)]
         /\ fds' = [fds EXCEPT ![fd].down = SubSeq(@, k + 1, Len(@))]
  BY <1>1 DEF Recv, by
<1>4. /\ \A f \in Fds : f # FdOf(c) => fds'[f] = fds[f]
      /\ \A d \in Redis \ {c} : conns'[d] = conns[d]
      /\ conns'[c].fd = conns[c].fd /\ conns'[c].buf = SubSeq(fds[fd].down, 1, k)
  BY <1>2, <1>3 DEF TypeOK
<1>5. ASSUME Trusted(c)' PROVE Answering(c)'
  <2>1. Trusted(c) /\ (Asking(c) \/ Answering(c))
    BY <1>1, <1>2, <1>4, <1>5, CallIsClean DEF Trusted
  <2>2. Sock(c) \in Used /\ conns[c].fd \in Fds /\ Sock(c).down \in Seq(Token)
    BY <1>2, <2>1, CleanType
  <2>3. /\ Sock(c)'.up = Sock(c).up
        /\ Sock(c)'.down = SubSeq(Sock(c).down, k + 1, Len(Sock(c).down))
        /\ conns'[c].buf = SubSeq(Sock(c).down, 1, k)
        /\ k \in 1..Len(Sock(c).down) /\ k \in Nat
    <3>1. /\ fds'[fd].up = fds[fd].up
          /\ fds'[fd].down = SubSeq(fds[fd].down, k + 1, Len(fds[fd].down))
      BY <1>2, <1>3, <2>2 DEF TypeOK, Sock, Used
    <3>2. Sock(c) = fds[fd] /\ Sock(c)' = fds'[fd]
      BY <1>2, <1>4 DEF Sock
    <3>3. Len(fds[fd].down) \in Nat
      BY <2>2, <3>2
    <3> QED
      BY <1>4, <3>1, <3>2, <3>3
  <2>4. Sock(c).down # <<>>
    BY <2>3
  <2>5. Answering(c)
    BY <2>1, <2>4 DEF Asking
  <2>6. PICK shape \in Shapes : \E j \in 0..Len(shape) : AnsweredUpTo(c, shape, j)
    BY <2>5 DEF Answering
  <2>7. PICK j \in 0..Len(shape) : AnsweredUpTo(c, shape, j)
    BY <2>6
  <2>8. j \in Nat /\ Follows(call.n, shape, j, Sock(c).down)
    <3>1. j \in Nat /\ Len(conns[c].buf) = 0
      BY <1>2, <2>7, FirstDue
    <3> QED
      BY <2>7, <3>1 DEF AnsweredUpTo
  <2>9. /\ Len(conns'[c].buf) = k
        /\ Follows(call.n, shape, j, conns'[c].buf)
        /\ Follows(call.n, shape, j + k, Sock(c)'.down)
    <3>1. k \in 0..Len(Sock(c).down)
      BY <2>3
    <3> QED
      BY <2>2, <2>3, <2>8, <3>1, FollowsParts
  <2>10. AnsweredUpTo(c, shape, j)'
    BY <1>2, <2>7, <2>9 DEF AnsweredUpTo
  <2> QED
    BY <1>2, <2>3, <2>5, <2>10 DEF Answering
<1> QED
  <2>1. Hit(c) \subseteq torn' /\ torn \subseteq torn' /\ call' # Idle /\ call'.by = c
    BY <1>1, <1>2
  <2>2. Trusted(c)' => IF call' = Idle THEN Quiet(c)' ELSE Asking(c)' \/ Answering(c)'
    BY <1>5, <2>1
  <2> QED
    BY <1>1, <1>2, <1>4, <2>1, <2>2, CallStepClean

\* A trusted client that reads has its own answer before it: the next token,
\* what is due after it, and what remains.
LEMMA NextToken ==
    ASSUME SessionInv, Parsing, NEW c, c = call.by, c \notin torn, conns[c].fd # NoFd
    PROVE  /\ c \in Redis /\ Sock(c).up = <<>> /\ call.sent = Pieces
           /\ call.got \cup {token.of} = {call.n}
           /\ call.need # <<>>
           /\ Head(call.need) = "data" <=> token.kind = "data"
           /\ \E shape \in Shapes : \E j \in 0..Len(shape) :
                 /\ j < Len(shape) /\ j + 1 \in 0..Len(shape) /\ token.kind = shape[j + 1]
                 /\ DueAfter(shape, j, call.need)
                 /\ Follows(call.n, shape, j + 1, Tail(conns[c].buf))
                 /\ Follows(call.n, shape, j + 1 + Len(Tail(conns[c].buf)), Sock(c).down)
<1>1. /\ NetInv /\ c \in Redis /\ Trusted(c) /\ (Asking(c) \/ Answering(c))
      /\ conns[c].buf # <<>> /\ token = Head(conns[c].buf) /\ call # Idle
      /\ call.need \in Seq({"reply", "data"}) /\ call.need # <<>>
  BY CallIsClean, CallType DEF SessionInv, Parsing, token, by
<1>2. Answering(c) /\ conns[c].buf \in Seq(Token)
  BY <1>1, CleanType DEF Asking
<1>3. PICK shape \in Shapes : \E j \in 0..Len(shape) : AnsweredUpTo(c, shape, j)
  BY <1>2 DEF Answering
<1>4. PICK j \in 0..Len(shape) : AnsweredUpTo(c, shape, j)
  BY <1>3
<1>5. /\ DueAfter(shape, j, call.need)
      /\ Follows(call.n, shape, j, conns[c].buf)
      /\ Follows(call.n, shape, j + Len(conns[c].buf), Sock(c).down)
      /\ j \in Nat /\ Len(shape) \in Nat
  BY <1>4, FirstDue DEF AnsweredUpTo
<1>6. /\ Len(conns[c].buf) \in Nat /\ Len(conns[c].buf) >= 1
      /\ token = conns[c].buf[1]
      /\ Len(Tail(conns[c].buf)) = Len(conns[c].buf) - 1
      /\ \A i \in 1..(Len(conns[c].buf) - 1) : Tail(conns[c].buf)[i] = conns[c].buf[i + 1]
  BY <1>1, <1>2, HeadTailProperties
<1>7. /\ j < Len(shape) /\ j + 1 \in 0..Len(shape)
      /\ token = [kind |-> shape[j + 1], of |-> call.n]
  <2>1. PICK l \in Nat : l = Len(conns[c].buf) /\ l >= 1
    BY <1>6
  <2>2. j + l <= Len(shape) /\ conns[c].buf[1] = [kind |-> shape[j + 1], of |-> call.n]
    BY <1>5, <2>1 DEF Follows
  <2>3. j < Len(shape) /\ j + 1 \in 0..Len(shape)
    <3>1. j \in Nat /\ Len(shape) \in Nat
      BY <1>5
    <3> QED
      BY <2>1, <2>2, <3>1
  <2> QED
    BY <1>6, <2>2, <2>3
<1>8. j + 1 + Len(Tail(conns[c].buf)) = j + Len(conns[c].buf)
  <2>1. PICK l \in Nat : l = Len(conns[c].buf)
    BY <1>6
  <2>2. Len(Tail(conns[c].buf)) = l - 1
    BY <1>6, <2>1
  <2>3. j + 1 + (l - 1) = j + l
    <3>1. j \in Nat
      BY <1>5
    <3> QED
      BY <3>1
  <2> QED
    BY <2>1, <2>2, <2>3
<1>9. Follows(call.n, shape, j + 1, Tail(conns[c].buf))
  <2>1. (j + 1) + Len(Tail(conns[c].buf)) <= Len(shape)
    <3>1. j + Len(conns[c].buf) <= Len(shape)
      BY <1>5 DEF Follows
    <3> QED
      BY <1>8, <3>1
  <2>2. ASSUME NEW i \in 1..(Len(conns[c].buf) - 1)
        PROVE  Tail(conns[c].buf)[i] = [kind |-> shape[(j + 1) + i], of |-> call.n]
    <3>1. i + 1 \in 1..Len(conns[c].buf) /\ j + (i + 1) = (j + 1) + i
      BY <1>5, <1>6
    <3>2. conns[c].buf[i + 1] = [kind |-> shape[j + (i + 1)], of |-> call.n]
      BY <1>5, <3>1 DEF Follows
    <3> QED
      BY <1>6, <3>1, <3>2
  <2> QED
    BY <1>6, <2>1, <2>2 DEF Follows
<1>10. Head(call.need) = "data" <=> token.kind = "data"
  BY <1>1, <1>5, <1>7, DueAgrees
<1>11. Sock(c).up = <<>> /\ call.sent = Pieces /\ call.got \cup {token.of} = {call.n}
  BY <1>2, <1>7 DEF Answering
<1>12. Follows(call.n, shape, j + 1 + Len(Tail(conns[c].buf)), Sock(c).down)
  BY <1>5, <1>8
<1>13. \E k \in 0..Len(shape) :
          /\ k < Len(shape) /\ k + 1 \in 0..Len(shape) /\ token.kind = shape[k + 1]
          /\ DueAfter(shape, k, call.need)
          /\ Follows(call.n, shape, k + 1, Tail(conns[c].buf))
          /\ Follows(call.n, shape, k + 1 + Len(Tail(conns[c].buf)), Sock(c).down)
  <2>1. token.kind = shape[j + 1]
    BY <1>7
  <2> QED
    BY <1>5, <1>7, <1>9, <1>12, <2>1
<1> QED
  BY <1>1, <1>10, <1>11, <1>13

\* When nothing is due any more, nothing is on its way either.
LEMMA NothingLeft ==
    ASSUME NEW shape \in Shapes, NEW j \in 0..Len(shape), NEW n,
           NEW tokens \in Seq(Token), NEW more \in Seq(Token),
           DueAfter(shape, j, <<>>), Follows(n, shape, j, tokens),
           Follows(n, shape, j + Len(tokens), more)
    PROVE  tokens = <<>> /\ more = <<>>
<1>1. IsReply(shape) /\ Due(shape, j) = 0 /\ Len(shape) \in Nat
  BY RepliesAssumption, FirstDue DEF DueAfter
<1>2. j = Len(shape)
  BY <1>1 DEF IsReply
<1>3. Len(tokens) \in Nat /\ Len(more) \in Nat
  OBVIOUS
<1>4. Len(tokens) = 0 /\ Len(more) = 0
  BY <1>1, <1>2, <1>3 DEF Follows
<1> QED
  BY <1>4

\* What a step of the parser leaves of a trusted connection.
LEMMA TakenClean ==
    ASSUME SessionInv, Parsing, Take, NEW c, c = call.by, c \notin torn, conns[c].fd # NoFd,
           NEW need,
           \A shape \in Shapes : \A j \in 0..Len(shape) :
              j < Len(shape) /\ DueAfter(shape, j, call.need) /\ token.kind = shape[j + 1]
                 => DueAfter(shape, j + 1, need)
    PROVE  /\ conns'[c].fd = conns[c].fd /\ Sock(c)' = Sock(c) /\ Sock(c).up = <<>>
           /\ need = <<>> => conns'[c].buf = <<>> /\ Sock(c).down = <<>>
           /\ \E shape \in Shapes : \E j \in 0..Len(shape) :
                 /\ DueAfter(shape, j, need)
                 /\ Follows(call.n, shape, j, conns'[c].buf)
                 /\ Follows(call.n, shape, j + Len(conns'[c].buf), Sock(c).down)
<1>1. /\ NetInv /\ TypeOK /\ c \in Redis /\ Trusted(c) /\ Sock(c).up = <<>>
      /\ conns[c].buf # <<>>
  BY NextToken DEF SessionInv, NetInv, Trusted, Parsing, by
<1>2. /\ conns' = [conns EXCEPT ![c].buf = Tail(@)] /\ fds' = fds
  BY DEF Take, by
<1>3. conns'[c].fd = conns[c].fd /\ conns'[c].buf = Tail(conns[c].buf)
  BY <1>1, <1>2 DEF TypeOK
<1>4. Sock(c)' = Sock(c)
  BY <1>2, <1>3 DEF Sock
<1>5. conns[c].buf \in Seq(Token) /\ Sock(c).down \in Seq(Token)
  BY <1>1, CleanType
<1>6. conns'[c].buf \in Seq(Token)
  BY <1>1, <1>3, <1>5, HeadTailProperties
<1>7. \E shape \in Shapes : \E j \in 0..Len(shape) :
         /\ j < Len(shape) /\ j + 1 \in 0..Len(shape) /\ token.kind = shape[j + 1]
         /\ DueAfter(shape, j, call.need)
         /\ Follows(call.n, shape, j + 1, Tail(conns[c].buf))
         /\ Follows(call.n, shape, j + 1 + Len(Tail(conns[c].buf)), Sock(c).down)
  BY NextToken
<1>8. PICK shape \in Shapes : \E j \in 0..Len(shape) :
         /\ j < Len(shape) /\ j + 1 \in 0..Len(shape) /\ token.kind = shape[j + 1]
         /\ DueAfter(shape, j, call.need)
         /\ Follows(call.n, shape, j + 1, Tail(conns[c].buf))
         /\ Follows(call.n, shape, j + 1 + Len(Tail(conns[c].buf)), Sock(c).down)
  BY <1>7
<1>9. PICK j \in 0..Len(shape) :
         /\ j < Len(shape) /\ j + 1 \in 0..Len(shape) /\ token.kind = shape[j + 1]
         /\ DueAfter(shape, j, call.need)
         /\ Follows(call.n, shape, j + 1, Tail(conns[c].buf))
         /\ Follows(call.n, shape, j + 1 + Len(Tail(conns[c].buf)), Sock(c).down)
  BY <1>8
<1>10. /\ j + 1 \in 0..Len(shape) /\ DueAfter(shape, j + 1, need)
       /\ Follows(call.n, shape, j + 1, conns'[c].buf)
       /\ Follows(call.n, shape, (j + 1) + Len(conns'[c].buf), Sock(c).down)
  BY <1>3, <1>9
<1>11. ASSUME need = <<>> PROVE conns'[c].buf = <<>> /\ Sock(c).down = <<>>
  <2>1. DueAfter(shape, j + 1, <<>>)
    BY <1>10, <1>11
  <2> QED
    BY <1>5, <1>6, <1>10, <2>1, NothingLeft
<1> QED
  BY <1>1, <1>3, <1>4, <1>10, <1>11

\* A piece of the answer is read, and this is what is due next.
LEMMA ReadClean ==
    ASSUME SessionInv, Parsing, NEW need, Read(need),
           call.by \notin torn /\ conns[call.by].fd # NoFd =>
              \A shape \in Shapes : \A j \in 0..Len(shape) :
                 j < Len(shape) /\ DueAfter(shape, j, call.need) /\ token.kind = shape[j + 1]
                    => DueAfter(shape, j + 1, need)
    PROVE  CleanInv'
<1>1. PICK c : c = call.by
  OBVIOUS
<1>2. /\ NetInv /\ TypeOK /\ call # Idle /\ Take /\ UNCHANGED <<fds, torn>>
      /\ conns' = [conns EXCEPT ![c].buf = Tail(@)]
      /\ c \in Redis /\ c # "nobody"
      /\ call \in [by : Redis \cup {"nobody"}, n : Numbers, sent : 0..Pieces,
                   need : Seq({"reply", "data"}), got : SUBSET Nat]
  BY <1>1, CallType, SocketsAssumption DEF SessionInv, NetInv, Parsing, Read, Take, by, Clients
<1>3. IF need = <<>> THEN call' = Idle
      ELSE call' = [call EXCEPT !.need = need, !.got = call.got \cup {token.of}]
  BY DEF Read
<1>4. call' = Idle \/ (call' # Idle /\ call'.by = c)
  <2>1. ASSUME need # <<>> PROVE call'.by = c /\ call' # Idle
    <3>1. call'.by = c
      BY <1>1, <1>2, <1>3, <2>1
    <3> QED
      BY <1>2, <3>1 DEF Idle
  <2> QED
    BY <1>3, <2>1
<1>5. ASSUME Trusted(c)'
      PROVE  IF call' = Idle THEN Quiet(c)' ELSE Asking(c)' \/ Answering(c)'
  <2>1. c \notin torn /\ conns[c].fd # NoFd
    BY <1>2, <1>5 DEF Trusted, TypeOK
  <2>2. \A shape \in Shapes : \A j \in 0..Len(shape) :
           j < Len(shape) /\ DueAfter(shape, j, call.need) /\ token.kind = shape[j + 1]
              => DueAfter(shape, j + 1, need)
    BY <1>1, <2>1
  <2>3. /\ Sock(c)' = Sock(c) /\ Sock(c).up = <<>>
        /\ need = <<>> => conns'[c].buf = <<>> /\ Sock(c).down = <<>>
        /\ \E shape \in Shapes : \E j \in 0..Len(shape) :
              /\ DueAfter(shape, j, need)
              /\ Follows(call.n, shape, j, conns'[c].buf)
              /\ Follows(call.n, shape, j + Len(conns'[c].buf), Sock(c).down)
    BY <1>1, <1>2, <2>1, <2>2, TakenClean
  <2>4. call.sent = Pieces /\ call.got \cup {token.of} = {call.n}
    BY <1>1, <2>1, NextToken
  <2>5. CASE need = <<>>
    BY <1>3, <2>3, <2>5 DEF Quiet
  <2>6. CASE need # <<>>
    <3>1. /\ call'.need = need /\ call'.n = call.n /\ call'.sent = call.sent
          /\ call'.got = call.got \cup {token.of}
      BY <1>2, <1>3, <2>6
    <3>2. call' # Idle
      <4>1. call'.by = c
        BY <1>1, <1>2, <1>3, <2>6
      <4> QED
        BY <1>2, <4>1 DEF Idle
    <3>3. \E shape \in Shapes : \E j \in 0..Len(shape) : AnsweredUpTo(c, shape, j)'
      BY <2>3, <3>1 DEF AnsweredUpTo
    <3>4. Answering(c)'
      BY <2>3, <2>4, <3>1, <3>3 DEF Answering
    <3> QED
      BY <3>2, <3>4
  <2> QED
    BY <2>5, <2>6
<1>6. \A d \in Redis \ {c} : conns'[d] = conns[d]
  BY <1>2 DEF TypeOK
<1> QED
  <2>1. torn \subseteq torn' /\ UNCHANGED fds
    BY <1>2
  <2>2. Trusted(c)' => IF call' = Idle THEN Quiet(c)' ELSE Asking(c)' \/ Answering(c)'
    BY <1>5
  <2> QED
    BY <1>1, <1>2, <1>4, <1>6, <2>1, <2>2, CallStepClean

\* An error that ends the call keeps the client's trust only at the end.
LEMMA ParseFailsClean ==
    ASSUME SessionInv, Parsing, Take, NEW spoilt \in SUBSET {by}, Throws(spoilt),
           call.by \notin torn /\ conns[call.by].fd # NoFd /\ by \notin spoilt =>
              \A shape \in Shapes : \A j \in 0..Len(shape) :
                 j < Len(shape) /\ DueAfter(shape, j, call.need) /\ token.kind = shape[j + 1]
                    => DueAfter(shape, j + 1, <<>>)
    PROVE  CleanInv'
<1>1. PICK c : c = call.by
  OBVIOUS
<1>2. /\ NetInv /\ TypeOK /\ call # Idle /\ call' = Idle /\ UNCHANGED fds
      /\ torn' = torn \cup Hit(c) \cup spoilt
      /\ conns' = [conns EXCEPT ![c].buf = Tail(@)] /\ c \in Redis
  BY <1>1, CallType DEF SessionInv, NetInv, Parsing, Take, Throws, by
<1>3. ASSUME Trusted(c)' PROVE Quiet(c)'
  <2>1. c \notin torn /\ conns[c].fd # NoFd /\ c \notin spoilt
    BY <1>2, <1>3 DEF Trusted, TypeOK
  <2>2. \A shape \in Shapes : \A j \in 0..Len(shape) :
           j < Len(shape) /\ DueAfter(shape, j, call.need) /\ token.kind = shape[j + 1]
              => DueAfter(shape, j + 1, <<>>)
    BY <1>1, <2>1 DEF by
  <2>3. Sock(c)' = Sock(c) /\ Sock(c).up = <<>> /\ conns'[c].buf = <<>> /\ Sock(c).down = <<>>
    BY <1>1, <1>2, <2>1, <2>2, TakenClean
  <2> QED
    BY <2>3 DEF Quiet
<1>4. \A d \in Redis \ {c} : conns'[d] = conns[d]
  BY <1>2 DEF TypeOK
<1> QED
  <2>1. torn \subseteq torn' /\ UNCHANGED fds
    BY <1>2
  <2>2. Trusted(c)' => IF call' = Idle THEN Quiet(c)' ELSE Asking(c)' \/ Answering(c)'
    BY <1>2, <1>3
  <2> QED
    BY <1>1, <1>2, <1>4, <2>1, <2>2, CallStepClean

\* Whatever a line says, the connection stays clean or is trusted no more.
LEMMA ParsingClean ==
    ASSUME SessionInv, ReadValue \/ ReadBulk \/ ReadArray \/ ReadError \/ MisreadData \/ ReadData
    PROVE  CleanInv'
<1>1. /\ Parsing /\ call # Idle /\ call.need \in Seq({"reply", "data"}) /\ call.need # <<>>
      /\ call.by \in Redis
  BY CallType DEF SessionInv, by,
     ReadValue, ReadBulk, ReadArray, ReadError, MisreadData, ReadData, Parsing
<1>2. \A shape \in Shapes : \A j \in 0..Len(shape) :
         j < Len(shape) /\ DueAfter(shape, j, call.need) =>
            /\ shape[j + 1] \in {"value", "error", "data"} => DueAfter(shape, j + 1, Rest)
            /\ shape[j + 1] = "bulk" => DueAfter(shape, j + 1, <<"data">> \o Rest)
            /\ shape[j + 1] = "array" => DueAfter(shape, j + 1, <<"reply", "reply">> \o Rest)
  BY <1>1, DueNext DEF Rest
<1>3. ASSUME call.by \notin torn, conns[call.by].fd # NoFd
      PROVE  Head(call.need) = "data" <=> token.kind = "data"
  BY <1>1, <1>3, NextToken
<1>4. CASE ReadValue
  <2>1. Read(Rest) /\ token.kind = "value"
    BY <1>4 DEF ReadValue
  <2> QED
    BY <1>1, <1>2, <2>1, ReadClean
<1>5. CASE ReadBulk
  <2>1. Read(<<"data">> \o Rest) /\ token.kind = "bulk"
    BY <1>5 DEF ReadBulk
  <2> QED
    BY <1>1, <1>2, <2>1, ReadClean
<1>6. CASE ReadArray
  <2>1. Read(<<"reply", "reply">> \o Rest) /\ token.kind = "array"
    BY <1>6 DEF ReadArray
  <2> QED
    BY <1>1, <1>2, <2>1, ReadClean
<1>7. CASE ReadData
  <2>1. Read(Rest) /\ Head(call.need) = "data"
    BY <1>7 DEF ReadData
  <2>2. ASSUME call.by \notin torn, conns[call.by].fd # NoFd,
               NEW shape \in Shapes, NEW j \in 0..Len(shape),
               j < Len(shape), DueAfter(shape, j, call.need), token.kind = shape[j + 1]
        PROVE  DueAfter(shape, j + 1, Rest)
    <3>1. shape[j + 1] = "data"
      BY <1>3, <2>1, <2>2
    <3> QED
      BY <1>2, <2>2, <3>1
  <2> QED
    BY <1>1, <2>1, <2>2, ReadClean
<1>8. CASE ReadError
  <2>1. /\ Take /\ token.kind = "error"
        /\ Throws(IF Rest = <<>> THEN {} ELSE {by})
    BY <1>8 DEF ReadError
  <2>2. PICK spoilt \in SUBSET {by} :
           spoilt = (IF Rest = <<>> THEN {} ELSE {by}) /\ Throws(spoilt)
    BY <2>1
  <2>3. ASSUME by \notin spoilt, NEW shape \in Shapes, NEW j \in 0..Len(shape),
               j < Len(shape), DueAfter(shape, j, call.need), token.kind = shape[j + 1]
        PROVE  DueAfter(shape, j + 1, <<>>)
    <3>1. Rest = <<>>
      BY <2>2, <2>3
    <3> QED
      BY <1>2, <2>1, <2>3, <3>1
  <2> QED
    BY <1>1, <2>1, <2>2, <2>3, ParseFailsClean
<1>9. CASE MisreadData
  <2>1. Head(call.need) = "reply" /\ token.kind = "data"
    BY <1>9 DEF MisreadData
  <2>2. ~(call.by \notin torn /\ conns[call.by].fd # NoFd)
    BY <1>3, <2>1
  <2>3. CASE Read(Rest)
    BY <1>1, <2>2, <2>3, ReadClean
  <2>4. CASE Take /\ Throws({by})
    <3>1. {by} \in SUBSET {by} /\ ~(by \notin {by})
      OBVIOUS
    <3> QED
      BY <1>1, <2>2, <2>4, <3>1, ParseFailsClean
  <2> QED
    BY <1>9, <2>3, <2>4 DEF MisreadData
<1> QED
  BY <1>4, <1>5, <1>6, <1>7, <1>8, <1>9

-----------------------------------------------------------------------------
(* Trusted connections stay clean: the servers                             *)

\* A connection whose socket a step leaves alone.
LEMMA UntouchedClean ==
    ASSUME NEW d \in Redis, UNCHANGED <<conns, call, torn>>, Sock(d)' = Sock(d),
           Trusted(d) => IF call.by = d THEN Asking(d) \/ Answering(d) ELSE Quiet(d)
    PROVE  Trusted(d)' => IF call'.by = d THEN Asking(d)' \/ Answering(d)' ELSE Quiet(d)'
<1>1. Trusted(d)' <=> Trusted(d)
  BY DEF Trusted
<1>2. Quiet(d)' <=> Quiet(d)
  BY DEF Quiet
<1>3. Asking(d)' <=> Asking(d)
  BY DEF Asking
<1>4. Answering(d)' <=> Answering(d)
  BY DEF Answering, AnsweredUpTo
<1> QED
  BY <1>1, <1>2, <1>3, <1>4

\* A server answers only a client that has sent all of its command.
LEMMA ServeClean ==
    ASSUME SessionInv, NEW d \in Redis, Trusted(d), Serve(conns[d].fd), UNCHANGED <<conns, call>>
    PROVE  call'.by = d /\ Answering(d)'
<1> DEFINE f == conns[d].fd
           up == Sock(d).up
<1>1. /\ f \in Fds /\ Sock(d) \in Used /\ up \in Seq(Piece)
      /\ NetInv /\ TypeOK
  BY CleanType DEF SessionInv, NetInv
<1>2. PICK shape \in Shapes :
         fds' = [fds EXCEPT ![f].up = SubSeq(up, Pieces + 1, Len(up)),
                            ![f].down = @ \o Answer(up[1].of, shape)]
  BY DEF Serve, Sock
<1>3. Len(up) >= Pieces /\ up # <<>> /\ Len(up) \in Nat
  <2>1. Len(up) >= 2
    BY DEF Serve, Sock, Pieces
  <2>2. Len(up) \in Nat /\ Len(<<>>) = 0
    BY <1>1
  <2> QED
    BY <2>1, <2>2 DEF Pieces
<1> HIDE DEF f, up
<1>4. call.by = d /\ Asking(d)
  BY <1>3 DEF SessionInv, CleanInv, Quiet, Answering, up
<1>5. up = Sent(call.n, call.sent) /\ Sock(d).down = <<>> /\ conns[d].buf = <<>>
      /\ call.need = <<"reply">> /\ call.got = {}
  BY <1>3, <1>4 DEF Asking, up
<1>6. call # Idle /\ call.n \in Nat /\ call.sent \in 0..Pieces
  <2>1. call # Idle
    BY <1>4, NobodyCalls
  <2> QED
    BY <1>1, <2>1, CallType DEF Pieces
<1>7. Len(up) = call.sent /\ call.sent = Pieces /\ up[1].of = call.n
  <2>1. Sent(call.n, call.sent) \in [1..call.sent -> [of : Nat, part : Nat]] /\ call.sent \in Nat
    BY <1>6 DEF Sent, Pieces
  <2>2. Len(Sent(call.n, call.sent)) = call.sent
    BY <2>1
  <2>3. call.sent = Pieces
    BY <1>3, <1>5, <1>6, <2>2 DEF Pieces
  <2>4. Sent(call.n, call.sent)[1].of = call.n
    BY <2>3 DEF Sent, Pieces
  <2> QED
    BY <1>5, <2>2, <2>3, <2>4
<1>8. Sock(d)' = [Sock(d) EXCEPT !.up = SubSeq(up, Pieces + 1, Len(up)),
                                 !.down = @ \o Answer(up[1].of, shape)]
  BY <1>1, <1>2 DEF TypeOK, Sock, f
<1>9. SubSeq(up, Pieces + 1, Len(up)) = <<>>
  BY <1>1, <1>7 DEF Pieces
<1>10. /\ Answer(call.n, shape) \in Seq(Token) /\ Len(Answer(call.n, shape)) = Len(shape)
       /\ \A i \in 1..Len(shape) : Answer(call.n, shape)[i] = [kind |-> shape[i], of |-> call.n]
  <2>1. shape \in Seq(Kinds) /\ Len(shape) \in Nat /\ DOMAIN shape = 1..Len(shape)
    BY FirstDue
  <2>2. DOMAIN Answer(call.n, shape) = 1..Len(shape)
    BY <2>1 DEF Answer
  <2>3. Answer(call.n, shape) \in Seq(Token)
    BY <1>6, <2>1, AnswerType
  <2> QED
    BY <2>1, <2>2, <2>3 DEF Answer
<1>11. Sock(d)'.up = <<>> /\ Sock(d)'.down = Answer(call.n, shape)
  <2>1. <<>> \o Answer(call.n, shape) = Answer(call.n, shape)
    BY <1>10
  <2>2. /\ Sock(d)'.up = SubSeq(up, Pieces + 1, Len(up))
        /\ Sock(d)'.down = Sock(d).down \o Answer(up[1].of, shape)
    BY <1>1, <1>8 DEF Used
  <2> QED
    BY <1>5, <1>7, <1>9, <2>1, <2>2
<1>12. Follows(call.n, shape, 0, Answer(call.n, shape)) /\ Follows(call.n, shape, 0, <<>>)
  <2>1. Len(shape) \in Nat
    BY FirstDue
  <2>2. \A i \in 1..Len(shape) : 0 + i = i
    BY <2>1
  <2> HIDE DEF Answer
  <2>3. Follows(call.n, shape, 0, Answer(call.n, shape))
    BY <1>10, <2>1, <2>2 DEF Follows
  <2>4. Follows(call.n, shape, 0, <<>>)
    BY <2>1 DEF Follows
  <2> QED
    BY <2>3, <2>4
<1>13. AnsweredUpTo(d, shape, 0)'
  <2>1. DueAfter(shape, 0, call'.need)
    BY <1>5, FirstDue
  <2>2. conns'[d].buf = <<>> /\ 0 + Len(conns'[d].buf) = 0 /\ call'.n = call.n
    BY <1>5
  <2> QED
    BY <1>11, <1>12, <2>1, <2>2 DEF AnsweredUpTo
<1>14. 0 \in 0..Len(shape)
  BY FirstDue
<1> QED
  BY <1>4, <1>5, <1>7, <1>11, <1>13, <1>14 DEF Answering

\* A trusted client never sends the pieces of two commands.
LEMMA RejectClean ==
    ASSUME SessionInv, NEW d \in Redis, Trusted(d), Reject(conns[d].fd)
    PROVE  FALSE
<1> DEFINE up == Sock(d).up
<1>1. /\ up \in Seq(Piece) /\ Len(up) >= 2 /\ up[1].of # up[2].of /\ Len(up) \in Nat
  <2>1. Len(up) >= 2 /\ up[1].of # up[2].of
    BY DEF Reject, Sock, Pieces
  <2>2. up \in Seq(Piece)
    BY CleanType DEF SessionInv
  <2> QED
    BY <2>1, <2>2
<1>2. up # <<>>
  BY <1>1
<1> HIDE DEF up
<1>3. call.by = d /\ Asking(d)
  BY <1>2 DEF SessionInv, CleanInv, Quiet, Answering, up
<1>4. up = Sent(call.n, call.sent)
  BY <1>2, <1>3 DEF Asking, up
<1>5. call.sent \in Nat
  BY <1>3, NobodyCalls, CallType DEF SessionInv
<1>6. Len(Sent(call.n, call.sent)) = call.sent
  BY <1>5 DEF Sent
<1>7. 1 \in 1..call.sent /\ 2 \in 1..call.sent
  BY <1>1, <1>4, <1>5, <1>6
<1>8. Sent(call.n, call.sent)[1].of = call.n /\ Sent(call.n, call.sent)[2].of = call.n
  BY <1>7 DEF Sent
<1> QED
  BY <1>1, <1>4, <1>8

\* A server that goes away takes back the end of its answer, and no more.
LEMMA HangUpClean ==
    ASSUME SessionInv, NEW d \in Redis, Trusted(d), HangUp(conns[d].fd), UNCHANGED <<conns, call>>
    PROVE  IF call'.by = d THEN Asking(d)' \/ Answering(d)' ELSE Quiet(d)'
<1> DEFINE f == conns[d].fd
           down == Sock(d).down
<1>1. f \in Fds /\ Sock(d) \in Used /\ down \in Seq(Token) /\ NetInv /\ TypeOK
      /\ conns[d].buf \in Seq(Token)
  BY CleanType DEF SessionInv, NetInv
<1>2. PICK k \in 0..Len(down) :
         fds' = [fds EXCEPT ![f].up = <<>>, ![f].serving = FALSE,
                            ![f].down = SubSeq(@, 1, k)]
  BY DEF HangUp, Sock
<1>3. Sock(d)'.up = <<>> /\ ~Sock(d)'.serving /\ Sock(d)'.down = SubSeq(down, 1, k)
  BY <1>1, <1>2 DEF TypeOK, Sock, Used
<1> HIDE DEF f, down
<1>4. ASSUME down = <<>> PROVE SubSeq(down, 1, k) = <<>>
  <2>1. Len(down) = 0
    BY <1>4
  <2>2. k = 0
    BY <2>1
  <2> QED
    BY <1>4, <2>2
<1>5. CASE call.by # d
  <2>1. Quiet(d)
    BY <1>5 DEF SessionInv, CleanInv
  <2> QED
    BY <1>3, <1>4, <1>5, <2>1 DEF Quiet, down
<1>6. CASE call.by = d /\ Asking(d)
  <2>1. Asking(d)'
    BY <1>3, <1>4, <1>6 DEF Asking, down
  <2> QED
    BY <1>6, <2>1
<1>7. CASE call.by = d /\ Answering(d)
  <2>1. PICK shape \in Shapes : \E j \in 0..Len(shape) : AnsweredUpTo(d, shape, j)
    BY <1>7 DEF Answering
  <2>2. PICK j \in 0..Len(shape) : AnsweredUpTo(d, shape, j)
    BY <2>1
  <2>3. j + Len(conns[d].buf) \in Nat
    <3>1. Len(shape) \in Nat /\ Len(conns[d].buf) \in Nat
      BY <1>1, FirstDue
    <3> QED
      BY <3>1
  <2>4. Follows(call.n, shape, j + Len(conns[d].buf), down)
    BY <2>2 DEF AnsweredUpTo, down
  <2>5. Follows(call.n, shape, j + Len(conns[d].buf), SubSeq(down, 1, k))
    BY <1>1, <2>3, <2>4, FollowsParts
  <2>6. AnsweredUpTo(d, shape, j)'
    BY <1>3, <2>2, <2>5 DEF AnsweredUpTo
  <2>7. Answering(d)'
    BY <1>3, <1>7, <2>6 DEF Answering
  <2> QED
    BY <1>7, <2>7
<1> QED
  BY <1>5, <1>6, <1>7 DEF SessionInv, CleanInv

LEMMA ServersClean == ASSUME SessionInv, Servers PROVE CleanInv'
<1>1. PICK f \in Fds : Serve(f) \/ Reject(f) \/ HangUp(f)
  BY DEF Servers, ServerNext
<1>2. TypeOK /\ UNCHANGED <<conns, call, torn>>
  BY DEF SessionInv, NetInv, Servers
<1> SUFFICES ASSUME NEW d \in Redis, Trusted(d)'
             PROVE  IF call'.by = d THEN Asking(d)' \/ Answering(d)' ELSE Quiet(d)'
  BY DEF CleanInv
<1>3. Trusted(d) /\ conns[d].fd \in Fds
  BY <1>2, CleanType DEF Trusted, SessionInv
<1>4. CASE f # conns[d].fd
  <2>1. fds'[conns[d].fd] = fds[conns[d].fd]
    BY <1>1, <1>2, <1>3, <1>4 DEF Serve, Reject, HangUp, TypeOK
  <2>2. Sock(d)' = Sock(d)
    BY <1>2, <2>1 DEF Sock
  <2> QED
    BY <1>2, <2>2, UntouchedClean DEF SessionInv, CleanInv
<1>5. CASE f = conns[d].fd
  <2>1. CASE Serve(f)
    BY <1>2, <1>3, <1>5, <2>1, ServeClean
  <2>2. CASE Reject(f)
    BY <1>3, <1>5, <2>2, RejectClean
  <2>3. CASE HangUp(f)
    BY <1>2, <1>3, <1>5, <2>3, HangUpClean
  <2> QED
    BY <1>1, <2>1, <2>2, <2>3
<1> QED
  BY <1>4, <1>5

-----------------------------------------------------------------------------
LEMMA SessionInit == Init => SessionInv
<1> SUFFICES ASSUME Init PROVE SessionInv
  OBVIOUS
<1>1. CleanInv
  BY DEF Init, CleanInv, Trusted
<1> QED
  BY <1>1, NetInit DEF SessionInv

LEMMA SessionNext == SessionInv /\ [Next]_vars => SessionInv'
<1> SUFFICES ASSUME SessionInv, [Next]_vars PROVE SessionInv'
  OBVIOUS
<1>1. NetInv'
  BY NetNext DEF SessionInv
<1>2. CASE Script
  BY <1>1, <1>2, ConnectClean, ConnectFailsClean, CloseClean, StartCallClean, TcpConnectClean,
     DropClean, TcpUseClean DEF Script, TcpConnectFails, TcpClose, SessionInv
<1>3. CASE CallStep
  BY <1>1, <1>3, SendPieceClean, FailsClean, RecvClean, ParsingClean DEF CallStep, SessionInv
<1>4. CASE Servers
  BY <1>1, <1>4, ServersClean DEF SessionInv
<1>5. CASE UNCHANGED vars
  <2>1. UNCHANGED <<conns, call, torn>> /\ \A d \in Redis : Sock(d)' = Sock(d)
    BY <1>5 DEF vars, Sock
  <2>2. CleanInv'
    BY <2>1, UntouchedClean DEF SessionInv, CleanInv
  <2> QED
    BY <1>1, <2>2 DEF SessionInv
<1> QED
  BY <1>2, <1>3, <1>4, <1>5 DEF Next

\* On a connection it may trust, a client finds nothing but the answer to the
\* command it has sent: nothing is on its way between its calls, and what a
\* call has to read, in the buffer and behind it, is the rest of one answer.
THEOREM TrustedAreClean == Spec => []CleanInv
<1>1. SessionInv => CleanInv
  BY DEF SessionInv
<1> QED
  BY <1>1, SessionInit, SessionNext, PTL DEF Spec

-----------------------------------------------------------------------------
(* Every step is a step of Session, or none that a script could see        *)

\* Whose trust a step of c may cost: nobody's, unless c has lost its own.
LEMMA TrustBecomes ==
    ASSUME NetInv, NEW c \in Clients, NEW states,
           \A d \in Clients \ {c} : FdOf(d)' = FdOf(d),
           \A d \in Clients \ {c} : d \in torn' <=> d \in torn \cup Hit(c),
           Trust(c)' \in states
    PROVE  S!Becomes(c, states)
<1>1. ASSUME NEW d \in Clients \ {c}, Trust(d)' # Trust(d)
      PROVE  Trust(c) = "torn" /\ Trust(d)' = "torn"
  <2>1. d \in Hit(c) /\ d \notin torn /\ d \in torn' /\ FdOf(d)' # NoFd
    BY <1>1 DEF Trust
  <2>2. Open(FdOf(c)) /\ fds[FdOf(c)].owner # c
    BY <2>1 DEF Hit
  <2>3. FdOf(c) # NoFd
    BY <2>2 DEF Open, Fds, NoFd
  <2>4. c \in torn
    BY <2>2, <2>3 DEF NetInv, DescriptorIsOwn
  <2> QED
    BY <2>1, <2>3, <2>4 DEF Trust
<1>2. \A d \in Clients : Trust(d)' \in {"closed", "open", "torn"}
  BY DEF Trust
<1>3. [d \in Clients |-> Trust(d)]' \in [Clients -> {"closed", "open", "torn"}]
  BY <1>2
<1>4. \A d \in Clients : /\ [e \in Clients |-> Trust(e)]'[d] = Trust(d)'
                         /\ [e \in Clients |-> Trust(e)][d] = Trust(d)
  OBVIOUS
<1>5. S!Damage(c)
  BY <1>1, <1>4 DEF S!Damage
<1> QED
  BY <1>3, <1>4, <1>5 DEF S!Becomes

\* A client that works on its connection costs others their trust only when
\* it has lost its own, and then the step is one of Interfere.
LEMMA UseIsInterference ==
    ASSUME NetInv, NEW c \in Clients, FdOf(c) # NoFd,
           \A d \in Clients : FdOf(d)' = FdOf(d),
           torn' = torn \cup Hit(c),
           call'.by = call.by, call'.n = call.n, UNCHANGED result
    PROVE  S!Next \/ UNCHANGED S!vars
<1>1. UNCHANGED <<[by |-> call.by, n |-> call.n], result>>
  OBVIOUS
<1>2. CASE c \in torn
  <2>1. Trust(c) = "torn" /\ Trust(c)' \in {"torn"}
    BY <1>2 DEF Trust
  <2>2. \A d \in Clients \ {c} : d \in torn' <=> d \in torn \cup Hit(c)
    OBVIOUS
  <2>3. S!Becomes(c, {"torn"})
    BY <2>1, <2>2, TrustBecomes
  <2>4. S!Interfere(c)
    BY <1>1, <2>1, <2>3 DEF S!Interfere
  <2> QED
    BY <2>4 DEF S!Next
<1>3. CASE c \notin torn
  <2>1. fds[FdOf(c)].owner = c
    BY <1>3 DEF NetInv, DescriptorIsOwn
  <2>2. torn' = torn
    BY <2>1 DEF Hit
  <2>3. \A d \in Clients : Trust(d)' = Trust(d)
    BY <2>2 DEF Trust
  <2>4. UNCHANGED [d \in Clients |-> Trust(d)]
    BY <2>3
  <2> QED
    BY <1>1, <2>4 DEF S!vars
<1> QED
  BY <1>2, <1>3

\* No call runs, before and after.
LEMMA NobodyAsked ==
    ASSUME call = Idle
    PROVE  [by |-> call.by, n |-> call.n] = S!NotAsked
  BY DEF Idle, S!NotAsked

\* connect() and close().
LEMMA OpensAndCloses ==
    ASSUME NetInv, NEW c \in Clients, call = Idle, UNCHANGED <<call, result>>,
           \A d \in Clients \ {c} : FdOf(d)' = FdOf(d),
           \A d \in Clients \ {c} : d \in torn' <=> d \in torn \cup Hit(c),
           \/ FdOf(c)' # NoFd /\ c \notin torn'
           \/ FdOf(c)' = NoFd
           \/ FdOf(c) # NoFd /\ FdOf(c)' = FdOf(c) /\ c \in torn'
    PROVE  S!Next
<1>1. /\ [by |-> call.by, n |-> call.n] = S!NotAsked
      /\ UNCHANGED <<[by |-> call.by, n |-> call.n], result>>
  BY NobodyAsked
<1>2. CASE FdOf(c)' # NoFd /\ c \notin torn'
  <2>1. Trust(c)' \in {"open"}
    BY <1>2 DEF Trust
  <2>2. S!Becomes(c, {"open"})
    BY <2>1, TrustBecomes
  <2>3. S!Connect(c)
    BY <1>1, <2>2 DEF S!Connect
  <2> QED
    BY <2>3 DEF S!Next
<1>3. CASE FdOf(c)' = NoFd
  <2>1. Trust(c)' \in {"closed"}
    BY <1>3 DEF Trust
  <2>2. S!Becomes(c, {"closed"})
    BY <2>1, TrustBecomes
  <2>3. S!Close(c)
    BY <1>1, <2>2 DEF S!Close
  <2> QED
    BY <2>3 DEF S!Next
<1>4. CASE FdOf(c) # NoFd /\ FdOf(c)' = FdOf(c) /\ c \in torn'
  <2>1. Trust(c) # "closed" /\ Trust(c)' \in {"closed", "torn"}
    BY <1>4 DEF Trust
  <2>2. S!Becomes(c, {"closed", "torn"})
    BY <2>1, TrustBecomes
  <2>3. S!ConnectFails(c)
    BY <1>1, <2>1, <2>2 DEF S!ConnectFails
  <2> QED
    BY <2>3 DEF S!Next
<1> QED
  BY <1>2, <1>3, <1>4

\* The script's steps.
LEMMA ScriptImplements == ASSUME SessionInv, Script PROVE S!Next \/ UNCHANGED S!vars
<1>1. NetInv /\ TypeOK
  BY DEF SessionInv, NetInv
<1>2. ASSUME NEW c \in Redis, Connect(c) PROVE S!Next
  <2>1. PICK new \in Fds : conns' = [conns EXCEPT ![c] = [fd |-> new, buf |-> <<>>]]
    BY <1>2 DEF Connect, ConnectWith
  <2>2. c \in Clients /\ call = Idle /\ UNCHANGED <<call, result, socks>> /\ torn' = (torn \ {c}) \cup Hit(c)
    BY <1>2 DEF Connect, ConnectWith, Clients
  <2>3. FdOf(c)' = new /\ \A d \in Clients \ {c} : FdOf(d)' = FdOf(d)
    BY <1>1, <2>1, <2>2 DEF FdOf, TypeOK
  <2>4. FdOf(c)' # NoFd /\ c \notin torn'
    <3>1. c \notin Hit(c)
      BY DEF Hit
    <3> QED
      BY <2>2, <2>3, <3>1 DEF Fds, NoFd
  <2>5. \A d \in Clients \ {c} : d \in torn' <=> d \in torn \cup Hit(c)
    BY <2>2
  <2> QED
    BY <1>1, <2>2, <2>3, <2>4, <2>5, OpensAndCloses
<1>3. ASSUME NEW c \in Redis, ConnectFails(c) PROVE S!Next
  <2>1. /\ c \in Clients /\ call = Idle /\ UNCHANGED <<call, result, socks, conns>>
        /\ FdOf(c) = conns[c].fd
        /\ torn' = torn \cup Hit(c) \cup (IF conns[c].fd = NoFd THEN {} ELSE {c})
    BY <1>3 DEF ConnectFails, Clients, FdOf
  <2>2. \A d \in Clients : FdOf(d)' = FdOf(d)
    BY <2>1 DEF FdOf
  <2>3. \A d \in Clients \ {c} : d \in torn' <=> d \in torn \cup Hit(c)
    BY <2>1
  <2>4. FdOf(c)' = NoFd \/ (FdOf(c) # NoFd /\ FdOf(c)' = FdOf(c) /\ c \in torn')
    BY <2>1, <2>2
  <2> QED
    BY <1>1, <2>1, <2>2, <2>3, <2>4, OpensAndCloses
<1>4. ASSUME NEW c \in Redis, Close(c) PROVE S!Next
  <2>1. /\ c \in Clients /\ call = Idle /\ UNCHANGED <<call, result, socks>>
        /\ conns' = [conns EXCEPT ![c].fd = NoFd] /\ torn' = (torn \ {c}) \cup Hit(c)
    BY <1>4 DEF Close, Clients
  <2>2. FdOf(c)' = NoFd /\ \A d \in Clients \ {c} : FdOf(d)' = FdOf(d)
    BY <1>1, <2>1 DEF FdOf, TypeOK
  <2>3. \A d \in Clients \ {c} : d \in torn' <=> d \in torn \cup Hit(c)
    BY <2>1
  <2> QED
    BY <1>1, <2>1, <2>2, <2>3, OpensAndCloses
<1>5. ASSUME NEW c \in Redis, StartCall(c) PROVE S!Next
  <2>1. /\ c \in Clients /\ call = Idle /\ FdOf(c) # NoFd /\ UNCHANGED <<conns, socks, torn>>
        /\ call'.by = c /\ call'.n = issued + 1 /\ result' = Nothing
    BY <1>5 DEF StartCall, Clients, FdOf, Idle
  <2>2. call'.n # 0
    BY <1>1, <2>1, SocketsAssumption DEF TypeOK, Numbers
  <2>3. [by |-> call.by, n |-> call.n] = S!NotAsked /\ result' = S!NoAnswer
    BY <2>1, NobodyAsked DEF Nothing, S!NoAnswer
  <2>4. /\ [by |-> call.by, n |-> call.n]'.by = c
        /\ [by |-> call.by, n |-> call.n]'.n # 0
    BY <2>1, <2>2
  <2>5. UNCHANGED [d \in Clients |-> Trust(d)] /\ [d \in Clients |-> Trust(d)][c] # "closed"
    <3>1. \A d \in Clients : Trust(d)' = Trust(d)
      BY <2>1 DEF Trust, FdOf
    <3>2. Trust(c) # "closed"
      BY <2>1 DEF Trust
    <3> QED
      BY <2>1, <3>1, <3>2
  <2>6. S!Ask(c)
    BY <2>3, <2>4, <2>5 DEF S!Ask
  <2> QED
    BY <2>1, <2>6 DEF S!Next
<1>6. ASSUME NEW c \in Tcp, TcpConnect(c) PROVE S!Next
  <2>1. PICK new \in Fds : socks' = [socks EXCEPT ![c] = new]
    BY <1>6 DEF TcpConnect
  <2>2. /\ c \in Clients /\ c \notin Redis /\ call = Idle /\ UNCHANGED <<call, result, conns>>
        /\ torn' = (torn \ {c}) \cup Hit(c)
    BY <1>6, SocketsAssumption DEF TcpConnect, Clients
  <2>3. FdOf(c)' = new /\ \A d \in Clients \ {c} : FdOf(d)' = FdOf(d)
    BY <1>1, <2>1, <2>2 DEF FdOf, TypeOK, Clients
  <2>4. FdOf(c)' # NoFd /\ c \notin torn'
    <3>1. c \notin Hit(c)
      BY DEF Hit
    <3> QED
      BY <2>2, <2>3, <3>1 DEF Fds, NoFd
  <2>5. \A d \in Clients \ {c} : d \in torn' <=> d \in torn \cup Hit(c)
    BY <2>2
  <2> QED
    BY <1>1, <2>2, <2>3, <2>4, <2>5, OpensAndCloses
<1>7. ASSUME NEW c \in Tcp, Drop(c, NoFd) PROVE S!Next
  <2>1. /\ c \in Clients /\ c \notin Redis /\ call = Idle /\ UNCHANGED <<call, result, conns>>
        /\ socks' = [socks EXCEPT ![c] = NoFd] /\ torn' = (torn \ {c}) \cup Hit(c)
    BY <1>7, SocketsAssumption DEF Drop, Clients
  <2>2. FdOf(c)' = NoFd /\ \A d \in Clients \ {c} : FdOf(d)' = FdOf(d)
    BY <1>1, <2>1 DEF FdOf, TypeOK, Clients
  <2>3. \A d \in Clients \ {c} : d \in torn' <=> d \in torn \cup Hit(c)
    BY <2>1
  <2> QED
    BY <1>1, <2>1, <2>2, <2>3, OpensAndCloses
<1>8. ASSUME NEW c \in Tcp, TcpSend(c) \/ TcpRead(c) PROVE S!Next \/ UNCHANGED S!vars
  <2>1. /\ c \in Clients /\ FdOf(c) # NoFd /\ UNCHANGED <<conns, socks, call, result>>
        /\ torn' = torn \cup Hit(c)
    BY <1>8, SocketsAssumption DEF TcpSend, TcpRead, Clients, FdOf
  <2>2. \A d \in Clients : FdOf(d)' = FdOf(d)
    BY <2>1 DEF FdOf
  <2> QED
    BY <1>1, <2>1, <2>2, UseIsInterference
<1> QED
  BY <1>2, <1>3, <1>4, <1>5, <1>6, <1>7, <1>8 DEF Script, TcpConnectFails, TcpClose

\* A call that ends with an exception has no answer.
LEMMA ThrowsImplements ==
    ASSUME NetInv, call # Idle, NEW spoilt \in SUBSET {by}, Throws(spoilt),
           \A c \in Clients : FdOf(c)' = FdOf(c)
    PROVE  S!Next
<1>1. by \in Clients /\ call' = Idle /\ UNCHANGED result /\ torn' = torn \cup Hit(by) \cup spoilt
  BY CallType DEF Throws
<1>2. PICK c \in Clients : c = by
  BY <1>1
<1>3. \A d \in Clients \ {c} : d \in torn' <=> d \in torn \cup Hit(c)
  BY <1>1, <1>2
<1>4. Trust(c)' \in {Trust(c), "torn"}
  <2>1. c \in torn => c \in torn'
    BY <1>1
  <2>2. FdOf(c)' = FdOf(c)
    BY <1>2
  <2> QED
    BY <2>1, <2>2 DEF Trust
<1>5. S!Becomes(c, {Trust(c), "torn"})
  BY <1>3, <1>4, TrustBecomes
<1>6. [d \in Clients |-> Trust(d)][c] = Trust(c)
  BY <1>2
<1>7. /\ [by |-> call.by, n |-> call.n].by = c
      /\ [by |-> call.by, n |-> call.n]' = S!NotAsked
  BY <1>1, <1>2 DEF by, Idle, S!NotAsked
<1>8. S!Refused(c)
  BY <1>1, <1>5, <1>6, <1>7 DEF S!Refused
<1> QED
  BY <1>2, <1>8 DEF S!Next

\* A call that ends with an answer: of the command itself, on a connection
\* that its client may trust.
LEMMA ReadImplements ==
    ASSUME SessionInv, Parsing, NEW need, Read(need)
    PROVE  S!Next \/ UNCHANGED S!vars
<1>1. PICK c : c = call.by
  OBVIOUS
<1>2. /\ NetInv /\ TypeOK /\ call # Idle /\ UNCHANGED <<socks, torn>>
      /\ conns' = [conns EXCEPT ![c].buf = Tail(@)]
      /\ c \in Redis /\ c \in Clients
      /\ call \in [by : Redis \cup {"nobody"}, n : Numbers, sent : 0..Pieces,
                   need : Seq({"reply", "data"}), got : SUBSET Nat]
  BY <1>1, CallType DEF SessionInv, NetInv, Parsing, Read, Take, by
<1>3. \A d \in Clients : Trust(d)' = Trust(d)
  <2>1. \A d \in Clients : FdOf(d)' = FdOf(d)
    BY <1>2 DEF FdOf, TypeOK
  <2> QED
    BY <1>2, <2>1 DEF Trust
<1>4. UNCHANGED [d \in Clients |-> Trust(d)]
  BY <1>3
<1>5. CASE need = <<>>
  <2>1. call' = Idle /\ result' = [by |-> c, n |-> call.n, of |-> call.got \cup {token.of}]
    BY <1>1, <1>5 DEF Read, by
  <2>2. ASSUME [d \in Clients |-> Trust(d)][c] = "open" PROVE result'.of = {call.n}
    <3>1. Trust(c) = "open"
      BY <1>2, <2>2
    <3>2. c \notin torn /\ conns[c].fd # NoFd
      BY <1>2, <3>1 DEF Trust, FdOf
    <3>3. call.got \cup {token.of} = {call.n}
      BY <1>1, <3>2, NextToken
    <3> QED
      BY <2>1, <3>3
  <2>3. /\ [by |-> call.by, n |-> call.n].by = c
        /\ [by |-> call.by, n |-> call.n].n = call.n
        /\ [by |-> call.by, n |-> call.n]' = S!NotAsked
    BY <1>1, <2>1 DEF Idle, S!NotAsked
  <2>4. S!Answered(c)
    BY <1>4, <2>1, <2>2, <2>3 DEF S!Answered
  <2> QED
    BY <1>2, <2>4 DEF S!Next
<1>6. CASE need # <<>>
  <2>1. UNCHANGED result /\ call' = [call EXCEPT !.need = need, !.got = call.got \cup {token.of}]
    BY <1>6 DEF Read
  <2>2. call'.by = call.by /\ call'.n = call.n
    BY <1>2, <2>1
  <2>3. UNCHANGED [by |-> call.by, n |-> call.n]
    BY <2>2
  <2> QED
    BY <1>4, <2>1, <2>3 DEF S!vars
<1> QED
  BY <1>5, <1>6

\* The steps of a call.
LEMMA CallImplements == ASSUME SessionInv, CallStep PROVE S!Next \/ UNCHANGED S!vars
<1>1. NetInv /\ TypeOK /\ call # Idle
  BY DEF SessionInv, NetInv, CallStep, SendPiece, SendFails, Recv, RecvFails, Sending, Reading,
     ReadValue, ReadBulk, ReadArray, ReadError, MisreadData, ReadData, Parsing
<1>2. PICK c \in Clients : c = by /\ c \in Redis /\ FdOf(c) = fd
  BY <1>1, CallType
<1>3. CASE SendPiece \/ Recv
  <2>1. /\ torn' = torn \cup Hit(c) /\ UNCHANGED <<socks, result>> /\ Open(fd)
        /\ call'.by = call.by /\ call'.n = call.n
    BY <1>1, <1>2, <1>3, CallType DEF SendPiece, Recv
  <2>2. FdOf(c) # NoFd
    BY <1>2, <2>1 DEF Open, Fds, NoFd
  <2>3. \A d \in Clients : FdOf(d)' = FdOf(d)
    <3>1. \A d \in Redis : conns'[d].fd = conns[d].fd
      <4>1. conns' = conns \/ \E buf : conns' = [conns EXCEPT ![by].buf = buf]
        BY <1>3 DEF SendPiece, Recv
      <4>2. ASSUME NEW buf, conns' = [conns EXCEPT ![by].buf = buf], NEW d \in Redis
            PROVE  conns'[d].fd = conns[d].fd
        BY <1>1, <4>2 DEF TypeOK
      <4> QED
        BY <4>1, <4>2
    <3> QED
      BY <2>1, <3>1 DEF FdOf
  <2> QED
    BY <1>1, <2>1, <2>2, <2>3, UseIsInterference
<1>4. CASE SendFails \/ RecvFails
  <2>1. PICK spoilt \in SUBSET {by} : Throws(spoilt)
    BY <1>4 DEF SendFails, RecvFails
  <2>2. \A d \in Clients : FdOf(d)' = FdOf(d)
    BY <1>4, <2>1 DEF SendFails, RecvFails, Throws, FdOf
  <2> QED
    BY <1>1, <2>1, <2>2, ThrowsImplements
<1>5. ASSUME Parsing, Take, NEW spoilt \in SUBSET {by}, Throws(spoilt) PROVE S!Next
  <2>1. \A d \in Redis : conns'[d].fd = conns[d].fd
    BY <1>1, <1>5 DEF Take, TypeOK
  <2>2. \A d \in Clients : FdOf(d)' = FdOf(d)
    BY <1>5, <2>1 DEF Throws, FdOf
  <2> QED
    BY <1>1, <1>5, <2>2, ThrowsImplements
<1>6. CASE ReadValue \/ ReadBulk \/ ReadArray \/ ReadData
  <2>1. Parsing /\ \E need : Read(need)
    BY <1>6 DEF ReadValue, ReadBulk, ReadArray, ReadData
  <2> QED
    BY <2>1, ReadImplements
<1>7. CASE ReadError
  <2>1. Parsing /\ Take /\ \E spoilt \in SUBSET {by} : Throws(spoilt)
    BY <1>7 DEF ReadError
  <2> QED
    BY <1>5, <2>1
<1>8. CASE MisreadData
  <2>1. Parsing /\ (\/ Take /\ \E spoilt \in SUBSET {by} : Throws(spoilt)
                    \/ \E need : Read(need))
    BY <1>8 DEF MisreadData
  <2> QED
    BY <1>5, <2>1, ReadImplements
<1> QED
  BY <1>3, <1>4, <1>6, <1>7, <1>8 DEF CallStep

\* At the start nobody has a connection and nothing is asked.
LEMMA InitImplements == Init => S!Init
<1> SUFFICES ASSUME Init PROVE S!Init
  OBVIOUS
<1>1. \A c \in Clients : Trust(c) = "closed"
  BY DEF Init, Trust, FdOf, Clients
<1>2. [c \in Clients |-> Trust(c)] = [c \in Clients |-> "closed"]
  BY <1>1
<1>3. [by |-> call.by, n |-> call.n] = S!NotAsked
  BY NobodyAsked DEF Init
<1>4. result = S!NoAnswer
  BY DEF Init, Nothing, S!NoAnswer
<1> QED
  BY <1>2, <1>3, <1>4 DEF S!Init

LEMMA NextImplements == SessionInv /\ [Next]_vars => [S!Next]_(S!vars)
<1> SUFFICES ASSUME SessionInv, [Next]_vars PROVE S!Next \/ UNCHANGED S!vars
  OBVIOUS
<1>1. CASE Servers \/ UNCHANGED vars
  <2>1. UNCHANGED <<conns, socks, call, result, torn>>
    BY <1>1 DEF Servers, vars
  <2>2. \A d \in Clients : Trust(d)' = Trust(d)
    BY <2>1 DEF Trust, FdOf
  <2>3. UNCHANGED [d \in Clients |-> Trust(d)] /\ UNCHANGED [by |-> call.by, n |-> call.n]
    BY <2>1, <2>2
  <2> QED
    BY <2>1, <2>3 DEF S!vars
<1> QED
  BY <1>1, ScriptImplements, CallImplements DEF Next

\* The clients keep the promise of module Session: on a connection it trusts,
\* what a call returns is the answer to its own command, and nothing costs a
\* client its trust but a failure of its own or the work of one that has lost it.
THEOREM KeepsThePromise == Spec => ImplementsSession
<1>1. Init => S!Init
  BY InitImplements
<1>2. SessionInv /\ [Next]_vars => [S!Next]_(S!vars)
  BY NextImplements
<1> QED
  BY <1>1, <1>2, SessionInit, SessionNext, PTL DEF Spec, ImplementsSession, S!Spec
=============================================================================
