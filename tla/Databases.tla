----------------------------- MODULE Databases -----------------------------
(***************************************************************************)
(* SQLite, MariaDBConnection and MemcachedConnection: what each keeps for  *)
(* an object, and the handles of the client libraries, which stay open     *)
(* until they are closed, whoever still knows of them.                     *)
(***************************************************************************)
EXTENDS Identity

VARIABLES
    library,    \* handle |-> what it is of, whether it is open, and its state
    dbs,        \* SQLite: dbs_, key |-> handle or 0
    clients,    \* MariaDB: connection_map_, key |-> connection, connected
    memcs,      \* Memcached: connection_map_, key |-> memc or 0
    over        \* whether the process goes on, is locked or has crashed

dbVars == <<dbs, clients, memcs, over>>

States   == {"new", "used", "pinned"}
Handle   == [of : Classes \cup {"input", "upscaler"}, open : BOOLEAN, state : States]
NoClient == [conn |-> 0, connected |-> FALSE]

DatabasesTypeOK ==
    /\ library \in Seq(Handle)
    /\ dbs \in [Keys -> Nat] /\ memcs \in [Keys -> Nat]
    /\ clients \in [Keys -> [conn : Nat, connected : BOOLEAN]]
    /\ over \in {"no", "locked", "crashed"}

DatabasesInit ==
    /\ library = <<>>
    /\ dbs = [k \in Keys |-> 0] /\ memcs = [k \in Keys |-> 0]
    /\ clients = [k \in Keys |-> NoClient]
    /\ over = "no"

\* A library gives out a new handle.
Opened(lib, class, state) == Append(lib, [of |-> class, open |-> TRUE, state |-> state])
NextHandle(lib)           == Len(lib) + 1

\* What a close function of a library does; 0 is the null pointer.
Closed(lib, h) == IF h = 0 THEN lib ELSE [lib EXCEPT ![h].open = FALSE]

\* sqlite3_close() refuses while a statement is not finalized.
SqliteClosed(lib, h) == IF h # 0 /\ lib[h].state = "pinned" THEN lib ELSE Closed(lib, h)

-----------------------------------------------------------------------------
(* SQLite. *)

SqliteNew == Make("SQLite") /\ UNCHANGED <<library, dbVars>>

\* Mutant: the old handle is not closed.
SqliteOpenOver(o) ==
    /\ Is(o, "SQLite") /\ Identify(o)
    /\ library' = Opened(library, "SQLite", "used")
    /\ dbs' = [dbs EXCEPT ![Key(o)] = NextHandle(library)]
    /\ UNCHANGED <<clients, memcs, over>>

SqliteOpen(o) ==
    /\ Is(o, "SQLite") /\ Identify(o)
    /\ library' = Opened(SqliteClosed(library, dbs[Key(o)]), "SQLite", "used")
    /\ dbs' = [dbs EXCEPT ![Key(o)] = NextHandle(library)]
    /\ UNCHANGED <<clients, memcs, over>>

\* The old database is closed, and the new one does not open.
SqliteOpenFails(o) ==
    /\ Is(o, "SQLite") /\ Identify(o)
    /\ library' = SqliteClosed(library, dbs[Key(o)])
    /\ dbs' = [dbs EXCEPT ![Key(o)] = 0]
    /\ UNCHANGED <<clients, memcs, over>>

SqliteClose(o) ==
    /\ Is(o, "SQLite") /\ Identify(o) /\ dbs[Key(o)] # 0
    /\ library' = SqliteClosed(library, dbs[Key(o)])
    /\ dbs' = [dbs EXCEPT ![Key(o)] = 0]
    /\ UNCHANGED <<clients, memcs, over>>

\* isOpen(), and any method of an object that has no database: the number is
\* all they write.
SqliteIsOpen(o) == Is(o, "SQLite") /\ Identify(o) /\ UNCHANGED <<library, dbVars>>

\* exec() or query() with parameters that are no array: bindParams() throws
\* and the statement is never finalized.
SqliteBadParams(o) ==
    /\ Is(o, "SQLite") /\ Identify(o) /\ dbs[Key(o)] # 0
    /\ library' = [library EXCEPT ![dbs[Key(o)]].state = "pinned"]
    /\ UNCHANGED dbVars

-----------------------------------------------------------------------------
(* MariaDBConnection. *)

\* disconnect(), which is all that the destructor of a client does.
Disconnected(lib, c) == IF c.connected THEN Closed(lib, c.conn) ELSE lib

\* The constructor, by `new` and by the script: a client for a key, in place
\* of the one that was there.
Construct(k) ==
    LET lib == Disconnected(library, clients[k])
    IN  /\ library' = Opened(lib, "MariaDBConnection", "new")
        /\ clients' = [clients EXCEPT ![k] = [conn |-> NextHandle(lib), connected |-> FALSE]]
        /\ UNCHANGED <<dbs, memcs, over>>

MariaNew == Make("MariaDBConnection") /\ Construct(stamps)
MariaConstruct(o) == Is(o, "MariaDBConnection") /\ Identify(o) /\ Construct(Key(o))

\* connect(): the handle is made again if a failure has taken it.
MariaConnect(o) ==
    LET c    == clients[Key(o)]
        lib  == IF c.conn = 0 THEN Opened(library, "MariaDBConnection", "new") ELSE library
        conn == IF c.conn = 0 THEN NextHandle(library) ELSE c.conn
    IN  /\ Is(o, "MariaDBConnection") /\ Identify(o) /\ ~c.connected
        /\ library' = [lib EXCEPT ![conn].state = "used"]
        /\ clients' = [clients EXCEPT ![Key(o)] = [conn |-> conn, connected |-> TRUE]]
        /\ UNCHANGED <<dbs, memcs, over>>

MariaConnectFails(o) ==
    /\ Is(o, "MariaDBConnection") /\ Identify(o) /\ ~clients[Key(o)].connected
    /\ library' = Closed(library, clients[Key(o)].conn)
    /\ clients' = [clients EXCEPT ![Key(o)] = NoClient]
    /\ UNCHANGED <<dbs, memcs, over>>

\* connect() on a connected client holds client_mutex and calls disconnect(),
\* which takes it again.
MariaConnectAgain(o) ==
    /\ Is(o, "MariaDBConnection") /\ Identify(o) /\ clients[Key(o)].connected
    /\ over' = "locked"
    /\ UNCHANGED <<library, dbs, clients, memcs>>

MariaDisconnect(o) ==
    /\ Is(o, "MariaDBConnection") /\ Identify(o) /\ clients[Key(o)].connected
    /\ library' = Disconnected(library, clients[Key(o)])
    /\ clients' = [clients EXCEPT ![Key(o)] = NoClient]
    /\ UNCHANGED <<dbs, memcs, over>>

-----------------------------------------------------------------------------
(* MemcachedConnection. *)

\* The constructor connects: the old client goes first.
Attach(k) ==
    LET lib == Closed(library, memcs[k])
    IN  /\ \/ /\ library' = Opened(lib, "MemcachedConnection", "used")
              /\ memcs' = [memcs EXCEPT ![k] = NextHandle(lib)]
           \/ /\ library' = lib
              /\ memcs' = [memcs EXCEPT ![k] = 0]
        /\ UNCHANGED <<dbs, clients, over>>

\* A constructor that fails throws, and the script has no object: an object
\* that it does not use.
MemcachedNew == Make("MemcachedConnection") /\ Attach(stamps)
MemcachedConstruct(o) == Is(o, "MemcachedConnection") /\ Identify(o) /\ Attach(Key(o))

MemcachedDisconnect(o) ==
    /\ Is(o, "MemcachedConnection") /\ Identify(o) /\ memcs[Key(o)] # 0
    /\ library' = Closed(library, memcs[Key(o)])
    /\ memcs' = [memcs EXCEPT ![Key(o)] = 0]
    /\ UNCHANGED <<dbs, clients, over>>

-----------------------------------------------------------------------------
DatabaseCall(o) ==
    \/ SqliteOpen(o) \/ SqliteOpenFails(o) \/ SqliteClose(o) \/ SqliteIsOpen(o)
    \/ SqliteBadParams(o)
    \/ MariaConstruct(o) \/ MariaConnect(o) \/ MariaConnectFails(o)
    \/ MariaConnectAgain(o) \/ MariaDisconnect(o)
    \/ MemcachedConstruct(o) \/ MemcachedDisconnect(o)

DatabaseNew == SqliteNew \/ MariaNew \/ MemcachedNew
=============================================================================
