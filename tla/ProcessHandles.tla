--------------------------- MODULE ProcessHandles ---------------------------
(***************************************************************************)
(* The streaming processes of ProcessModule: process_spawn() forks a child *)
(* and keeps it under a handle, with its process id and the interpreter's  *)
(* ends of its three pipes; the other process_ functions are system calls  *)
(* on one handle, which block the script.  No descriptor is close-on-exec, *)
(* so a child inherits the pipe ends of the handles spawned before it.     *)
(* Data is counted in lines.  The children and the pipes belong to the     *)
(* operating system.                                                       *)
(***************************************************************************)
EXTENDS Naturals

CONSTANTS
    Handles,       \* what process_spawn() returns; each is spawned at most once
    Filters,       \* the handles of filters: copy stdin to stdout until its end;
                   \* the others write their lines without reading, then exit
    Pids,          \* process ids
    KillsReaped,   \* whether the script kills what it has already waited for
    PipeSize,      \* what the kernel keeps in a pipe
    ReadSize,      \* sizeof(buf)
    MaxInput,      \* bound: lines written to a child
    MaxOutput      \* bound: lines a child that is no filter writes

Streams == {"in", "out", "err"}
Ends    == {"exited", "sigkill", "sigpipe"}

ASSUME ProcessHandlesAssumption ==
    /\ Filters \subseteq Handles
    /\ KillsReaped \in BOOLEAN
    /\ Pids # {}
    /\ PipeSize \in Nat \ {0} /\ ReadSize \in Nat \ {0}
    /\ MaxInput \in Nat /\ MaxOutput \in Nat

VARIABLES
    call,      \* the system call the script is in: [op, h, left]
    fds,       \* handle |-> the pipe ends the interpreter has open
    buf,       \* handle |-> lines in stdout_buf
    pid,       \* handle |-> pid
    status,    \* handle |-> "open", or how its process ended, once reaped
    taken,     \* handle |-> lines returned to the script
    eof,       \* the handles whose end of output the script was told
    asked,     \* the handles the script has killed
    pipe,      \* handle |-> stream |-> lines in the pipe; of stdin and stdout
    fed,       \* handle |-> lines ever written to its stdin
    wrote,     \* handle |-> lines ever written to its stdout
    proc,      \* handle |-> "unused", "running", how it ended, or "reaped"
    inherits   \* handle |-> the pipe ends its process got by fork()

script == <<call, fds, buf, pid, status, taken, eof, asked>>
world  == <<pipe, fed, wrote, proc, inherits>>
vars   == <<call, fds, buf, pid, status, taken, eof, asked, pipe, fed, wrote, proc, inherits>>

Least(m, n) == IF m <= n THEN m ELSE n
Room(h, s)  == PipeSize - pipe[h][s]
NoCall      == [op |-> "none"]
Idle        == call = NoCall
In(op, h)   == call.op = op /\ call.h = h
Spawned(h)  == proc[h] # "unused"
Alive(h)    == proc[h] = "running"

Init ==
    /\ call = NoCall
    /\ fds = [h \in Handles |-> {}]
    /\ buf = [h \in Handles |-> 0]
    /\ pid \in [Handles -> {CHOOSE p \in Pids : TRUE}]
    /\ status = [h \in Handles |-> "open"]
    /\ taken = [h \in Handles |-> 0]
    /\ eof = {} /\ asked = {}
    /\ pipe = [h \in Handles |-> [s \in {"in", "out"} |-> 0]]
    /\ fed = [h \in Handles |-> 0]
    /\ wrote = [h \in Handles |-> 0]
    /\ proc = [h \in Handles |-> "unused"]
    /\ inherits = [h \in Handles |-> [g \in Handles |-> {}]]

-----------------------------------------------------------------------------
(* The script's calls. *)

\* A process id is in use until its process is reaped.
Owner(p) == {h \in Handles : Spawned(h) /\ proc[h] # "reaped" /\ pid[h] = p}

\* fork() copies every pipe end the interpreter has open into the child, which
\* closes only those of its own pipes.
Spawn(h) ==
    /\ Idle /\ ~Spawned(h)
    /\ \E p \in Pids : Owner(p) = {} /\ pid' = [pid EXCEPT ![h] = p]
    /\ proc' = [proc EXCEPT ![h] = "running"]
    /\ inherits' = [inherits EXCEPT ![h] = fds]
    /\ fds' = [fds EXCEPT ![h] = Streams]
    /\ UNCHANGED <<call, buf, status, taken, eof, asked, pipe, fed, wrote>>

\* process_write_stdin(); it throws when stdin is closed.
StartWrite(h) ==
    /\ Idle /\ "in" \in fds[h]
    /\ \E n \in 1..MaxInput - fed[h] : call' = [op |-> "write", h |-> h, left |-> n]
    /\ UNCHANGED <<fds, buf, pid, status, taken, eof, asked, world>>

\* write() blocks until the child has made room for everything.
Write(h) ==
    /\ In("write", h) /\ Alive(h) /\ Room(h, "in") > 0
    /\ LET n == Least(Room(h, "in"), call.left)
       IN  /\ pipe' = [pipe EXCEPT ![h]["in"] = @ + n]
           /\ fed' = [fed EXCEPT ![h] = @ + n]
           /\ call' = IF n = call.left THEN NoCall ELSE [call EXCEPT !.left = @ - n]
    /\ UNCHANGED <<fds, buf, pid, status, taken, eof, asked, wrote, proc, inherits>>

\* The child is dead: the interpreter, which does not ignore SIGPIPE, dies too.
DieOfSigpipe(h) ==
    /\ In("write", h) /\ ~Alive(h)
    /\ call' = [op |-> "died"]
    /\ fds' = [g \in Handles |-> {}]
    /\ UNCHANGED <<buf, pid, status, taken, eof, asked, world>>

\* process_read_stdout_line()
StartRead(h) ==
    /\ Idle /\ Spawned(h)
    /\ call' = [op |-> "read", h |-> h, left |-> 0]
    /\ UNCHANGED <<fds, buf, pid, status, taken, eof, asked, world>>

\* Mutant: the rest of the buffer is erased with the line.
ReturnLineErasingAll(h) ==
    /\ In("read", h) /\ buf[h] > 0
    /\ buf' = [buf EXCEPT ![h] = 0]
    /\ taken' = [taken EXCEPT ![h] = @ + 1]
    /\ call' = NoCall
    /\ UNCHANGED <<fds, pid, status, eof, asked, world>>

ReturnLine(h) ==
    /\ In("read", h) /\ buf[h] > 0
    /\ buf' = [buf EXCEPT ![h] = @ - 1]
    /\ taken' = [taken EXCEPT ![h] = @ + 1]
    /\ call' = NoCall
    /\ UNCHANGED <<fds, pid, status, eof, asked, world>>

\* The empty string: there is nothing left and there never will be.
ReturnEof(h) ==
    /\ In("read", h) /\ buf[h] = 0 /\ "out" \notin fds[h]
    /\ eof' = eof \cup {h}
    /\ call' = NoCall
    /\ UNCHANGED <<fds, buf, pid, status, taken, asked, world>>

\* What read() gave; nothing is the end of the stream.
ReadFinding(h, n) ==
    /\ IF n > 0 THEN UNCHANGED fds ELSE fds' = [fds EXCEPT ![h] = @ \ {"out"}]
    /\ buf' = [buf EXCEPT ![h] = @ + n]
    /\ pipe' = [pipe EXCEPT ![h]["out"] = @ - n]

\* Mutant: the descriptor does not block, and an empty pipe is taken for the end.
ReadWithoutBlocking(h) ==
    /\ In("read", h) /\ buf[h] = 0 /\ "out" \in fds[h]
    /\ ReadFinding(h, Least(ReadSize, pipe[h]["out"]))
    /\ UNCHANGED <<call, pid, status, taken, eof, asked, fed, wrote, proc, inherits>>

\* read() blocks until there is data, or nobody is left to write any: the end,
\* at which the descriptor is closed.
Read(h) ==
    /\ In("read", h) /\ buf[h] = 0 /\ "out" \in fds[h]
    /\ pipe[h]["out"] > 0 \/ ~Alive(h)
    /\ ReadFinding(h, Least(ReadSize, pipe[h]["out"]))
    /\ UNCHANGED <<call, pid, status, taken, eof, asked, fed, wrote, proc, inherits>>

\* Mutant: the child's stdin is not closed before the wait.
StartWaitKeepingStdin(h) ==
    /\ Idle /\ Spawned(h) /\ status[h] = "open"
    /\ call' = [op |-> "wait", h |-> h, left |-> 0]
    /\ UNCHANGED <<fds, buf, pid, status, taken, eof, asked, world>>

\* process_wait() closes the child's stdin first; on a handle already reaped
\* it returns what it returned before.
StartWait(h) ==
    /\ Idle /\ Spawned(h) /\ status[h] = "open"
    /\ call' = [op |-> "wait", h |-> h, left |-> 0]
    /\ fds' = [fds EXCEPT ![h] = @ \ {"in"}]
    /\ UNCHANGED <<buf, pid, status, taken, eof, asked, world>>

\* waitpid() blocks until the child is dead; then its pipes are closed, with
\* the output the script has not read.
Reap(h) ==
    /\ In("wait", h) /\ proc[h] \in Ends
    /\ proc' = [proc EXCEPT ![h] = "reaped"]
    /\ status' = [status EXCEPT ![h] = proc[h]]
    /\ fds' = [fds EXCEPT ![h] = {}]
    /\ call' = NoCall
    /\ UNCHANGED <<buf, pid, taken, eof, asked, pipe, fed, wrote, inherits>>

\* Mutant: the id is that of an empty handle, -1, which names every process.
KillEveryone(h) ==
    /\ Idle /\ Spawned(h) /\ (status[h] = "open" \/ KillsReaped)
    /\ asked' = asked \cup {h}
    /\ proc' = [g \in Handles |-> IF Alive(g) THEN "sigkill" ELSE proc[g]]
    /\ UNCHANGED <<call, fds, buf, pid, status, taken, eof, pipe, fed, wrote, inherits>>

\* process_kill() signals whatever has the handle's process id by now.
Kill(h) ==
    /\ Idle /\ Spawned(h) /\ (status[h] = "open" \/ KillsReaped)
    /\ asked' = asked \cup {h}
    /\ proc' = [g \in Handles |-> IF g \in Owner(pid[h]) /\ Alive(g) THEN "sigkill" ELSE proc[g]]
    /\ UNCHANGED <<call, fds, buf, pid, status, taken, eof, pipe, fed, wrote, inherits>>

Start(h)  == Spawn(h) \/ StartWrite(h) \/ StartRead(h) \/ StartWait(h) \/ Kill(h)
GoOn(h)   == Write(h) \/ DieOfSigpipe(h) \/ ReturnLine(h) \/ ReturnEof(h) \/ Read(h) \/ Reap(h)

-----------------------------------------------------------------------------
(* The children. *)

\* A pipe end is open somewhere: in the interpreter or in a child that got it.
HeldByChild(h, s) == \E g \in Handles : Alive(g) /\ s \in inherits[g][h]
Held(h, s)        == s \in fds[h] \/ HeldByChild(h, s)

Consumed(h) == fed[h] - pipe[h]["in"]

ChildRead(h) ==
    /\ Alive(h) /\ h \in Filters
    /\ pipe[h]["in"] > 0 /\ wrote[h] = Consumed(h)
    /\ pipe' = [pipe EXCEPT ![h]["in"] = @ - 1]
    /\ UNCHANGED <<script, fed, wrote, proc, inherits>>

Pending(h) == wrote[h] < IF h \in Filters THEN Consumed(h) ELSE MaxOutput

ChildWrite(h) ==
    /\ Alive(h) /\ Pending(h) /\ Held(h, "out") /\ Room(h, "out") > 0
    /\ pipe' = [pipe EXCEPT ![h]["out"] = @ + 1]
    /\ wrote' = [wrote EXCEPT ![h] = @ + 1]
    /\ UNCHANGED <<script, fed, proc, inherits>>

ChildSigpipe(h) ==
    /\ Alive(h) /\ Pending(h) /\ ~Held(h, "out")
    /\ proc' = [proc EXCEPT ![h] = "sigpipe"]
    /\ UNCHANGED <<script, pipe, fed, wrote, inherits>>

ChildExit(h) ==
    /\ Alive(h) /\ ~Pending(h)
    /\ h \in Filters => pipe[h]["in"] = 0 /\ ~Held(h, "in")
    /\ proc' = [proc EXCEPT ![h] = "exited"]
    /\ UNCHANGED <<script, pipe, fed, wrote, inherits>>

Child(h) == ChildRead(h) \/ ChildWrite(h) \/ ChildSigpipe(h) \/ ChildExit(h)

Next == \E h \in Handles : Start(h) \/ GoOn(h) \/ Child(h)

\* The scheduler runs the interpreter and the children; a script need not make
\* another call.
Spec == /\ Init /\ [][Next]_vars
        /\ \A h \in Handles : WF_vars(GoOn(h)) /\ WF_vars(Child(h))

-----------------------------------------------------------------------------
(* Properties. *)

\* Every variable has its type; a process id names one process at a time.
TypeOK ==
    /\ call.op \in {"none", "died", "write", "read", "wait"}
    /\ \A h \in Handles :
          /\ fds[h] \subseteq Streams
          /\ pid[h] \in Pids
          /\ status[h] \in Ends \cup {"open"}
          /\ (status[h] # "open") = (proc[h] = "reaped")
          /\ proc[h] \in Ends \cup {"unused", "running", "reaped"}
          /\ pipe[h] \in [{"in", "out"} -> 0..PipeSize]
          /\ {buf[h], taken[h], wrote[h]} \subseteq Nat /\ fed[h] \in 0..MaxInput
    /\ eof \subseteq Handles /\ asked \subseteq Handles
    /\ \A g, h \in Handles : g \in Owner(pid[h]) /\ h \in Owner(pid[h]) => g = h

\* process_read_stdout_line(): "Empty string at EOF".  Until the handle is
\* waited for, which throws away what was not read, the script is told so only
\* when it has every line the child ever wrote, and the child is over.
EofIsHonest ==
    \A h \in eof : status[h] = "open" /\ call.op # "died" =>
                       taken[h] = wrote[h] /\ proc[h] \in Ends

\* Lines are neither lost nor made up on their way, as long as the handle is
\* open.
LinesKept ==
    \A h \in Handles : status[h] = "open" => taken[h] + buf[h] + pipe[h]["out"] = wrote[h]

\* process_kill(): "Send a signal to the spawned process", and to no other.
KilledAsAsked == \A h \in Handles : proc[h] = "sigkill" => h \in asked

\* process_wait() returns, unless some other child has inherited the stdin of
\* the one waited for, or its output, which nobody reads now, fills the pipe.
WaitHeldUpOnlyByHeirs ==
    \A h \in Handles :
        <>[]In("wait", h) => <>[](HeldByChild(h, "in") \/ Room(h, "out") = 0)

=============================================================================
