----------------------------- MODULE ProcessRun -----------------------------
(***************************************************************************)
(* process_run() and process_check(): ProcessModule::pumpStdio feeds a     *)
(* forked child through one pipe and drains it through two, in a select()  *)
(* loop with an optional deadline.  Every system call is a step, and the   *)
(* child runs between any two of them.  Amounts are counted in units of    *)
(* data.  The child, the clock and the pipes are the operating system's.   *)
(***************************************************************************)
EXTENDS Naturals

CONSTANTS
    Input,      \* the size of options.stdin; 0 when there is none
    Timeout,    \* options.timeout_sec; 0 when there is none
    Check,      \* process_check() rather than process_run()
    PipeSize,   \* what the kernel keeps in a pipe
    ReadSize,   \* sizeof(buf)
    Program,    \* "any" child, or a "filter": copies stdin to stdout, then exits
    Closes,     \* the streams the child may close before it exits
    MaxOutput   \* bound: what the child writes to each stream

Streams  == {"in", "out", "err"}
Outputs  == {"out", "err"}
Statuses == {"exit0", "exit1", "sigkill", "sigpipe"}

ASSUME ProcessRunAssumption ==
    /\ Input \in Nat /\ Timeout \in Nat /\ Check \in BOOLEAN
    /\ PipeSize \in Nat \ {0} /\ ReadSize \in Nat \ {0}
    /\ Program \in {"any", "filter"} /\ Closes \subseteq Streams
    /\ MaxOutput \in Nat

VARIABLES
    pc,       \* where pumpStdio is: the system call it is about to make or is in
    fds,      \* the pipe ends the interpreter has open
    ready,    \* what the last select() reported
    unfed,    \* what is left of options.stdin
    got,      \* stream |-> what was captured of it
    late,     \* the deadline has ended the loop
    outcome,  \* what the script gets: a status, or "throws"
    now,      \* seconds since the start, up to Timeout
    pipe,     \* stream |-> what its pipe holds
    wrote,    \* stream |-> what was ever written to it at the child's end
    cfds,     \* the streams open at the child's end
    child     \* "running", its exit status, or "reaped"

parent == <<pc, fds, ready, unfed, got, late, outcome>>
world  == <<now, pipe, wrote, cfds, child>>
vars   == <<pc, fds, ready, unfed, got, late, outcome, now, pipe, wrote, cfds, child>>

Least(m, n) == IF m <= n THEN m ELSE n
Room(s)     == PipeSize - pipe[s]

\* doRun() has forked the child; without input its stdin is closed at once.
Init ==
    /\ pc = "deadline"
    /\ fds = Outputs \cup (IF Input > 0 THEN {"in"} ELSE {})
    /\ ready = {} /\ unfed = Input
    /\ got = [s \in Outputs |-> 0]
    /\ late = FALSE /\ outcome = "none"
    /\ now = 0
    /\ pipe = [s \in Streams |-> 0]
    /\ wrote = [s \in Outputs |-> 0]
    /\ cfds = Streams /\ child = "running"

-----------------------------------------------------------------------------
(* The interpreter. *)

Expired == Timeout > 0 /\ now >= Timeout

\* The loop runs while an output is open, and until the deadline.
CheckDeadline ==
    /\ pc = "deadline" /\ fds \cap Outputs # {} /\ ~Expired
    /\ pc' = "select"
    /\ UNCHANGED <<fds, ready, unfed, got, late, outcome, world>>

\* What a child killed or exited leaves behind may keep its streams open.
Dies(status) ==
    /\ child' = IF child = "running" THEN status ELSE child
    /\ cfds' \in IF Program = "any" THEN SUBSET cfds ELSE {{}}

\* A stream with data, or at its end, can be read; a pipe with room, or
\* without a reader, can be written.
Ready == {s \in fds \cap Outputs : pipe[s] > 0 \/ s \notin cfds}
         \cup {s \in fds \cap {"in"} : Room(s) > 0 \/ s \notin cfds}

\* Mutant: a SIGTERM, which the child may ignore.
KillLateGently ==
    /\ Expired
    /\ \/ pc = "deadline" /\ fds \cap Outputs # {}
       \/ pc = "select" /\ Ready = {}
    /\ late' = TRUE
    /\ pc' = "close"
    /\ UNCHANGED <<fds, ready, unfed, got, outcome, world>>

\* kill(SIGKILL): before select() when no time is left, or when it times out.
KillLate ==
    /\ Expired
    /\ \/ pc = "deadline" /\ fds \cap Outputs # {}
       \/ pc = "select" /\ Ready = {}
    /\ late' = TRUE
    /\ Dies("sigkill")
    /\ pc' = "close"
    /\ UNCHANGED <<fds, ready, unfed, got, outcome, now, pipe, wrote>>

Select ==
    /\ pc = "select" /\ Ready # {}
    /\ ready' = Ready
    /\ pc' = "out"
    /\ UNCHANGED <<fds, unfed, got, late, outcome, world>>

\* Mutant: a read that does not fill the buffer is taken for the last one.
ReadOutputUpToShort(s, next) ==
    LET n == Least(ReadSize, pipe[s])
    IN  /\ pc = s
        /\ IF s \in ready
           THEN /\ got' = [got EXCEPT ![s] = @ + n]
                /\ pipe' = [pipe EXCEPT ![s] = @ - n]
                /\ fds' = IF n < ReadSize THEN fds \ {s} ELSE fds
           ELSE UNCHANGED <<got, pipe, fds>>
        /\ pc' = next
        /\ UNCHANGED <<ready, unfed, late, outcome, now, wrote, cfds, child>>

\* One read() of a stream select() reported; at its end it is closed.
ReadOutput(s, next) ==
    LET n == Least(ReadSize, pipe[s])
    IN  /\ pc = s
        /\ IF s \in ready
           THEN /\ got' = [got EXCEPT ![s] = @ + n]
                /\ pipe' = [pipe EXCEPT ![s] = @ - n]
                /\ fds' = IF n = 0 THEN fds \ {s} ELSE fds
           ELSE UNCHANGED <<got, pipe, fds>>
        /\ pc' = next
        /\ UNCHANGED <<ready, unfed, late, outcome, now, wrote, cfds, child>>

SkipFeeding ==
    /\ pc = "in" /\ "in" \notin ready
    /\ pc' = "deadline"
    /\ UNCHANGED <<fds, ready, unfed, got, late, outcome, world>>

StartFeeding ==
    /\ pc = "in" /\ "in" \in ready
    /\ pc' = "write"
    /\ UNCHANGED <<fds, ready, unfed, got, late, outcome, world>>

\* Mutant: the stream is closed after a write that did not take everything.
WriteOnce ==
    /\ pc = "write" /\ "in" \in cfds /\ Room("in") > 0
    /\ LET n == Least(Room("in"), unfed)
       IN  /\ pipe' = [pipe EXCEPT !["in"] = @ + n]
           /\ unfed' = unfed - n
           /\ pc' = "deadline" /\ fds' = fds \ {"in"}
    /\ UNCHANGED <<ready, got, late, outcome, now, wrote, cfds, child>>

\* One write() of all the rest: the pipe end is blocking, so the call returns
\* only when the child has made room for everything.
Write ==
    /\ pc = "write" /\ "in" \in cfds /\ Room("in") > 0
    /\ LET n == Least(Room("in"), unfed)
       IN  /\ pipe' = [pipe EXCEPT !["in"] = @ + n]
           /\ unfed' = unfed - n
           /\ IF unfed = n
              THEN pc' = "deadline" /\ fds' = fds \ {"in"}
              ELSE UNCHANGED <<pc, fds>>
    /\ UNCHANGED <<ready, got, late, outcome, now, wrote, cfds, child>>

\* Nobody reads the child's stdin: the interpreter, which does not ignore
\* SIGPIPE, dies in write().
DieOfSigpipe ==
    /\ pc = "write" /\ "in" \notin cfds
    /\ pc' = "died" /\ fds' = {}
    /\ UNCHANGED <<ready, unfed, got, late, outcome, world>>

\* Both outputs are at their end.
LoopEnds ==
    /\ pc = "deadline" /\ fds \cap Outputs = {}
    /\ pc' = "close"
    /\ UNCHANGED <<fds, ready, unfed, got, late, outcome, world>>

\* Mutant: the stdin of the child stays open.
CloseAllButStdin ==
    /\ pc = "close"
    /\ fds' = fds \cap {"in"}
    /\ pc' = "waitpid"
    /\ UNCHANGED <<ready, unfed, got, late, outcome, world>>

CloseAll ==
    /\ pc = "close"
    /\ fds' = {}
    /\ pc' = "waitpid"
    /\ UNCHANGED <<ready, unfed, got, late, outcome, world>>

\* waitpid() blocks until the child is dead; process_check() throws unless it
\* exited with code 0.
Reap ==
    /\ pc = "waitpid" /\ child \in Statuses
    /\ child' = "reaped"
    /\ outcome' = IF Check /\ child # "exit0" THEN "throws" ELSE child
    /\ pc' = "returned"
    /\ UNCHANGED <<fds, ready, unfed, got, late, now, pipe, wrote, cfds>>

Interpreter ==
    \/ CheckDeadline \/ KillLate \/ Select
    \/ ReadOutput("out", "err") \/ ReadOutput("err", "in")
    \/ SkipFeeding \/ StartFeeding \/ Write \/ DieOfSigpipe
    \/ LoopEnds \/ CloseAll \/ Reap

-----------------------------------------------------------------------------
(* The child, with whatever it leaves running, and the clock. *)

Consumed == Input - unfed - pipe["in"]
AtEof    == "in" \notin fds /\ pipe["in"] = 0

\* A filter writes what it has read before it reads on.
ChildRead ==
    /\ "in" \in cfds /\ pipe["in"] > 0
    /\ Program = "filter" => wrote["out"] = Consumed
    /\ pipe' = [pipe EXCEPT !["in"] = @ - 1]
    /\ UNCHANGED <<parent, now, wrote, cfds, child>>

ChildMayWrite(s) ==
    /\ s \in cfds
    /\ IF Program = "filter" THEN s = "out" /\ wrote[s] < Consumed ELSE wrote[s] < MaxOutput

ChildWrite(s) ==
    /\ ChildMayWrite(s) /\ s \in fds /\ Room(s) > 0
    /\ pipe' = [pipe EXCEPT ![s] = @ + 1]
    /\ wrote' = [wrote EXCEPT ![s] = @ + 1]
    /\ UNCHANGED <<parent, now, cfds, child>>

\* A write that nobody reads.
ChildSigpipe(s) ==
    /\ ChildMayWrite(s) /\ s \notin fds
    /\ Dies("sigpipe")
    /\ UNCHANGED <<parent, now, pipe, wrote>>

ChildClose(s) ==
    /\ Program = "any" /\ s \in cfds \cap Closes
    /\ cfds' = cfds \ {s}
    /\ UNCHANGED <<parent, now, pipe, wrote, child>>

ChildExit ==
    /\ child = "running"
    /\ Program = "filter" => AtEof /\ wrote["out"] = Consumed
    /\ \E status \in {"exit0", "exit1"} :
          (Program = "filter" => status = "exit0") /\ Dies(status)
    /\ UNCHANGED <<parent, now, pipe, wrote>>

Child == \/ ChildRead \/ ChildExit
         \/ \E s \in Outputs : ChildWrite(s) \/ ChildSigpipe(s)
         \/ \E s \in Streams : ChildClose(s)

Ended == pc \in {"returned", "died"}

Tick == /\ now < Timeout /\ ~Ended
        /\ now' = now + 1
        /\ UNCHANGED <<parent, pipe, wrote, cfds, child>>

Done == Ended /\ UNCHANGED vars

Next == Interpreter \/ Child \/ Tick \/ Done

\* The scheduler runs the interpreter and time passes; of the child, only a
\* filter is known to go on.
Spec == /\ Init /\ [][Next]_vars
        /\ WF_vars(Interpreter) /\ WF_vars(Tick)
        /\ WF_vars(Program = "filter" /\ Child)

-----------------------------------------------------------------------------
(* Properties. *)

\* Every variable has its type; and what was written to an output is either
\* captured or still in its pipe, as the input is unfed, in its pipe or read.
TypeOK ==
    /\ pc \in {"deadline", "select", "out", "err", "in", "write", "close", "waitpid",
               "returned", "died"}
    /\ fds \subseteq Streams /\ ready \subseteq Streams /\ cfds \subseteq Streams
    /\ unfed \in 0..Input /\ now \in 0..Timeout
    /\ got \in [Outputs -> Nat] /\ wrote \in [Outputs -> Nat]
    /\ pipe \in [Streams -> 0..PipeSize]
    /\ late \in BOOLEAN
    /\ outcome \in Statuses \cup {"none", "throws"}
    /\ child \in Statuses \cup {"running", "reaped"}
    /\ \A s \in Outputs : got[s] + pipe[s] = wrote[s]
    /\ Consumed \in Nat

\* A call that was not cut short returns all that was written to the child's
\* outputs, by the child and by what it left running, and nobody is left who
\* would write more and find the pipe closed.
WholeOutput == pc = "returned" /\ ~late => got = wrote /\ Outputs \cap cfds = {}

\* When a running child finds the end of its input, it has been given all of
\* options.stdin.
WholeInput == child = "running" /\ "in" \in cfds /\ AtEof => unfed = 0

\* The script goes on with no zombie and no descriptor left by the call.
NothingLeftBehind == pc = "returned" => child = "reaped" /\ fds = {}

\* If a child keeps at least one output open until it ends, a call with a
\* deadline can be held up by one thing only: a write that waits for the child
\* to read.
HeldUpOnlyByFeeding == <>Ended \/ <>[](pc = "write")

=============================================================================
