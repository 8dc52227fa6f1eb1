------------------------ MODULE ProcessHandlesProofs ------------------------
(***************************************************************************)
(* Proofs about ProcessHandles, for any handles, process ids, pipes and    *)
(* bounds.  The inductive invariant says of every line where it is, and of *)
(* an output closed in the interpreter that nothing comes after.           *)
(***************************************************************************)
EXTENDS ProcessHandles, TLAPS

\* Every variable is a function of the handles; what is still to be written
\* fits the bound, and the calls are about processes that were spawned.
Typed ==
    /\ call \in {NoCall, [op |-> "died"]}
                \cup [op : {"write", "read", "wait"}, h : Handles, left : Nat]
    /\ fds \in [Handles -> SUBSET Streams]
    /\ buf \in [Handles -> Nat] /\ taken \in [Handles -> Nat] /\ wrote \in [Handles -> Nat]
    /\ pid \in [Handles -> Pids]
    /\ status \in [Handles -> Ends \cup {"open"}]
    /\ eof \subseteq Handles /\ asked \subseteq Handles
    /\ pipe \in [Handles -> [{"in", "out"} -> 0..PipeSize]]
    /\ fed \in [Handles -> 0..MaxInput]
    /\ proc \in [Handles -> Ends \cup {"unused", "running", "reaped"}]
    /\ inherits \in [Handles -> [Handles -> SUBSET Streams]]
    /\ \A h \in Handles :
          /\ In("write", h) => call.left > 0 /\ fed[h] + call.left <= MaxInput
          /\ In("read", h) => Spawned(h)
    /\ \A h \in Handles : (status[h] # "open") = (proc[h] = "reaped")

\* A process id names one process at a time.
IdsUnique == \A g, h \in Handles : g \in Owner(pid[h]) /\ h \in Owner(pid[h]) => g = h

\* No line is lost or made up, even when nobody reads any more.
LinesCounted == \A h \in Handles : taken[h] + buf[h] + pipe[h]["out"] = wrote[h]

\* The interpreter has closed its end of an output only at the end of the
\* output, of which nothing comes after: the pipe is empty, the child over.
ClosedAtEnd ==
    \A h \in Handles :
        Spawned(h) /\ status[h] = "open" /\ call.op # "died" /\ "out" \notin fds[h] =>
            pipe[h]["out"] = 0 /\ proc[h] \in Ends

\* The script was told so when the buffer, too, was empty.
ToldAtEnd == \A h \in eof : Spawned(h) /\ "out" \notin fds[h] /\ buf[h] = 0

HandlesInv == Typed /\ IdsUnique /\ LinesCounted /\ ClosedAtEnd /\ ToldAtEnd

-----------------------------------------------------------------------------
LEMMA InitTyped == Init => HandlesInv
<1> SUFFICES ASSUME Init PROVE HandlesInv
  OBVIOUS
<1>1. (CHOOSE p \in Pids : TRUE) \in Pids
  BY ProcessHandlesAssumption
<1>2. \A h \in Handles : ~Spawned(h) /\ status[h] = "open"
  BY DEF Init, Spawned
<1>3. Typed
  BY <1>1, <1>2, ProcessHandlesAssumption DEF Init, Typed, NoCall, In, Ends, Streams
<1>4. IdsUnique
  BY <1>2 DEF IdsUnique, Owner
<1>5. LinesCounted
  <2> SUFFICES ASSUME NEW h \in Handles
               PROVE  taken[h] + buf[h] + pipe[h]["out"] = wrote[h]
    BY DEF LinesCounted
  <2>1. taken[h] = 0 /\ buf[h] = 0 /\ wrote[h] = 0
    BY DEF Init
  <2>2. pipe[h] = [s \in {"in", "out"} |-> 0]
    BY DEF Init
  <2>3. pipe[h]["out"] = 0
    BY <2>2
  <2> QED BY <2>1, <2>3
<1>6. ClosedAtEnd /\ ToldAtEnd
  BY <1>2 DEF Init, ClosedAtEnd, ToldAtEnd
<1> QED BY <1>3, <1>4, <1>5, <1>6 DEF HandlesInv

\* What read() takes is in the pipe, and it is nothing only if the pipe is empty.
LEMMA ReadTakes ==
    ASSUME Typed, NEW h \in Handles
    PROVE  /\ Least(ReadSize, pipe[h]["out"]) \in 0..pipe[h]["out"]
           /\ Least(ReadSize, pipe[h]["out"]) > 0 <=> pipe[h]["out"] > 0
BY ProcessHandlesAssumption DEF Typed, Least

\* What a step does to one stream of one process.
LEMMA PipeMoves ==
    ASSUME Typed, NEW h \in Handles, NEW s \in {"in", "out"}, NEW v \in 0..PipeSize,
           pipe' = [pipe EXCEPT ![h][s] = v]
    PROVE  /\ pipe' \in [Handles -> [{"in", "out"} -> 0..PipeSize]]
           /\ pipe'[h][s] = v
           /\ \A t \in {"in", "out"} : t # s => pipe'[h][t] = pipe[h][t]
           /\ \A g \in Handles : g # h => pipe'[g] = pipe[g]
<1>1. pipe \in [Handles -> [{"in", "out"} -> 0..PipeSize]]
  BY DEF Typed
<1>2. pipe' = [pipe EXCEPT ![h] = [pipe[h] EXCEPT ![s] = v]]
  OBVIOUS
<1>3. [pipe[h] EXCEPT ![s] = v] \in [{"in", "out"} -> 0..PipeSize]
  BY <1>1
<1> QED BY <1>1, <1>2, <1>3

LEMMA TypedKept ==
    ASSUME Typed, [Next]_vars
    PROVE  Typed'
<1> USE DEF Typed, Idle, In, NoCall, world, script
<1>1. ASSUME NEW h \in Handles, Spawn(h) PROVE Typed'
  <2>1. PICK p \in Pids : pid' = [pid EXCEPT ![h] = p]
    BY <1>1 DEF Spawn
  <2>2. call' = call /\ call = NoCall /\ status' = status /\ proc[h] = "unused"
    BY <1>1 DEF Spawn, Spawned
  <2>3. proc' = [proc EXCEPT ![h] = "running"] /\ inherits' = [inherits EXCEPT ![h] = fds]
        /\ fds' = [fds EXCEPT ![h] = Streams]
    BY <1>1 DEF Spawn
  <2>4. \A g \in Handles : (status'[g] # "open") = (proc'[g] = "reaped")
    BY <2>2, <2>3
  <2>5. \A g \in Handles : ~In("write", g)' /\ ~In("read", g)'
    BY <2>2
  <2> QED BY <1>1, <2>1, <2>2, <2>3, <2>4, <2>5 DEF Spawn
<1>2. ASSUME NEW h \in Handles, StartWrite(h) PROVE Typed'
  <2>1. PICK n \in 1..MaxInput - fed[h] : call' = [op |-> "write", h |-> h, left |-> n]
    BY <1>2 DEF StartWrite
  <2>2. n \in Nat /\ n > 0 /\ fed[h] + n <= MaxInput
    BY ProcessHandlesAssumption
  <2>3. /\ call' \in [op : {"write", "read", "wait"}, h : Handles, left : Nat]
        /\ call'.op = "write" /\ call'.h = h /\ call'.left = n
    BY <2>1, <2>2
  <2>4. UNCHANGED <<fds, buf, pid, status, taken, eof, asked, world>>
    BY <1>2 DEF StartWrite
  <2>5. \A g \in Handles : In("write", g)' => call'.left > 0 /\ fed'[g] + call'.left <= MaxInput
    BY <2>2, <2>3, <2>4
  <2>6. \A g \in Handles : ~In("read", g)'
    BY <2>3
  <2> QED BY <2>3, <2>4, <2>5, <2>6
<1>3. ASSUME NEW h \in Handles, StartRead(h) PROVE Typed'
  BY <1>3 DEF StartRead, Spawned
<1>4. ASSUME NEW h \in Handles, StartWait(h) PROVE Typed'
  BY <1>4 DEF StartWait
<1>5. ASSUME NEW h \in Handles, Kill(h) PROVE Typed'
  BY <1>5 DEF Kill, Alive, Spawned, Ends
<1>6. ASSUME NEW h \in Handles, Write(h) PROVE Typed'
  <2> DEFINE n == Least(Room(h, "in"), call.left)
  <2>1. call \in [op : {"write", "read", "wait"}, h : Handles, left : Nat] /\ call.h = h
    BY <1>6 DEF Write
  <2>2. call.left \in Nat /\ call.left > 0 /\ fed[h] + call.left <= MaxInput
    BY <1>6, <2>1 DEF Write
  <2>3. /\ pipe[h]["in"] \in Nat /\ pipe[h]["in"] <= PipeSize
        /\ fed[h] \in Nat /\ Room(h, "in") > 0
    BY <1>6, ProcessHandlesAssumption DEF Write
  <2>4. n \in Nat /\ n <= call.left /\ pipe[h]["in"] + n <= PipeSize
    BY <2>2, <2>3, ProcessHandlesAssumption DEF Least, Room
  <2>5. /\ pipe' = [pipe EXCEPT ![h]["in"] = pipe[h]["in"] + n]
        /\ fed' = [fed EXCEPT ![h] = @ + n]
        /\ call' = IF n = call.left THEN NoCall ELSE [call EXCEPT !.left = @ - n]
        /\ UNCHANGED <<fds, buf, pid, status, taken, eof, asked, wrote, proc, inherits>>
    BY <1>6 DEF Write
  <2> HIDE DEF n
  <2>6. pipe[h]["in"] + n \in 0..PipeSize
    BY <2>3, <2>4, ProcessHandlesAssumption
  <2>7. pipe' \in [Handles -> [{"in", "out"} -> 0..PipeSize]]
    BY <2>5, <2>6, PipeMoves
  <2>8. fed[h] + n \in 0..MaxInput
    BY <2>2, <2>3, <2>4, ProcessHandlesAssumption
  <2>9. fed' \in [Handles -> 0..MaxInput] /\ fed'[h] = fed[h] + n
    BY <2>5, <2>8
  <2>10. CASE n = call.left
    <3>1. call' = NoCall
      BY <2>5, <2>10
    <3> QED BY <2>5, <2>7, <2>9, <3>1 DEF Spawned
  <2>11. CASE n # call.left
    <3>1. call' = [call EXCEPT !.left = @ - n] /\ call.left - n \in Nat /\ call.left - n > 0
      <4>1. call' = [call EXCEPT !.left = @ - n]
        BY <2>5, <2>11
      <4>2. call.left - n \in Nat /\ call.left - n > 0
        <5> DEFINE m == call.left
        <5>1. m \in Nat /\ n \in Nat /\ n <= m /\ n # m
          BY <2>2, <2>4, <2>11
        <5> HIDE DEF m, Typed
        <5>2. m - n \in Nat /\ m - n > 0
          BY <5>1
        <5> QED BY <5>2 DEF m
      <4> QED BY <4>1, <4>2
    <3>2. /\ call' \in [op : {"write", "read", "wait"}, h : Handles, left : Nat]
          /\ call'.op = "write" /\ call'.h = h /\ call'.left = call.left - n
      BY <1>6, <2>1, <3>1 DEF Write
    <3>3. fed'[h] + call'.left <= MaxInput
      BY <2>2, <2>3, <2>4, <2>9, <3>2, ProcessHandlesAssumption
    <3>4. \A g \in Handles : In("write", g)' => call'.left > 0 /\ fed'[g] + call'.left <= MaxInput
      BY <3>1, <3>2, <3>3
    <3>5. \A g \in Handles : ~In("read", g)'
      BY <3>2
    <3> QED BY <2>5, <2>7, <2>9, <3>2, <3>4, <3>5
  <2> QED BY <2>10, <2>11
<1>7. ASSUME NEW h \in Handles, DieOfSigpipe(h) PROVE Typed'
  BY <1>7 DEF DieOfSigpipe
<1>8. ASSUME NEW h \in Handles, ReturnLine(h) \/ ReturnEof(h) PROVE Typed'
  <2>1. CASE ReturnLine(h)
    <3>1. buf[h] - 1 \in Nat /\ taken[h] + 1 \in Nat
      BY <2>1 DEF ReturnLine
    <3> QED BY <2>1, <3>1 DEF ReturnLine, Spawned
  <2>2. CASE ReturnEof(h)
    BY <2>2 DEF ReturnEof, Spawned
  <2> QED BY <1>8, <2>1, <2>2
<1>9. ASSUME NEW h \in Handles, Read(h) PROVE Typed'
  <2> DEFINE n == Least(ReadSize, pipe[h]["out"])
  <2>1. n \in 0..pipe[h]["out"] /\ pipe[h]["out"] \in 0..PipeSize
    BY ReadTakes
  <2>2. /\ buf' = [buf EXCEPT ![h] = @ + n]
        /\ pipe' = [pipe EXCEPT ![h]["out"] = pipe[h]["out"] - n]
        /\ fds' = fds \/ fds' = [fds EXCEPT ![h] = @ \ {"out"}]
        /\ UNCHANGED <<call, pid, status, taken, eof, asked, fed, wrote, proc, inherits>>
    BY <1>9 DEF Read, ReadFinding
  <2> HIDE DEF n
  <2>3. pipe[h]["out"] - n \in 0..PipeSize /\ buf[h] + n \in Nat
    BY <2>1, ProcessHandlesAssumption
  <2>4. pipe' \in [Handles -> [{"in", "out"} -> 0..PipeSize]]
    BY <2>2, <2>3, PipeMoves
  <2>5. fds' \in [Handles -> SUBSET Streams]
    <3>1. fds \in [Handles -> SUBSET Streams] /\ fds[h] \ {"out"} \in SUBSET Streams
      OBVIOUS
    <3> QED BY <2>2, <3>1
  <2> QED BY <2>2, <2>3, <2>4, <2>5 DEF Spawned
<1>10. ASSUME NEW h \in Handles, Reap(h) PROVE Typed'
  BY <1>10 DEF Reap, Spawned, Ends
<1>11. ASSUME NEW h \in Handles, ChildRead(h) \/ ChildWrite(h) PROVE Typed'
  <2>1. CASE ChildRead(h)
    <3>1. pipe[h]["in"] - 1 \in 0..PipeSize /\ pipe' = [pipe EXCEPT ![h]["in"] = pipe[h]["in"] - 1]
      BY <2>1, ProcessHandlesAssumption DEF ChildRead
    <3>2. pipe' \in [Handles -> [{"in", "out"} -> 0..PipeSize]]
      BY <3>1, PipeMoves
    <3> QED BY <2>1, <3>2 DEF ChildRead, Spawned
  <2>2. CASE ChildWrite(h)
    <3>1. /\ pipe[h]["out"] + 1 \in 0..PipeSize /\ wrote[h] + 1 \in Nat
          /\ pipe' = [pipe EXCEPT ![h]["out"] = pipe[h]["out"] + 1]
      BY <2>2, ProcessHandlesAssumption DEF ChildWrite, Room
    <3>2. pipe' \in [Handles -> [{"in", "out"} -> 0..PipeSize]]
      BY <3>1, PipeMoves
    <3> QED BY <2>2, <3>1, <3>2 DEF ChildWrite, Spawned
  <2> QED BY <1>11, <2>1, <2>2
<1>12. ASSUME NEW h \in Handles, ChildSigpipe(h) \/ ChildExit(h) PROVE Typed'
  <2>1. PICK e \in Ends : proc' = [proc EXCEPT ![h] = e]
    BY <1>12 DEF ChildSigpipe, ChildExit, Ends
  <2>2. UNCHANGED <<script, pipe, fed, wrote, inherits>> /\ proc[h] = "running"
    BY <1>12 DEF ChildSigpipe, ChildExit, Alive
  <2>3. e # "reaped" /\ e # "unused"
    BY DEF Ends
  <2>4. \A g \in Handles : (status'[g] # "open") = (proc'[g] = "reaped")
    BY <2>1, <2>2, <2>3
  <2>5. \A g \in Handles : Spawned(g) => Spawned(g)'
    BY <2>1, <2>3 DEF Spawned
  <2> QED BY <2>1, <2>2, <2>4, <2>5
<1>13. CASE UNCHANGED vars
  BY <1>13 DEF vars, Spawned
<1> QED BY <1>1, <1>2, <1>3, <1>4, <1>5, <1>6, <1>7, <1>8, <1>9, <1>10, <1>11, <1>12, <1>13
        DEF Next, Start, GoOn, Child

LEMMA IdsKept ==
    ASSUME Typed, IdsUnique, [Next]_vars
    PROVE  IdsUnique'
<1>1. ASSUME NEW h \in Handles, Spawn(h) PROVE IdsUnique'
  <2>1. PICK p \in Pids : Owner(p) = {} /\ pid' = [pid EXCEPT ![h] = p]
    BY <1>1 DEF Spawn
  <2>2. proc' = [proc EXCEPT ![h] = "running"]
    BY <1>1 DEF Spawn
  <2> QED BY <2>1, <2>2 DEF Typed, IdsUnique, Owner, Spawned
<1>2. ASSUME pid' = pid,
             \A g \in Handles : Spawned(g)' /\ proc'[g] # "reaped" => Spawned(g) /\ proc[g] # "reaped"
      PROVE  IdsUnique'
  BY <1>2 DEF IdsUnique, Owner
<1>3. ASSUME NEW h \in Handles, Kill(h) PROVE IdsUnique'
  BY <1>2, <1>3 DEF Kill, Typed, Spawned, Alive
<1>4. ASSUME NEW h \in Handles, Reap(h) PROVE IdsUnique'
  BY <1>2, <1>4 DEF Reap, Typed, Spawned, Ends
<1>5. ASSUME NEW h \in Handles, ChildSigpipe(h) \/ ChildExit(h) PROVE IdsUnique'
  BY <1>2, <1>5 DEF ChildSigpipe, ChildExit, script, Typed, Spawned, Alive
<1>6. ASSUME UNCHANGED <<pid, proc>> PROVE IdsUnique'
  BY <1>2, <1>6 DEF Spawned
<1>7. ASSUME NEW h \in Handles,
             \/ StartWrite(h) \/ StartRead(h) \/ StartWait(h) \/ Write(h) \/ DieOfSigpipe(h)
             \/ ReturnLine(h) \/ ReturnEof(h) \/ Read(h) \/ ChildRead(h) \/ ChildWrite(h)
      PROVE  UNCHANGED <<pid, proc>>
  BY <1>7 DEF StartWrite, StartRead, StartWait, Write, DieOfSigpipe, ReturnLine, ReturnEof,
     Read, ChildRead, ChildWrite, world, script
<1>8. CASE UNCHANGED vars
  BY <1>6, <1>8 DEF vars
<1> QED BY <1>1, <1>3, <1>4, <1>5, <1>6, <1>7, <1>8 DEF Next, Start, GoOn, Child

\* Each line moves one place at a time: from the child into the pipe, from the
\* pipe into the buffer, from the buffer to the script.
LEMMA LinesStay ==
    ASSUME Typed, LinesCounted, [Next]_vars
    PROVE  LinesCounted'
<1>1. ASSUME NEW h \in Handles, Write(h) PROVE LinesCounted'
  BY <1>1 DEF Write, Typed, LinesCounted
<1>2. ASSUME NEW h \in Handles, ReturnLine(h) PROVE LinesCounted'
  BY <1>2 DEF ReturnLine, Typed, LinesCounted, world
<1>3. ASSUME NEW h \in Handles, Read(h) PROVE LinesCounted'
  <2> DEFINE n == Least(ReadSize, pipe[h]["out"])
  <2>1. n \in Nat /\ n <= pipe[h]["out"]
    BY ReadTakes DEF Typed
  <2>2. /\ buf' = [buf EXCEPT ![h] = @ + n] /\ pipe' = [pipe EXCEPT ![h]["out"] = @ - n]
        /\ UNCHANGED <<taken, wrote>>
    BY <1>3 DEF Read, ReadFinding
  <2> HIDE DEF n
  <2> QED BY <2>1, <2>2 DEF Typed, LinesCounted
<1>4. ASSUME NEW h \in Handles, ChildRead(h) \/ ChildWrite(h) PROVE LinesCounted'
  <2>1. CASE ChildRead(h)
    <3>1. pipe[h]["in"] - 1 \in 0..PipeSize /\ pipe' = [pipe EXCEPT ![h]["in"] = pipe[h]["in"] - 1]
      BY <2>1, ProcessHandlesAssumption DEF ChildRead, Typed
    <3>2. \A g \in Handles : pipe'[g]["out"] = pipe[g]["out"]
      BY <3>1, PipeMoves
    <3> QED BY <2>1, <3>2 DEF ChildRead, LinesCounted, script
  <2>2. CASE ChildWrite(h)
    <3>1. /\ pipe[h]["out"] + 1 \in 0..PipeSize
          /\ pipe' = [pipe EXCEPT ![h]["out"] = pipe[h]["out"] + 1]
      BY <2>2, ProcessHandlesAssumption DEF ChildWrite, Room, Typed
    <3>2. /\ pipe'[h]["out"] = pipe[h]["out"] + 1
          /\ \A g \in Handles : g # h => pipe'[g]["out"] = pipe[g]["out"]
      BY <3>1, PipeMoves
    <3>3. wrote' = [wrote EXCEPT ![h] = @ + 1] /\ UNCHANGED <<taken, buf>>
      BY <2>2 DEF ChildWrite, script
    <3> QED BY <3>2, <3>3 DEF LinesCounted, Typed
  <2> QED BY <1>4, <2>1, <2>2
<1>5. ASSUME UNCHANGED <<taken, buf, pipe, wrote>> PROVE LinesCounted'
  BY <1>5 DEF LinesCounted
<1>6. ASSUME NEW h \in Handles,
             \/ Spawn(h) \/ StartWrite(h) \/ StartRead(h) \/ StartWait(h) \/ Kill(h)
             \/ DieOfSigpipe(h) \/ ReturnEof(h) \/ Reap(h) \/ ChildSigpipe(h) \/ ChildExit(h)
      PROVE  UNCHANGED <<taken, buf, pipe, wrote>>
  BY <1>6 DEF Spawn, StartWrite, StartRead, StartWait, Kill, DieOfSigpipe, ReturnEof, Reap,
     ChildSigpipe, ChildExit, world, script
<1>7. CASE UNCHANGED vars
  BY <1>5, <1>7 DEF vars
<1> QED BY <1>1, <1>2, <1>3, <1>4, <1>5, <1>6, <1>7 DEF Next, Start, GoOn, Child

\* Only a read that finds the end closes the output of an open handle, and a
\* child that is over writes no more.
LEMMA ClosedStays ==
    ASSUME Typed, ClosedAtEnd, [Next]_vars
    PROVE  ClosedAtEnd'
<1> USE DEF ClosedAtEnd, Spawned
<1>1. ASSUME NEW h \in Handles, Spawn(h) PROVE ClosedAtEnd'
  BY <1>1 DEF Spawn, Typed, Streams
<1>2. ASSUME NEW h \in Handles, StartWrite(h) \/ StartRead(h) PROVE ClosedAtEnd'
  BY <1>2 DEF StartWrite, StartRead, Idle, NoCall, world
<1>3. ASSUME NEW h \in Handles, StartWait(h) PROVE ClosedAtEnd'
  BY <1>3 DEF StartWait, Idle, NoCall, world, Typed
<1>4. ASSUME NEW h \in Handles, Kill(h) PROVE ClosedAtEnd'
  BY <1>4 DEF Kill, Typed, Alive, Ends
<1>5. ASSUME NEW h \in Handles, Write(h) PROVE ClosedAtEnd'
  BY <1>5 DEF Write, Typed, In
<1>6. ASSUME NEW h \in Handles, DieOfSigpipe(h) PROVE ClosedAtEnd'
  BY <1>6 DEF DieOfSigpipe
<1>7. ASSUME NEW h \in Handles, ReturnLine(h) \/ ReturnEof(h) PROVE ClosedAtEnd'
  BY <1>7 DEF ReturnLine, ReturnEof, In, world
<1>8. ASSUME NEW h \in Handles, Read(h) PROVE ClosedAtEnd'
  <2> DEFINE n == Least(ReadSize, pipe[h]["out"])
  <2>1. n \in 0..pipe[h]["out"] /\ (n > 0 <=> pipe[h]["out"] > 0)
    BY ReadTakes
  <2>2. /\ pipe' = [pipe EXCEPT ![h]["out"] = @ - n]
        /\ IF n > 0 THEN UNCHANGED fds ELSE fds' = [fds EXCEPT ![h] = @ \ {"out"}]
        /\ UNCHANGED <<status, proc, call>>
        /\ pipe[h]["out"] > 0 \/ ~Alive(h)
        /\ "out" \in fds[h]
    BY <1>8 DEF Read, ReadFinding
  <2> HIDE DEF n
  <2>3. CASE n > 0
    BY <2>1, <2>2, <2>3 DEF Typed
  <2>4. CASE ~(n > 0)
    BY <2>1, <2>2, <2>4 DEF Typed, Alive
  <2> QED BY <2>3, <2>4
<1>9. ASSUME NEW h \in Handles, Reap(h) PROVE ClosedAtEnd'
  BY <1>9 DEF Reap, Typed, Ends, In
<1>10. ASSUME NEW h \in Handles, ChildRead(h) \/ ChildWrite(h) PROVE ClosedAtEnd'
  BY <1>10 DEF ChildRead, ChildWrite, Typed, Alive, Ends, script
<1>11. ASSUME NEW h \in Handles, ChildSigpipe(h) \/ ChildExit(h) PROVE ClosedAtEnd'
  BY <1>11 DEF ChildSigpipe, ChildExit, Typed, Alive, Ends, script
<1>12. CASE UNCHANGED vars
  BY <1>12 DEF vars
<1> QED BY <1>1, <1>2, <1>3, <1>4, <1>5, <1>6, <1>7, <1>8, <1>9, <1>10, <1>11, <1>12
        DEF Next, Start, GoOn, Child

LEMMA ToldStays ==
    ASSUME Typed, ToldAtEnd, [Next]_vars
    PROVE  ToldAtEnd'
<1> USE DEF ToldAtEnd, Spawned
<1>1. ASSUME NEW h \in Handles, Spawn(h) PROVE ToldAtEnd'
  BY <1>1 DEF Spawn, Typed
<1>2. ASSUME NEW h \in Handles, Kill(h) PROVE ToldAtEnd'
  BY <1>2 DEF Kill, Typed, Alive
<1>3. ASSUME NEW h \in Handles, ReturnLine(h) \/ ReturnEof(h) PROVE ToldAtEnd'
  BY <1>3 DEF ReturnLine, ReturnEof, Typed, In, Spawned, world
<1>4. ASSUME NEW h \in Handles, Read(h) PROVE ToldAtEnd'
  BY <1>4 DEF Read, ReadFinding, Typed
<1>5. ASSUME NEW h \in Handles, Reap(h) \/ StartWait(h) \/ DieOfSigpipe(h) PROVE ToldAtEnd'
  <2>1. CASE Reap(h)
    <3>1. /\ proc' = [proc EXCEPT ![h] = "reaped"] /\ fds' = [fds EXCEPT ![h] = {}]
          /\ UNCHANGED <<eof, buf>>
      BY <2>1 DEF Reap
    <3> QED BY <3>1 DEF Typed
  <2>2. CASE StartWait(h)
    BY <2>2 DEF StartWait, Typed, world
  <2>3. CASE DieOfSigpipe(h)
    BY <2>3 DEF DieOfSigpipe, Typed, world
  <2> QED BY <1>5, <2>1, <2>2, <2>3
<1>6. ASSUME NEW h \in Handles, ChildSigpipe(h) \/ ChildExit(h) PROVE ToldAtEnd'
  BY <1>6 DEF ChildSigpipe, ChildExit, Typed, script
<1>7. ASSUME UNCHANGED <<eof, proc, fds, buf>> PROVE ToldAtEnd'
  BY <1>7
<1>8. ASSUME NEW h \in Handles,
             StartWrite(h) \/ StartRead(h) \/ Write(h) \/ ChildRead(h) \/ ChildWrite(h)
      PROVE  UNCHANGED <<eof, proc, fds, buf>>
  BY <1>8 DEF StartWrite, StartRead, Write, ChildRead, ChildWrite, world, script
<1>9. CASE UNCHANGED vars
  BY <1>7, <1>9 DEF vars
<1> QED BY <1>1, <1>2, <1>3, <1>4, <1>5, <1>6, <1>7, <1>8, <1>9 DEF Next, Start, GoOn, Child

LEMMA NextHandlesInv == HandlesInv /\ [Next]_vars => HandlesInv'
BY TypedKept, IdsKept, LinesStay, ClosedStays, ToldStays DEF HandlesInv

-----------------------------------------------------------------------------
\* Whatever the children write, close and inherit and whatever the script waits
\* for: lines are counted, and an output is closed or told to be at its end
\* only when nothing can come after.
THEOREM HandlesInductive == Spec => []HandlesInv
BY InitTyped, NextHandlesInv, PTL DEF Spec

\* Every variable has its type, and a process id names one process at a time.
THEOREM HandlesTyped == Spec => []TypeOK
<1>1. HandlesInv => TypeOK
  BY DEF HandlesInv, Typed, IdsUnique, TypeOK, NoCall
<1> QED BY <1>1, HandlesInductive, PTL

\* Every line a child wrote is with the script, in the buffer or in the pipe.
THEOREM LinesNeverLost == Spec => []LinesKept
<1>1. HandlesInv => LinesKept
  BY DEF HandlesInv, LinesCounted, LinesKept
<1> QED BY <1>1, HandlesInductive, PTL

\* The empty string means the end: the script then has every line, and the
\* child is over.
THEOREM EofNeverEarly == Spec => []EofIsHonest
<1>1. HandlesInv => EofIsHonest
  BY DEF HandlesInv, Typed, LinesCounted, ClosedAtEnd, ToldAtEnd, EofIsHonest
<1> QED BY <1>1, HandlesInductive, PTL

\* A script that kills no handle it has waited for kills no process but those
\* it names: a process id stays its handle's own until then.
THEOREM KillsOnlyAsked == ASSUME ~KillsReaped PROVE Spec => []KilledAsAsked
<1>1. Init => KilledAsAsked
  BY DEF Init, KilledAsAsked
<1>2. ASSUME HandlesInv, KilledAsAsked, [Next]_vars PROVE KilledAsAsked'
  <2>1. ASSUME NEW h \in Handles, Kill(h) PROVE KilledAsAsked'
    <3>1. h \in Owner(pid[h])
      <4>1. status[h] = "open" /\ Spawned(h)
        BY <2>1 DEF Kill
      <4>2. proc[h] # "reaped"
        BY <1>2, <4>1 DEF HandlesInv, Typed
      <4> QED BY <4>1, <4>2 DEF Owner
    <3>2. \A g \in Handles : g \in Owner(pid[h]) => g = h
      <4> SUFFICES ASSUME NEW g \in Handles, g \in Owner(pid[h]) PROVE g = h
        OBVIOUS
      <4> QED BY <1>2, <3>1 DEF HandlesInv, IdsUnique
    <3> QED BY <1>2, <2>1, <3>2 DEF Kill, KilledAsAsked
  <2>2. ASSUME NEW h \in Handles, Spawn(h) PROVE KilledAsAsked'
    BY <1>2, <2>2 DEF Spawn, KilledAsAsked, HandlesInv, Typed
  <2>3. ASSUME NEW h \in Handles, Reap(h) PROVE KilledAsAsked'
    BY <1>2, <2>3 DEF Reap, KilledAsAsked, HandlesInv, Typed
  <2>4. ASSUME NEW h \in Handles, ChildSigpipe(h) \/ ChildExit(h) PROVE KilledAsAsked'
    BY <1>2, <2>4 DEF ChildSigpipe, ChildExit, script, KilledAsAsked, HandlesInv, Typed
  <2>5. ASSUME UNCHANGED <<proc, asked>> PROVE KilledAsAsked'
    BY <1>2, <2>5 DEF KilledAsAsked
  <2>6. ASSUME NEW h \in Handles,
               \/ StartWrite(h) \/ StartRead(h) \/ StartWait(h) \/ Write(h) \/ DieOfSigpipe(h)
               \/ ReturnLine(h) \/ ReturnEof(h) \/ Read(h) \/ ChildRead(h) \/ ChildWrite(h)
        PROVE  UNCHANGED <<proc, asked>>
    BY <2>6 DEF StartWrite, StartRead, StartWait, Write, DieOfSigpipe, ReturnLine, ReturnEof,
       Read, ChildRead, ChildWrite, world, script
  <2>7. CASE UNCHANGED vars
    BY <2>5, <2>7 DEF vars
  <2> QED BY <1>2, <2>1, <2>2, <2>3, <2>4, <2>5, <2>6, <2>7 DEF Next, Start, GoOn, Child
<1> QED BY <1>1, <1>2, HandlesInductive, PTL DEF Spec

=============================================================================
