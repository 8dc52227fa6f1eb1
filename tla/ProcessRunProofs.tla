-------------------------- MODULE ProcessRunProofs --------------------------
(***************************************************************************)
(* Proofs about ProcessRun, for every size of pipes, buffer and input,     *)
(* every deadline and every child.  The interpreter closes an output when  *)
(* read() returns nothing; that this is the end of the stream, and not a   *)
(* moment when the child had written nothing yet, rests on what select()   *)
(* reported several steps earlier (ReportsHold).                           *)
(***************************************************************************)
EXTENDS ProcessRun, TLAPS

AtItsEnd(s)   == pipe[s] = 0 /\ s \notin cfds
Readable(s)   == pipe[s] > 0 \/ s \notin cfds
LoopIsOver    == pc \in {"close", "waitpid", "returned"}

\* Outside the deadline, an output is closed only at its end.
ClosedAtTheEnd == pc # "died" /\ ~late => \A s \in Outputs \ fds : AtItsEnd(s)

\* What select() reported is still so when its turn to be read comes.
ReportsHold == /\ pc \in {"out", "err"} /\ "err" \in ready => Readable("err")
               /\ pc = "out" /\ "out" \in ready => Readable("out")

\* The loop ends, but for the deadline, with both outputs closed; then every
\* end is closed, and then the child is reaped.
InOrder == /\ LoopIsOver /\ ~late => fds \cap Outputs = {}
           /\ pc \in {"waitpid", "returned"} => fds = {}
           /\ pc = "returned" => child = "reaped"

IInv == TypeOK /\ ClosedAtTheEnd /\ ReportsHold /\ InOrder

\* What the death of the child changes.
LEMMA DeathOnlyCloses ==
    ASSUME IInv, NEW status \in Statuses, Dies(status)
    PROVE  /\ cfds' \subseteq cfds /\ cfds' \subseteq Streams
           /\ child' \in Statuses \cup {"running", "reaped"}
           /\ child = "reaped" => child' = "reaped"
BY DEF IInv, TypeOK, Dies, Statuses

\* The invariant holds when the child has just been forked.
LEMMA InitHolds == Init => IInv
<1> SUFFICES ASSUME Init PROVE IInv
  OBVIOUS
<1> USE ProcessRunAssumption
<1>1. TypeOK
  <2>1. /\ pipe \in [Streams -> 0..PipeSize] /\ pipe["in"] = 0
        /\ got \in [Outputs -> Nat] /\ wrote \in [Outputs -> Nat]
        /\ \A s \in Outputs : got[s] + pipe[s] = wrote[s]
    BY DEF Init, Streams, Outputs
  <2>2. Consumed \in Nat /\ unfed \in 0..Input /\ now \in 0..Timeout
    BY <2>1 DEF Init, Consumed
  <2> QED BY <2>1, <2>2 DEF Init, TypeOK, Streams, Outputs, Statuses
<1>2. ClosedAtTheEnd
  BY DEF Init, ClosedAtTheEnd
<1>3. ReportsHold /\ InOrder
  BY DEF Init, ReportsHold, InOrder, LoopIsOver
<1> QED BY <1>1, <1>2, <1>3 DEF IInv

\* A step that moves no data, opens nothing and keeps the invariant's frame.
LEMMA QuietSteps ==
    ASSUME IInv, CheckDeadline \/ Select \/ SkipFeeding \/ StartFeeding \/ LoopEnds
    PROVE  IInv'
<1> USE DEF IInv, TypeOK, ClosedAtTheEnd, ReportsHold, InOrder, LoopIsOver,
            AtItsEnd, Readable, Consumed, world
<1>1. CASE CheckDeadline
  BY <1>1 DEF CheckDeadline
<1>2. CASE Select
  BY <1>2 DEF Select, Ready, Outputs, Streams
<1>3. CASE SkipFeeding
  BY <1>3 DEF SkipFeeding
<1>4. CASE StartFeeding
  BY <1>4 DEF StartFeeding
<1>5. CASE LoopEnds
  BY <1>5 DEF LoopEnds
<1> QED BY <1>1, <1>2, <1>3, <1>4, <1>5

\* Reading takes from the pipe what it adds to the capture, and closes the
\* stream only if nothing was there.
LEMMA ReadSteps ==
    ASSUME IInv, NEW s \in Outputs, NEW next \in {"err", "in"},
           s = "out" => next = "err", s = "err" => next = "in",
           ReadOutput(s, next)
    PROVE  IInv'
<1> USE ProcessRunAssumption
<1> DEFINE n == Least(ReadSize, pipe[s])
<1>1. /\ pipe[s] \in 0..PipeSize /\ got[s] \in Nat /\ wrote[s] \in Nat
      /\ s # "in" /\ s \in Streams
  BY DEF IInv, TypeOK, Outputs, Streams
<1>2. /\ n \in Nat /\ n <= pipe[s]
      /\ n = 0 => pipe[s] = 0
  BY <1>1 DEF Least
<1>3. TypeOK'
  <2>1. CASE s \in ready
    <3>1. /\ got' = [got EXCEPT ![s] = @ + n]
          /\ pipe' = [pipe EXCEPT ![s] = @ - n]
          /\ fds' \subseteq fds
      BY <2>1 DEF ReadOutput
    <3>2. got' \in [Outputs -> Nat] /\ pipe' \in [Streams -> 0..PipeSize]
      BY <1>1, <1>2, <3>1 DEF IInv, TypeOK
    <3>3. \A o \in Outputs : got'[o] + pipe'[o] = wrote[o]
      BY <1>1, <1>2, <3>1 DEF IInv, TypeOK, Outputs, Streams
    <3>4. pipe'["in"] = pipe["in"]
      BY <1>1, <3>1 DEF IInv, TypeOK, Streams
    <3> QED BY <3>1, <3>2, <3>3, <3>4 DEF IInv, TypeOK, ReadOutput, Consumed
  <2>2. CASE s \notin ready
    BY <2>2 DEF IInv, TypeOK, ReadOutput, Consumed
  <2> QED BY <2>1, <2>2
<1>4. \A o \in Outputs \ {s} : pipe'[o] = pipe[o] /\ (o \in fds' <=> o \in fds)
  BY <1>1 DEF IInv, TypeOK, ReadOutput, Outputs, Streams
<1>5. (s \in fds /\ s \notin fds') => pipe'[s] = 0 /\ s \notin cfds
  BY <1>1, <1>2 DEF IInv, TypeOK, ReportsHold, Readable, ReadOutput, Outputs
<1>6. s \notin fds /\ ClosedAtTheEnd /\ ~late => pipe'[s] = 0 /\ s \notin cfds
  BY <1>1, <1>2 DEF IInv, TypeOK, ClosedAtTheEnd, AtItsEnd, ReadOutput, Outputs
<1>7. ClosedAtTheEnd'
  BY <1>4, <1>5, <1>6 DEF IInv, ClosedAtTheEnd, AtItsEnd, ReadOutput, Outputs
<1>8. ReportsHold'
  BY <1>4 DEF IInv, ReportsHold, Readable, ReadOutput, Outputs
<1>9. InOrder'
  BY DEF IInv, InOrder, LoopIsOver, ReadOutput, Outputs
<1> QED BY <1>3, <1>7, <1>8, <1>9 DEF IInv

\* The deadline ends the loop whatever is open, and says so.
LEMMA KillStep ==
    ASSUME IInv, KillLate
    PROVE  IInv'
<1>1. /\ cfds' \subseteq Streams
      /\ child' \in Statuses \cup {"running", "reaped"}
  BY DeathOnlyCloses DEF KillLate, Statuses
<1>2. TypeOK'
  BY <1>1 DEF IInv, TypeOK, KillLate, Consumed
<1> QED BY <1>2 DEF IInv, KillLate, ClosedAtTheEnd, ReportsHold, InOrder, LoopIsOver

\* Feeding touches one pipe, and neither output.
LEMMA FeedSteps ==
    ASSUME IInv, Write \/ DieOfSigpipe
    PROVE  IInv'
<1> USE ProcessRunAssumption
<1>1. CASE Write
  <2> DEFINE n == Least(Room("in"), unfed)
  <2>1. /\ pipe["in"] \in 0..PipeSize /\ unfed \in 0..Input
        /\ Consumed \in Nat
    BY DEF IInv, TypeOK, Streams
  <2>2. /\ n \in Nat /\ n <= unfed /\ pipe["in"] + n <= PipeSize
    BY <2>1 DEF Least, Room
  <2>3. /\ pipe' = [pipe EXCEPT !["in"] = @ + n]
        /\ unfed' = unfed - n
        /\ pc' \in {"write", "deadline"}
        /\ fds' \cap Outputs = fds \cap Outputs /\ fds' \subseteq fds
    BY <1>1 DEF Write, Outputs
  <2>4. /\ pipe' \in [Streams -> 0..PipeSize]
        /\ pipe'["in"] = pipe["in"] + n
        /\ \A s \in Outputs : pipe'[s] = pipe[s]
    BY <2>1, <2>2, <2>3 DEF IInv, TypeOK, Streams, Outputs
  <2>5. unfed' \in 0..Input /\ Consumed' = Consumed
    BY <2>1, <2>2, <2>3, <2>4 DEF Consumed
  <2>6. TypeOK'
    BY <1>1, <2>3, <2>4, <2>5 DEF IInv, TypeOK, Write
  <2>7. ClosedAtTheEnd'
    BY <1>1, <2>3, <2>4 DEF IInv, ClosedAtTheEnd, AtItsEnd, Write
  <2>8. ReportsHold' /\ InOrder'
    BY <2>3 DEF ReportsHold, InOrder, LoopIsOver
  <2> QED BY <2>6, <2>7, <2>8 DEF IInv
<1>2. CASE DieOfSigpipe
  BY <1>2 DEF IInv, TypeOK, DieOfSigpipe, world, ClosedAtTheEnd, ReportsHold,
              InOrder, LoopIsOver, Consumed
<1> QED BY <1>1, <1>2

\* The steps after the loop.
LEMMA LastSteps ==
    ASSUME IInv, CloseAll \/ Reap
    PROVE  IInv'
<1> USE DEF IInv, TypeOK, ClosedAtTheEnd, ReportsHold, InOrder, LoopIsOver,
            AtItsEnd, Consumed, world
<1>1. CASE CloseAll
  BY <1>1 DEF CloseAll, Outputs
<1>2. CASE Reap
  BY <1>2 DEF Reap
<1> QED BY <1>1, <1>2

\* The child writes only to streams the interpreter has open, so nothing
\* arrives behind an end that was seen; and what it closes stays closed.
LEMMA ChildSteps ==
    ASSUME IInv, Child
    PROVE  IInv'
<1> USE ProcessRunAssumption
<1> USE DEF parent
<1>1. CASE ChildRead
  <2>1. pipe["in"] \in 0..PipeSize /\ pipe["in"] > 0 /\ unfed \in 0..Input /\ Consumed \in Nat
    BY <1>1 DEF IInv, TypeOK, Streams, ChildRead
  <2>2. /\ pipe' \in [Streams -> 0..PipeSize]
        /\ pipe'["in"] = pipe["in"] - 1
        /\ \A s \in Outputs : pipe'[s] = pipe[s]
    BY <1>1, <2>1 DEF IInv, TypeOK, ChildRead, Streams, Outputs
  <2>3. Consumed' \in Nat
    BY <1>1, <2>1, <2>2 DEF Consumed, ChildRead
  <2>4. TypeOK'
    BY <1>1, <2>2, <2>3 DEF IInv, TypeOK, ChildRead
  <2>5. ClosedAtTheEnd' /\ ReportsHold' /\ InOrder'
    BY <1>1, <2>2 DEF IInv, ClosedAtTheEnd, ReportsHold, InOrder, LoopIsOver,
                      AtItsEnd, Readable, ChildRead, Outputs
  <2> QED BY <2>4, <2>5 DEF IInv
<1>2. ASSUME NEW s \in Outputs, ChildWrite(s)
      PROVE  IInv'
  <2>1. /\ pipe[s] \in 0..PipeSize /\ pipe[s] + 1 <= PipeSize
        /\ got[s] \in Nat /\ wrote[s] \in Nat
        /\ s # "in" /\ s \in Streams /\ s \in fds
    BY <1>2 DEF IInv, TypeOK, Streams, Outputs, ChildWrite, Room
  <2>2. /\ pipe' \in [Streams -> 0..PipeSize] /\ wrote' \in [Outputs -> Nat]
        /\ pipe'["in"] = pipe["in"]
        /\ pipe'[s] = pipe[s] + 1 /\ wrote'[s] = wrote[s] + 1
        /\ \A o \in Outputs \ {s} : pipe'[o] = pipe[o] /\ wrote'[o] = wrote[o]
    BY <1>2, <2>1 DEF IInv, TypeOK, ChildWrite, Streams, Outputs
  <2>3. \A o \in Outputs : got[o] + pipe'[o] = wrote'[o]
    BY <2>1, <2>2 DEF IInv, TypeOK
  <2>4. TypeOK'
    BY <1>2, <2>2, <2>3 DEF IInv, TypeOK, ChildWrite, Consumed
  <2>5. \A o \in Outputs : Readable(o) => Readable(o)'
    BY <1>2, <2>1, <2>2 DEF Readable, ChildWrite
  <2>6. ReportsHold'
    BY <1>2, <2>5 DEF IInv, ReportsHold, ChildWrite, Outputs
  <2>7. ClosedAtTheEnd' /\ InOrder'
    BY <1>2, <2>1, <2>2 DEF IInv, ClosedAtTheEnd, InOrder, LoopIsOver, AtItsEnd, ChildWrite
  <2> QED BY <2>4, <2>6, <2>7 DEF IInv
<1>3. ASSUME /\ cfds' \subseteq cfds
             /\ child' \in Statuses \cup {"running", "reaped"}
             /\ child = "reaped" => child' = "reaped"
             /\ UNCHANGED <<parent, now, pipe, wrote>>
      PROVE  IInv'
  BY <1>3 DEF IInv, TypeOK, ClosedAtTheEnd, ReportsHold, InOrder, LoopIsOver,
              AtItsEnd, Readable, Consumed
<1>4. ASSUME NEW s \in Outputs, ChildSigpipe(s)
      PROVE  IInv'
  BY <1>3, <1>4, DeathOnlyCloses DEF ChildSigpipe, Statuses
<1>5. ASSUME NEW s \in Streams, ChildClose(s)
      PROVE  IInv'
  BY <1>3, <1>5 DEF ChildClose, IInv, TypeOK
<1>6. CASE ChildExit
  BY <1>3, <1>6, DeathOnlyCloses DEF ChildExit, Statuses
<1> QED BY <1>1, <1>2, <1>4, <1>5, <1>6 DEF Child

\* Every step of the interpreter, the child and the clock keeps the invariant.
LEMMA StepHolds == IInv /\ [Next]_vars => IInv'
<1> SUFFICES ASSUME IInv, [Next]_vars PROVE IInv'
  OBVIOUS
<1>1. CASE Interpreter
  <2>1. ASSUME ReadOutput("out", "err") PROVE IInv'
    BY <2>1, ReadSteps DEF Outputs
  <2>2. ASSUME ReadOutput("err", "in") PROVE IInv'
    BY <2>2, ReadSteps DEF Outputs
  <2> QED BY <1>1, <2>1, <2>2, QuietSteps, KillStep, FeedSteps, LastSteps DEF Interpreter
<1>2. CASE Child
  BY <1>2, ChildSteps
<1>3. CASE Tick
  BY <1>3, ProcessRunAssumption
     DEF IInv, TypeOK, ClosedAtTheEnd, ReportsHold, InOrder, LoopIsOver,
         AtItsEnd, Readable, Consumed, Tick, parent
<1>4. CASE UNCHANGED vars
  BY <1>4 DEF IInv, TypeOK, ClosedAtTheEnd, ReportsHold, InOrder, LoopIsOver,
              AtItsEnd, Readable, Consumed, vars
<1> QED BY <1>1, <1>2, <1>3, <1>4 DEF Next, Done

\* The invariant of every call, and with it that nothing written to a pipe is
\* duplicated or dropped on its way (pumpStdio's reads and writes).
THEOREM Invariance == Spec => []IInv
<1>1. Init => IInv
  BY InitHolds
<1>2. IInv /\ [Next]_vars => IInv'
  BY StepHolds
<1> QED BY <1>1, <1>2, PTL DEF Spec

\* A call that the deadline did not cut short returns everything that was
\* written to the child's stdout and stderr, and leaves nobody writing there,
\* whatever the order of writes, reads and closes: pumpStdio never takes a
\* quiet moment for the end.
THEOREM OutputWhole == Spec => []WholeOutput
<1>1. IInv => WholeOutput
  <2> SUFFICES ASSUME IInv, pc = "returned", ~late
               PROVE  got = wrote /\ Outputs \cap cfds = {}
    BY DEF WholeOutput
  <2>1. fds = {}
    BY DEF IInv, InOrder
  <2>2. \A s \in Outputs : pipe[s] = 0 /\ s \notin cfds
    BY <2>1 DEF IInv, ClosedAtTheEnd, AtItsEnd
  <2>3. \A s \in Outputs : got[s] = wrote[s]
    BY <2>2 DEF IInv, TypeOK
  <2>4. got = wrote
    BY <2>3 DEF IInv, TypeOK
  <2> QED BY <2>2, <2>4
<1> QED BY <1>1, Invariance, PTL

\* When process_run() returns, its child has been waited for and every pipe
\* end is closed: after the deadline, after a signal, after any exit code.
THEOREM LeavesNothing == Spec => []NothingLeftBehind
<1>1. IInv => NothingLeftBehind
  BY DEF IInv, InOrder, NothingLeftBehind
<1> QED BY <1>1, Invariance, PTL

\* Units are typed, and none is duplicated or lost between the two processes.
THEOREM RunTyped == Spec => []TypeOK
<1>1. IInv => TypeOK
  BY DEF IInv
<1> QED BY <1>1, Invariance, PTL

-----------------------------------------------------------------------------
(* The input.  The loop ends with the outputs, so the stdin of a child that *)
(* keeps one of them until it ends is closed early on a dead child alone.   *)

KeptByLiving(o) == child = "running" => o \in cfds
LateIsDead      == late => child # "running"
FedOrGone       == "in" \notin fds => unfed = 0 \/ child # "running" \/ "in" \notin cfds

FeedInv(o) == IInv /\ KeptByLiving(o) /\ LateIsDead /\ FedOrGone

LEMMA FeedInvInit == ASSUME NEW o \in Outputs, Init PROVE FeedInv(o)
  BY InitHolds, ProcessRunAssumption
     DEF FeedInv, Init, KeptByLiving, LateIsDead, FedOrGone, Outputs, Streams

LEMMA FeedInvStep ==
    ASSUME NEW o \in Outputs \ Closes, FeedInv(o), [Next]_vars
    PROVE  FeedInv(o)'
<1> USE DEF KeptByLiving, LateIsDead, FedOrGone
<1>1. IInv'
  BY StepHolds DEF FeedInv
<1>2. ASSUME UNCHANGED <<unfed, late>>, fds' \cap {"in"} = fds \cap {"in"},
             cfds' = cfds, child' = child \/ child' = "reaped"
      PROVE  FeedInv(o)'
  BY <1>1, <1>2 DEF FeedInv
<1>3. ASSUME UNCHANGED <<unfed, late, fds>>, cfds' \subseteq cfds,
             child' = child \/ child' # "running",
             child' = "running" => o \notin cfds \ cfds'
      PROVE  FeedInv(o)'
  BY <1>1, <1>3 DEF FeedInv
<1>4. CASE CheckDeadline \/ Select \/ SkipFeeding \/ StartFeeding \/ LoopEnds \/ Reap \/ Tick
  BY <1>2, <1>4 DEF CheckDeadline, Select, SkipFeeding, StartFeeding, LoopEnds, Reap, Tick,
                    world, parent
<1>5. CASE ReadOutput("out", "err") \/ ReadOutput("err", "in")
  BY <1>2, <1>5 DEF ReadOutput
<1>6. CASE KillLate
  <2>1. child' # "running" /\ late' = TRUE
    BY <1>6 DEF KillLate, Dies
  <2> QED
    BY <1>1, <2>1 DEF FeedInv
<1>7. CASE Write
  <2>1. unfed \in 0..Input /\ pipe["in"] \in 0..PipeSize
    BY DEF FeedInv, IInv, TypeOK, Streams
  <2>2. \/ unfed' = 0
        \/ fds' = fds
    BY <1>7, <2>1, ProcessRunAssumption DEF Write, Least, Room
  <2>3. unfed = 0 => unfed' = 0
    BY <1>7, <2>1, ProcessRunAssumption DEF Write, Least, Room
  <2> QED
    BY <1>1, <1>7, <2>2, <2>3 DEF FeedInv, Write
<1>8. CASE DieOfSigpipe
  BY <1>1, <1>8 DEF FeedInv, DieOfSigpipe, world
<1>9. CASE CloseAll
  <2>1. child # "running"
    <3>1. ~late => o \notin cfds
      BY <1>9 DEF FeedInv, IInv, InOrder, LoopIsOver, ClosedAtTheEnd, AtItsEnd, CloseAll
    <3> QED
      BY <3>1 DEF FeedInv
  <2> QED
    BY <1>1, <1>9, <2>1 DEF FeedInv, CloseAll, world
<1>10. CASE Child
  <2>1. ASSUME NEW status \in Statuses, Dies(status), UNCHANGED <<parent, now, pipe, wrote>>
        PROVE  FeedInv(o)'
    <3>1. child' # "running" /\ cfds' \subseteq cfds
      BY <2>1 DEF Dies, Statuses
    <3> QED
      BY <1>3, <2>1, <3>1 DEF parent
  <2>2. CASE ChildRead
    BY <1>2, <2>2 DEF ChildRead, parent
  <2>3. CASE ChildExit
    BY <2>1, <2>3 DEF ChildExit, Statuses
  <2>4. CASE \E s \in Outputs : ChildWrite(s)
    BY <1>2, <2>4 DEF ChildWrite, parent
  <2>5. CASE \E s \in Outputs : ChildSigpipe(s)
    BY <2>1, <2>5 DEF ChildSigpipe, Statuses
  <2>6. CASE \E s \in Streams : ChildClose(s)
    BY <1>3, <2>6 DEF ChildClose, parent
  <2> QED
    BY <1>10, <2>2, <2>3, <2>4, <2>5, <2>6 DEF Child
<1>11. CASE UNCHANGED vars
  BY <1>2, <1>11 DEF vars
<1> QED
  BY <1>4, <1>5, <1>6, <1>7, <1>8, <1>9, <1>10, <1>11 DEF Next, Interpreter, Done

\* A child that keeps one of its outputs until it ends finds the end of its
\* input only after all of options.stdin, however little a write takes.
THEOREM InputWhole == ASSUME NEW o \in Outputs \ Closes PROVE Spec => []WholeInput
<1>1. Init => FeedInv(o)
  BY FeedInvInit
<1>2. FeedInv(o) /\ [Next]_vars => FeedInv(o)'
  BY FeedInvStep
<1>3. FeedInv(o) => WholeInput
  BY DEF FeedInv, FedOrGone, WholeInput, AtEof
<1> QED
  BY <1>1, <1>2, <1>3, PTL DEF Spec
=============================================================================
