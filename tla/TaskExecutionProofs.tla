------------------------- MODULE TaskExecutionProofs -------------------------
(***************************************************************************)
(* Proofs about TaskExecution, for all timeouts and grace periods.         *)
(***************************************************************************)
EXTENDS TaskExecution, TLAPS

\* The process, its signals and the cancel event go with where execute stands.
ProcessInv ==
    /\ pc \in {"spawned", "starting"} =>
          proc = "none" /\ signal = "none" /\ ~timedOut /\ asked = {}
    /\ pc = "waiting" => signal = "none" /\ ~timedOut /\ proc # "none"
    /\ pc \in {"grace", "killing"} => proc # "none" /\ (timedOut \/ event)
    /\ pc \in {"joining", "stderr", "storing"} => Exited
    /\ pc # "settled" => outcome = "none"
    /\ pc # "settled" /\ asked # {} => event
    /\ pc # "settled" /\ signal # "none" => timedOut \/ event

IInv == /\ TypeOK /\ ProcessInv
        /\ NoProcessLeft /\ EarlyCancelSignals /\ CancelHonoured /\ CompletedIsTrue

\* Every variable of an execution keeps its type.
LEMMA TypeStep == TypeOK /\ [Next]_vars => TypeOK'
<1> SUFFICES ASSUME TypeOK, [Next]_vars PROVE TypeOK'
  OBVIOUS
<1> USE ExecutionAssumption DEF TypeOK
<1>1. CASE Execute
  <2>1. ASSUME NEW o \in {"COMPLETED", "FAILED", "CANCELLED", "CRASHED"}, Settle(o)
        PROVE  /\ pc' = "settled" /\ event' \in BOOLEAN
               /\ outcome' \in {"none", "COMPLETED", "FAILED", "CANCELLED", "CRASHED"}
    BY <2>1 DEF Settle
  <2>2. CASE Begin \/ StderrDrained \/ ProcessAwaited
    BY <2>2 DEF Begin, StderrDrained, ProcessAwaited
  <2>3. CASE ProjectGone \/ StderrTimesOut \/ \E o \in {"FAILED", "CRASHED"} : StartFails(o)
    BY <2>1, <2>3 DEF ProjectGone, StderrTimesOut, StartFails
  <2>4. CASE StartProcess
    BY <2>4 DEF StartProcess
  <2>5. CASE WaitTimesOut
    BY <2>5 DEF WaitTimesOut
  <2>6. CASE GraceEnds
    BY <2>6 DEF GraceEnds
  <2>7. CASE JoinReader
    BY <2>1, <2>7 DEF JoinReader
  <2>8. CASE Decide
    BY <2>1, <2>8 DEF Decide
  <2> QED BY <1>1, <2>2, <2>3, <2>4, <2>5, <2>6, <2>7, <2>8 DEF Execute
<1>2. CASE ReaderEnds \/ ReaderBreaks \/ ReaderFails \/ StderrBreaks
  BY <1>2 DEF ReaderEnds, ReaderBreaks, ReaderFails, StderrBreaks
<1>3. CASE ProcessExits \/ HolderEnds \/ RequestCancel
  BY <1>3 DEF ProcessExits, HolderEnds, RequestCancel
<1>4. CASE Tick
  BY <1>4 DEF Tick
<1>5. CASE UNCHANGED vars
  BY <1>5 DEF vars
<1> QED BY <1>1, <1>2, <1>3, <1>4, <1>5 DEF Next

\* The invariant holds when an execution is spawned, cancelled already or not.
LEMMA InitInv == Init => IInv
<1> SUFFICES ASSUME Init PROVE IInv
  OBVIOUS
<1> USE DEF Init
<1>1. TypeOK
  BY DEF TypeOK
<1>2. ProcessInv
  <2>1. pc = "spawned" /\ proc = "none" /\ signal = "none" /\ ~timedOut /\ asked = {}
        /\ outcome = "none"
    OBVIOUS
  <2> QED BY <2>1, Zenon DEF ProcessInv
<1>3. NoProcessLeft /\ EarlyCancelSignals /\ CancelHonoured /\ CompletedIsTrue
  BY DEF NoProcessLeft, EarlyCancelSignals, CancelHonoured, CompletedIsTrue
<1> QED BY <1>1, <1>2, <1>3 DEF IInv

\* No step of execute, its reader, the process, the user or the clock breaks it.
LEMMA InvStep == IInv /\ [Next]_vars => IInv'
<1> SUFFICES ASSUME IInv, [Next]_vars PROVE IInv'
  OBVIOUS
<1> TypeOK'
  BY TypeStep DEF IInv
<1> USE DEF IInv, TypeOK, ProcessInv, NoProcessLeft, EarlyCancelSignals,
            CancelHonoured, CompletedIsTrue, Exited
<1>1. CASE Execute
  <2>1. CASE Begin
    BY <2>1 DEF Begin
  <2>2. CASE ProjectGone \/ \E o \in {"FAILED", "CRASHED"} : StartFails(o)
    BY <2>2 DEF ProjectGone, StartFails, Settle
  <2>3. CASE StartProcess
    BY <2>3 DEF StartProcess
  <2>4. CASE ProcessAwaited
    BY <2>4 DEF ProcessAwaited
  <2>5. CASE WaitTimesOut
    <3>1. /\ pc' = "grace" /\ timedOut' = TRUE /\ (signal' = "TERM" \/ Exited)
          /\ UNCHANGED <<outcome, event, proc, asked>>
          /\ outcome = "none" /\ proc # "none" /\ (asked # {} => event)
      BY <2>5 DEF WaitTimesOut
    <3>2. ProcessInv'
      BY <3>1
    <3>3. EarlyCancelSignals'
      BY <3>1
    <3> QED BY <3>1, <3>2, <3>3
  <2>9. CASE GraceEnds
    BY <2>9 DEF GraceEnds
  <2>6. CASE JoinReader
    BY <2>6 DEF JoinReader, Settle
  <2>7. CASE StderrDrained
    BY <2>7 DEF StderrDrained
  <2>8. CASE StderrTimesOut \/ Decide
    BY <2>8 DEF StderrTimesOut, Decide, Settle
  <2> QED BY <1>1, <2>1, <2>2, <2>3, <2>4, <2>5, <2>6, <2>7, <2>8, <2>9 DEF Execute
<1>2. CASE ReaderEnds \/ ReaderBreaks \/ ReaderFails \/ StderrBreaks
  BY <1>2 DEF ReaderEnds, ReaderBreaks, ReaderFails, StderrBreaks
<1>3. CASE ProcessExits \/ HolderEnds
  BY <1>3 DEF ProcessExits, HolderEnds
<1>4. CASE RequestCancel
  BY <1>4 DEF RequestCancel
<1>5. CASE Tick
  BY <1>5 DEF Tick
<1>6. CASE UNCHANGED vars
  BY <1>6 DEF vars
<1> QED BY <1>1, <1>2, <1>3, <1>4, <1>5, <1>6 DEF Next

\* ProcessInv and the four properties below are one inductive invariant.
THEOREM Invariance == Spec => []IInv
  BY InitInv, InvStep, PTL DEF Spec

\* The locals of execute, the process and the reader keep their types.
THEOREM ExecutionTypes == Spec => []TypeOK
<1>1. IInv => TypeOK
  BY DEF IInv
<1> QED BY <1>1, Invariance, PTL

\* No OpenCode process outlives its execution: execute ends only after one of
\* its waits has seen the exit, or before the process was started.
THEOREM NoneLeft == Spec => []NoProcessLeft
<1>1. IInv => NoProcessLeft
  BY DEF IInv
<1> QED BY <1>1, Invariance, PTL

\* request_cancel before the start leads to SIGTERM as soon as OpenCode runs.
THEOREM EarlyCancelled == Spec => []EarlyCancelSignals
<1>1. IInv => EarlyCancelSignals
  BY DEF IInv
<1> QED BY <1>1, Invariance, PTL

\* request_cancel on a running process makes the task CANCELLED, or it crashes.
THEOREM CancellationHonoured == Spec => []CancelHonoured
<1>1. IInv => CancelHonoured
  BY DEF IInv
<1> QED BY <1>1, Invariance, PTL

\* COMPLETED is recorded only for an exit with 0, in time and without a signal.
THEOREM CompletionIsTrue == Spec => []CompletedIsTrue
<1>1. IInv => CompletedIsTrue
  BY DEF IInv
<1> QED BY <1>1, Invariance, PTL

-----------------------------------------------------------------------------
(* The deadline.                                                             *)

\* As long as OpenCode runs, time passes only in the two timed waits.
TimeInv ==
    /\ pc \in {"spawned", "starting"} => now = 0
    /\ pc = "waiting" => now <= deadline /\ deadline <= Timeout
    /\ pc = "grace" => now <= deadline /\ deadline <= Timeout + Grace
    /\ pc = "killing" => now <= Timeout + Grace
    /\ proc = "running" => now <= Timeout + Grace

\* TimeInv is inductive, given the invariant above: beyond the timed waits the
\* process has exited.
LEMMA TimeStep == IInv /\ TimeInv /\ [Next]_vars => TimeInv'
<1> SUFFICES ASSUME IInv, TimeInv, [Next]_vars PROVE TimeInv'
  OBVIOUS
<1> USE ExecutionAssumption
    DEF IInv, TypeOK, ProcessInv, NoProcessLeft, Exited, TimeInv
<1>1. CASE Execute
  <2>1. CASE Begin
    BY <2>1 DEF Begin
  <2>2. CASE ProjectGone \/ \E o \in {"FAILED", "CRASHED"} : StartFails(o)
    BY <2>2 DEF ProjectGone, StartFails, Settle
  <2>3. CASE StartProcess
    BY <2>3 DEF StartProcess
  <2>4. CASE ProcessAwaited
    BY <2>4 DEF ProcessAwaited
  <2>5. CASE WaitTimesOut
    BY <2>5 DEF WaitTimesOut
  <2>6. CASE GraceEnds
    BY <2>6 DEF GraceEnds
  <2>7. CASE JoinReader
    BY <2>7 DEF JoinReader, Settle
  <2>8. CASE StderrDrained \/ StderrTimesOut \/ Decide
    BY <2>8 DEF StderrDrained, StderrTimesOut, Decide, Settle
  <2> QED BY <1>1, <2>1, <2>2, <2>3, <2>4, <2>5, <2>6, <2>7, <2>8 DEF Execute
<1>2. CASE ReaderEnds \/ ReaderBreaks \/ ReaderFails \/ StderrBreaks
  BY <1>2 DEF ReaderEnds, ReaderBreaks, ReaderFails, StderrBreaks
<1>3. CASE ProcessExits \/ HolderEnds \/ RequestCancel
  BY <1>3 DEF ProcessExits, HolderEnds, RequestCancel
<1>4. CASE Tick
  BY <1>4 DEF Tick, Waiting
<1>5. CASE UNCHANGED vars
  BY <1>5 DEF vars
<1> QED BY <1>1, <1>2, <1>3, <1>4, <1>5 DEF Next

\* OpenCode never runs longer than the timeout and the grace period, whatever
\* signals it ignores (task_executor.py:7).
THEOREM DeadlineKept == Spec => []EndsInTime
<1>1. Init => TimeInv
  BY ExecutionAssumption DEF Init, TimeInv
<1>2. IInv /\ TimeInv => EndsInTime
  BY DEF IInv, NoProcessLeft, TimeInv, EndsInTime
<1> QED BY <1>1, <1>2, TimeStep, Invariance, PTL DEF Spec

-----------------------------------------------------------------------------
(* What a process that has to end is granted.                                *)

\* The time at which the grace period begins at the earliest.
TermAt == IF timedOut THEN Timeout ELSE 0

\* Not inductive alone: the waits run out when they are to, and a process that was
\* cancelled before it was started is not waited for until the timeout.
GraceInv ==
    /\ pc \in {"spawned", "starting"} => now = 0
    /\ pc = "waiting" => deadline = Timeout
    /\ pc = "waiting" /\ proc = "running" /\ event => asked # {}
    /\ pc = "grace" => deadline >= TermAt + Grace
    /\ pc = "grace" /\ proc = "running" => signal = "TERM"
    /\ proc = "running" /\ event /\ asked = {} =>
          /\ now <= Grace
          /\ pc = "killing" \/ (pc = "grace" /\ deadline <= Grace)

LEMMA GraceStep == IInv /\ GraceInv /\ [Next]_vars => GraceInv'
<1> SUFFICES ASSUME IInv, GraceInv, [Next]_vars PROVE GraceInv'
  OBVIOUS
<1> USE ExecutionAssumption
    DEF IInv, TypeOK, ProcessInv, NoProcessLeft, Exited, GraceInv, TermAt
<1>1. CASE Execute
  <2>1. CASE Begin
    BY <2>1 DEF Begin
  <2>2. CASE ProjectGone \/ \E o \in {"FAILED", "CRASHED"} : StartFails(o)
    BY <2>2 DEF ProjectGone, StartFails, Settle
  <2>3. CASE StartProcess
    BY <2>3 DEF StartProcess
  <2>4. CASE ProcessAwaited
    BY <2>4 DEF ProcessAwaited
  <2>5. CASE WaitTimesOut
    BY <2>5 DEF WaitTimesOut
  <2>6. CASE GraceEnds
    BY <2>6 DEF GraceEnds
  <2>7. CASE JoinReader
    BY <2>7 DEF JoinReader, Settle
  <2>8. CASE StderrDrained \/ StderrTimesOut \/ Decide
    BY <2>8 DEF StderrDrained, StderrTimesOut, Decide, Settle
  <2> QED BY <1>1, <2>1, <2>2, <2>3, <2>4, <2>5, <2>6, <2>7, <2>8 DEF Execute
<1>2. CASE ReaderEnds \/ ReaderBreaks \/ ReaderFails \/ StderrBreaks
  BY <1>2 DEF ReaderEnds, ReaderBreaks, ReaderFails, StderrBreaks
<1>3. CASE ProcessExits \/ HolderEnds
  BY <1>3 DEF ProcessExits, HolderEnds
<1>4. CASE RequestCancel
  <2>1. proc' = "running" => asked' # {}
    BY <1>4 DEF RequestCancel
  <2>2. UNCHANGED <<now, pc, deadline, timedOut, proc, signal>>
    BY <1>4 DEF RequestCancel
  <2> QED BY <2>1, <2>2
<1>5. CASE Tick
  BY <1>5 DEF Tick, Waiting
<1>6. CASE UNCHANGED vars
  BY <1>6 DEF vars
<1> QED BY <1>1, <1>2, <1>3, <1>4, <1>5, <1>6 DEF Next

LEMMA GraceInit == Init => GraceInv
BY ExecutionAssumption DEF Init, GraceInv, TermAt

\* CancelIsPrompt fails for a process that runs already.  It does hold for one that was
\* cancelled before: OpenCode is gone after the grace period then, however it ignores the
\* signals, and its timeout is not waited for (task_executor.py, execute).
THEOREM EarlyCancelIsPrompt ==
    Spec => [](proc = "running" /\ event /\ asked = {} => now <= Grace)
<1>1. GraceInv => (proc = "running" /\ event /\ asked = {} => now <= Grace)
  BY DEF GraceInv
<1> QED BY <1>1, GraceInit, GraceStep, Invariance, PTL DEF Spec

\* OpenCode is not killed before it has had SIGTERM and the whole grace period to react to
\* it, and unless it was cancelled it has had its whole timeout as well.
THEOREM KillComesLast ==
    Spec => [][signal' = "KILL" /\ signal # "KILL"
                 => signal = "TERM" /\ now >= TermAt + Grace]_vars
<1>1. IInv /\ GraceInv /\ [Next]_vars
        => [signal' = "KILL" /\ signal # "KILL" => signal = "TERM" /\ now >= TermAt + Grace]_vars
  <2> SUFFICES ASSUME IInv, GraceInv, Next, signal' = "KILL", signal # "KILL"
               PROVE  signal = "TERM" /\ now >= TermAt + Grace
    OBVIOUS
  <2>1. GraceEnds
    BY DEF Next, Execute, Begin, ProjectGone, StartProcess, StartFails, ProcessAwaited,
       WaitTimesOut, JoinReader, StderrDrained, StderrTimesOut, Decide, ReaderEnds,
       ReaderBreaks, ReaderFails, StderrBreaks, ProcessExits, HolderEnds, RequestCancel, Tick
  <2>2. pc = "grace" /\ now >= deadline /\ ~Exited
    BY <2>1 DEF GraceEnds
  <2>3. proc = "running"
    BY <2>2 DEF IInv, TypeOK, ProcessInv, Exited
  <2> QED BY <2>2, <2>3, ExecutionAssumption DEF IInv, TypeOK, GraceInv, TermAt
<1> QED BY <1>1, GraceInit, GraceStep, Invariance, PTL DEF Spec

-----------------------------------------------------------------------------
(* The contract with the worker.                                             *)

\* Each step of an execution is one of ExecutionOutcome's, or leaves it alone.
LEMMA ContractStep == IInv /\ [Next]_vars => [Contract!Next]_(Contract!vars)
<1> SUFFICES ASSUME IInv, [Next]_vars PROVE [Contract!Next]_(Contract!vars)
  OBVIOUS
<1> USE DEF IInv, TypeOK, Contract!Next, Contract!vars, Contract!Begin,
            Contract!Settle, Contract!RequestCancel
<1>1. CASE Begin
  BY <1>1 DEF Begin
<1>2. CASE ProjectGone \/ \E o \in {"FAILED", "CRASHED"} : StartFails(o)
  BY <1>2 DEF ProjectGone, StartFails, Settle
<1>3. CASE StartProcess
  BY <1>3 DEF StartProcess
<1>4. CASE ProcessAwaited \/ WaitTimesOut \/ GraceEnds \/ StderrDrained
  BY <1>4 DEF ProcessAwaited, WaitTimesOut, GraceEnds, StderrDrained
<1>5. CASE JoinReader
  BY <1>5 DEF JoinReader, Settle
<1>6. CASE StderrTimesOut \/ Decide
  BY <1>6 DEF StderrTimesOut, Decide, Settle
<1>7. CASE ReaderEnds \/ ReaderBreaks \/ ReaderFails \/ StderrBreaks
  BY <1>7 DEF ReaderEnds, ReaderBreaks, ReaderFails, StderrBreaks
<1>8. CASE ProcessExits \/ HolderEnds \/ Tick
  BY <1>8 DEF ProcessExits, HolderEnds, Tick
<1>9. CASE RequestCancel
  BY <1>9 DEF RequestCancel
<1>10. CASE UNCHANGED vars
  BY <1>10 DEF vars
<1> QED BY <1>1, <1>2, <1>3, <1>4, <1>5, <1>6, <1>7, <1>8, <1>9, <1>10 DEF Next, Execute

\* One execution does to the worker what TaskQueue assumes: it settles once, and
\* says CANCELLED exactly when the cancel event was set.
THEOREM ContractKept == Spec => KeepsContract
<1>1. Init => Contract!Init
  BY DEF Init, Contract!Init
<1> QED BY <1>1, ContractStep, Invariance, PTL DEF Spec, KeepsContract, Contract!Spec
=============================================================================
