---------------------------- MODULE TaskExecution ----------------------------
(***************************************************************************)
(* One execution of task_executor.py over the adapter of opencode/cli.py:  *)
(* the execute coroutine, its reader of the event stream, the OpenCode     *)
(* process with its pipes, the two timed waits, and the /cancel handler    *)
(* that sets the cancel event.  TaskQueue sees of it only what             *)
(* ExecutionOutcome states.                                                *)
(*                                                                         *)
(* Time is a discrete clock.  It advances only while execute waits for the *)
(* process, for the reader or for a pipe; everything the loop has ready    *)
(* runs before, and the kernel carries out a SIGKILL at once.              *)
(***************************************************************************)
EXTENDS Naturals

CONSTANTS
    Timeout,        \* settings.default_timeout_seconds
    Grace,          \* _CANCEL_GRACE_SECONDS
    StderrTimeout,  \* how long stderr_lines waits for the end of stderr
    Horizon         \* how far the clock goes (model bound)

ASSUME ExecutionAssumption ==
    /\ Timeout \in Nat /\ Grace \in Nat /\ StderrTimeout \in Nat
    /\ Horizon \in Nat

VARIABLES
    now,       \* the clock
    pc,        \* where execute stands
    deadline,  \* when its current wait_for gives up
    timedOut,  \* execute's local
    outcome,   \* the status it records, CRASHED for the worker's error handler
    event,     \* the cancel event of the task is set
    reader,    \* the _read_events task
    proc,      \* the OpenCode process and how it exited
    signal,    \* the last signal sent to its process group
    held,      \* a detached descendant keeps stdout and stderr open
    broken,    \* the _drain_stderr task has raised
    asked      \* history: when a cancellation was first asked of a running process

vars == <<now, pc, deadline, timedOut, outcome, event, reader, proc, signal,
          held, broken, asked>>

Exited == proc \in {"ok", "failed"}

Init ==
    /\ now = 0
    /\ pc = "spawned"
    /\ deadline = 0
    /\ timedOut = FALSE
    /\ outcome = "none"
    /\ event \in BOOLEAN
    /\ reader = "none"
    /\ proc = "none"
    /\ signal = "none"
    /\ held = FALSE
    /\ broken = FALSE
    /\ asked = {}

-----------------------------------------------------------------------------
(* TaskExecutor.execute.                                                     *)

\* Mutant of Settle: _cancel_events.pop is forgotten.
SettleKeepingEvent(o) ==
    /\ pc' = "settled"
    /\ outcome' = o
    /\ UNCHANGED event

\* The outcome is decided; all but the worker's error handler drop the event.
Settle(o) ==
    /\ pc' = "settled"
    /\ outcome' = o
    /\ event' = (event /\ o = "CRASHED")

\* The row and the project are found and the cancel event is set up.
Begin ==
    /\ pc = "spawned"
    /\ pc' = "starting"
    /\ UNCHANGED <<now, deadline, timedOut, outcome, event, reader, proc,
                   signal, held, broken, asked>>

\* The project is not configured any more.
ProjectGone ==
    /\ pc = "spawned"
    /\ Settle("FAILED")
    /\ UNCHANGED <<now, deadline, timedOut, reader, proc, signal, held, broken, asked>>

\* adapter.run raises (FAILED); git_state does (the worker's error handler).
StartFails(o) ==
    /\ pc = "starting"
    /\ Settle(o)
    /\ UNCHANGED <<now, deadline, timedOut, reader, proc, signal, held, broken, asked>>

\* OpenCode is running and so is the reader; a cancellation that came before
\* is acted upon at once, otherwise execute waits for the process to exit.
StartProcess ==
    /\ pc = "starting"
    /\ proc' = "running"
    /\ reader' = "reading"
    /\ IF event
         THEN pc' = "grace" /\ signal' = "TERM" /\ deadline' = now + Grace
         ELSE pc' = "waiting" /\ deadline' = now + Timeout /\ UNCHANGED signal
    /\ UNCHANGED <<now, timedOut, outcome, event, held, broken, asked>>

\* One of execute's waits for the process returns: it joins the reader.
ProcessAwaited ==
    /\ pc \in {"waiting", "grace", "killing"}
    /\ Exited
    /\ pc' = "joining"
    /\ UNCHANGED <<now, deadline, timedOut, outcome, event, reader, proc,
                   signal, held, broken, asked>>

\* Mutant of WaitTimesOut: the process gets the whole timeout once more.
WaitTimesOutTwice ==
    /\ pc = "waiting"
    /\ now >= deadline
    /\ timedOut' = TRUE
    /\ pc' = IF timedOut THEN "grace" ELSE "waiting"
    /\ signal' = IF Exited THEN signal ELSE "TERM"
    /\ deadline' = now + Timeout
    /\ UNCHANGED <<now, outcome, event, reader, proc, held, broken, asked>>

\* The default timeout: handle.cancel, which sends SIGTERM unless the exit has
\* been noticed in the meantime.
WaitTimesOut ==
    /\ pc = "waiting"
    /\ now >= deadline
    /\ timedOut' = TRUE
    /\ pc' = "grace"
    /\ signal' = IF Exited THEN signal ELSE "TERM"
    /\ deadline' = now + Grace
    /\ UNCHANGED <<now, outcome, event, reader, proc, held, broken, asked>>

\* Mutant of GraceEnds: handle.cancel returns without the final SIGKILL.
GraceEndsQuietly ==
    /\ pc = "grace"
    /\ now >= deadline
    /\ pc' = "joining"
    /\ UNCHANGED <<now, deadline, timedOut, outcome, event, reader, proc,
                   signal, held, broken, asked>>

\* The grace period is over: SIGKILL to the group.
GraceEnds ==
    /\ pc = "grace"
    /\ now >= deadline
    /\ pc' = "killing"
    /\ signal' = IF Exited THEN signal ELSE "KILL"
    /\ UNCHANGED <<now, deadline, timedOut, outcome, event, reader, proc,
                   held, broken, asked>>

\* await read_task: goes on to stderr, or raises what the reader raised.
JoinReader ==
    /\ pc = "joining"
    /\ \/ /\ reader = "stopped"
          /\ pc' = "stderr"
          /\ deadline' = now + StderrTimeout
          /\ UNCHANGED <<outcome, event>>
       \/ /\ reader = "failed"
          /\ Settle("CRASHED")
          /\ UNCHANGED deadline
    /\ UNCHANGED <<now, timedOut, reader, proc, signal, held, broken, asked>>

\* Everything that wrote to stderr is gone; execute stores the session id.
StderrDrained ==
    /\ pc = "stderr"
    /\ ~held /\ ~broken
    /\ pc' = "storing"
    /\ UNCHANGED <<now, deadline, timedOut, outcome, event, reader, proc,
                   signal, held, broken, asked>>

\* stderr_lines gives up, since the end of stderr does not come or there is nobody any
\* more to see it: its TimeoutError goes through to the worker.
StderrTimesOut ==
    /\ pc = "stderr"
    /\ held \/ broken
    /\ now >= deadline
    /\ Settle("CRASHED")
    /\ UNCHANGED <<now, deadline, timedOut, reader, proc, signal, held, broken, asked>>

\* Mutant of Decide: the exit is looked at before the cancel event is.
DecideExitFirst ==
    /\ pc = "storing"
    /\ Settle(IF timedOut \/ proc = "failed" THEN "FAILED"
              ELSE IF event THEN "CANCELLED" ELSE "COMPLETED")
    /\ UNCHANGED <<now, deadline, timedOut, reader, proc, signal, held, broken, asked>>

\* The cancel event first, then the timeout, then the exit code.
Decide ==
    /\ pc = "storing"
    /\ Settle(IF event THEN "CANCELLED"
              ELSE IF timedOut \/ proc = "failed" THEN "FAILED" ELSE "COMPLETED")
    /\ UNCHANGED <<now, deadline, timedOut, reader, proc, signal, held, broken, asked>>

-----------------------------------------------------------------------------
(* The reader of the event stream.                                           *)

\* The end of stdout: no process has it open any more.
ReaderEnds ==
    /\ reader = "reading"
    /\ Exited
    /\ ~held
    /\ reader' = "stopped"
    /\ UNCHANGED <<now, pc, deadline, timedOut, outcome, event, proc, signal,
                   held, broken, asked>>

\* An event arrives while the cancel event is set: the reader breaks off.
ReaderBreaks ==
    /\ reader = "reading"
    /\ event
    /\ reader' = "stopped"
    /\ UNCHANGED <<now, pc, deadline, timedOut, outcome, event, proc, signal,
                   held, broken, asked>>

\* A line beyond the stream limit: the iteration over stdout raises.
ReaderFails ==
    /\ reader = "reading"
    /\ reader' = "failed"
    /\ UNCHANGED <<now, pc, deadline, timedOut, outcome, event, proc, signal,
                   held, broken, asked>>

\* The same on stderr: _drain_stderr ends without setting _stderr_done.
StderrBreaks ==
    /\ proc = "running" \/ held
    /\ broken' = TRUE
    /\ UNCHANGED <<now, pc, deadline, timedOut, outcome, event, reader, proc,
                   signal, held, asked>>

-----------------------------------------------------------------------------
(* The process, the user, the clock.                                         *)

\* OpenCode exits, by itself or on a signal, perhaps leaving a process behind in
\* a session of its own that keeps the pipes open (cli.py:37).
ProcessExits ==
    /\ proc = "running"
    /\ \/ proc' = "failed"
       \/ signal # "KILL" /\ proc' = "ok"
    /\ held' \in BOOLEAN
    /\ UNCHANGED <<now, pc, deadline, timedOut, outcome, event, reader, signal, broken,
                   asked>>

\* What it left behind ends, which nobody can count on.
HolderEnds ==
    /\ held
    /\ held' = FALSE
    /\ UNCHANGED <<now, pc, deadline, timedOut, outcome, event, reader, proc,
                   signal, broken, asked>>

\* request_cancel, as long as the row is RUNNING.
RequestCancel ==
    /\ event' = TRUE
    /\ asked' = IF asked = {} /\ proc = "running" THEN {now} ELSE asked
    /\ UNCHANGED <<now, pc, deadline, timedOut, outcome, reader, proc, signal, held, broken>>

\* What execute waits for has not happened, and its wait_for has not run out.
Waiting ==
    \/ pc \in {"waiting", "grace"} /\ proc = "running" /\ now < deadline
    \/ pc = "joining" /\ reader = "reading" /\ held
    \/ pc = "stderr" /\ (held \/ broken) /\ now < deadline

\* The clock stops where the wait for stderr still fits in (model bound).
Tick ==
    /\ Waiting
    /\ now < Horizon
    /\ pc = "joining" => now + StderrTimeout < Horizon
    /\ now' = now + 1
    /\ UNCHANGED <<pc, deadline, timedOut, outcome, event, reader, proc, signal,
                   held, broken, asked>>

-----------------------------------------------------------------------------

Execute ==
    \/ Begin \/ ProjectGone \/ StartProcess
    \/ \E o \in {"FAILED", "CRASHED"} : StartFails(o)
    \/ ProcessAwaited \/ WaitTimesOut \/ GraceEnds \/ JoinReader
    \/ StderrDrained \/ StderrTimesOut \/ Decide

Killed == signal = "KILL" /\ ProcessExits

Next ==
    \/ Execute
    \/ ReaderEnds \/ ReaderBreaks \/ ReaderFails \/ StderrBreaks
    \/ ProcessExits \/ HolderEnds \/ RequestCancel
    \/ Tick

(* The loop goes on, the end of a stream is seen, time passes and a killed   *)
(* process dies; neither OpenCode nor what it leaves behind has to end.      *)
Fairness ==
    /\ WF_vars(Execute)
    /\ WF_vars(ReaderEnds)
    /\ WF_vars(Killed)
    /\ WF_vars(Tick)

Spec == Init /\ [][Next]_vars
FairSpec == Spec /\ Fairness

-----------------------------------------------------------------------------

TypeOK ==
    /\ now \in Nat
    /\ pc \in {"spawned", "starting", "waiting", "grace", "killing", "joining",
               "stderr", "storing", "settled"}
    /\ deadline \in Nat
    /\ timedOut \in BOOLEAN
    /\ outcome \in {"none", "COMPLETED", "FAILED", "CANCELLED", "CRASHED"}
    /\ event \in BOOLEAN
    /\ reader \in {"none", "reading", "stopped", "failed"}
    /\ proc \in {"none", "running", "ok", "failed"}
    /\ signal \in {"none", "TERM", "KILL"}
    /\ held \in BOOLEAN
    /\ broken \in BOOLEAN
    /\ asked \in SUBSET Nat

\* No OpenCode process outlives its execution, however that ends: not after a
\* timeout, a cancellation or a failure of the reader or of stderr.
NoProcessLeft == pc = "settled" => proc # "running"

\* A cancellation that came before the process was started (test_cancellation.py:17)
\* is acted upon as soon as it runs, in whatever order the two arrive.
EarlyCancelSignals == proc = "running" /\ event /\ asked = {} => signal # "none"

\* A cancellation asked of a running process is not lost to its exit code or to
\* the timeout: the task ends CANCELLED unless the execution crashes.
CancelHonoured ==
    pc = "settled" /\ asked # {} => outcome \in {"CANCELLED", "CRASHED"}

\* COMPLETED is only said of a process that exited with 0 in time and unasked.
CompletedIsTrue ==
    outcome = "COMPLETED" => proc = "ok" /\ ~timedOut /\ signal = "none"

\* OpenCode is gone when its execution is over, and Timeout and Grace after its start,
\* however it, its reader and cancellations behave ("timeout enforcement and graceful
\* cancellation", task_executor.py:7).
EndsInTime == proc = "running" => pc # "settled" /\ now <= Timeout + Grace

\* A running process that a user has asked to stop is gone after the grace period
\* ("Ask the running execution of task_id to stop", task_executor.py:56).
CancelIsPrompt ==
    \A t \in asked : proc = "running" => now <= t + Grace

\* An execution settles even if OpenCode ignores SIGTERM and never exits by
\* itself, provided that whatever OpenCode left behind lets go of its pipes.
EverythingSettles == (<>[]~held) => <>(pc = "settled")

Contract == INSTANCE ExecutionOutcome
    WITH stage <- IF pc \in {"spawned", "settled"} THEN pc ELSE "executing"

\* One execution does to its caller what TaskQueue assumes of it.
KeepsContract == Contract!Spec
=============================================================================
