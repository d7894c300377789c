----------------------------- MODULE TaskQueue -----------------------------
(***************************************************************************)
(* The task queue of the OpenCode Telegram controller: the tasks table of  *)
(* repository.py, the dispatch loop of queue_worker.py, the submit and     *)
(* cancel handlers of task_manager.py and the skeleton of one execution in *)
(* task_executor.py (TaskExecution refines what goes on inside it).        *)
(*                                                                         *)
(* All the code runs on one asyncio loop and over one aiosqlite            *)
(* connection, so the atomic steps are the database calls: every await is  *)
(* a point where any other coroutine may run, and an UPDATE and the commit *)
(* that follows it are two steps.  Each action below is one database call  *)
(* together with the code that runs between it and the coroutine's         *)
(* previous one.  Rows are seen by every coroutine as soon as they are     *)
(* written; a commit makes every pending write durable, whoever made it;   *)
(* a crash loses what is not committed.                                    *)
(***************************************************************************)
EXTENDS Naturals, FiniteSets

CONSTANTS
    MaxTasks,        \* how many rows the tasks table ever gets (model bound)
    Projects,        \* the configured projects
    Sessions,        \* conversations
    SessionProject,  \* the project each conversation belongs to
    NoSession,       \* session_internal_id of a task outside a conversation
    Capacity,        \* settings.max_concurrent_tasks
    PageSize,        \* LIMIT of next_pending (50 in the code)
    Cancellers,      \* the /cancel requests, each in a handler of its own
    MaxCrashes       \* crashes and restarts explored (model bound)

ASSUME QueueAssumption ==
    /\ MaxTasks \in Nat
    /\ SessionProject \in [Sessions -> Projects]
    /\ NoSession \notin Sessions
    /\ Capacity \in Nat \ {0}
    /\ PageSize \in Nat \ {0}
    /\ MaxCrashes \in Nat

VARIABLES
    status,      \* status column of each row, as every coroutine sees it
    durable,     \* the status column as of the last commit
    job,         \* project_id and session_internal_id of each row
    dispatcher,  \* where the boot sequence, then the dispatch loop, stands
    running,     \* the dispatch loop's local count
    page,        \* the ids it still has to look at: next_pending's snapshot
    exec,        \* where _run_task stands for each task
    outcome,     \* what the execution of each task decided to record
    cancelSet,   \* the tasks whose event in TaskExecutor._cancel_events is set
    cancel,      \* the /cancel handlers in flight
    owner,       \* what the user who submitted each task waits for or knows
    runs,        \* history: how often OpenCode was started for each task
    crashes      \* history: crashes so far

vars == <<status, durable, job, dispatcher, running, page, exec, outcome,
          cancelSet, cancel, owner, runs, crashes>>

TaskIds == 1..MaxTasks

Terminal == {"COMPLETED", "FAILED", "CANCELLED"}
Status == {"absent", "PENDING", "RUNNING"} \cup Terminal

\* create_task's rows have no session; send_message's have the session's project.
Jobs == [project : Projects, session : {NoSession}]
          \cup {[project |-> SessionProject[s], session |-> s] : s \in Sessions}
NoJob == [project |-> NoSession, session |-> NoSession]

\* Only send_message sets the interactive column, and it always sets the session.
Interactive(t) == job[t].session # NoSession

Running == {t \in TaskIds : status[t] = "RUNNING"}
ProjectBusy(t) == \E u \in Running : job[u].project = job[t].project
SessionBusy(t) == \E u \in Running : job[u].session = job[t].session

\* Mutant of NextPending: ORDER BY id DESC.
NewestPending ==
    LET pending == {t \in TaskIds : status[t] = "PENDING"}
    IN  {t \in pending : Cardinality({u \in pending : u > t}) < PageSize}

\* SELECT ... WHERE status = 'PENDING' ORDER BY id ASC LIMIT 50
NextPending ==
    LET pending == {t \in TaskIds : status[t] = "PENDING"}
    IN  {t \in pending : Cardinality({u \in pending : u < t}) < PageSize}

Oldest(t) == t \in page /\ \A u \in page : t <= u

\* The recovery of main.py is over, the worker and the polling are started.
Up == dispatcher \notin {"down", "recover", "notify"}

\* A /cancel request before it arrives and after it has been dealt with.
Idle == [at |-> "idle", task |-> 0]
Done == [at |-> "done", task |-> 0]

Init ==
    /\ status = [t \in TaskIds |-> "absent"]
    /\ durable = [t \in TaskIds |-> "absent"]
    /\ job = [t \in TaskIds |-> NoJob]
    /\ dispatcher = "down"
    /\ running = 0
    /\ page = {}
    /\ exec = [t \in TaskIds |-> "none"]
    /\ outcome = [t \in TaskIds |-> "none"]
    /\ cancelSet = {}
    /\ cancel = [c \in Cancellers |-> Idle]
    /\ owner = [t \in TaskIds |-> "none"]
    /\ runs = [t \in TaskIds |-> 0]
    /\ crashes = 0

-----------------------------------------------------------------------------
(* Submitting: TaskManager.create_task (API) and send_message (a message in  *)
(* a session).  A prompt that is rejected (unknown project, empty, too long, *)
(* duplicate, session gone) changes nothing.                                 *)

\* The INSERT of TaskRepository.create_task.  AUTOINCREMENT hands out ids in order.
InsertTask(t, j) ==
    /\ Up
    /\ status[t] = "absent"
    /\ \A u \in TaskIds : u < t => status[u] # "absent"
    /\ status' = [status EXCEPT ![t] = "PENDING"]
    /\ job' = [job EXCEPT ![t] = j]
    /\ owner' = [owner EXCEPT ![t] = "inserting"]
    /\ UNCHANGED <<durable, dispatcher, running, page, exec, outcome,
                   cancelSet, cancel, runs, crashes>>

\* Its commit; send_message then registers the completion future it waits for.
CommitTask(t) ==
    /\ owner[t] = "inserting"
    /\ durable' = status
    /\ owner' = [owner EXCEPT ![t] = IF Interactive(t) THEN "waiting" ELSE "queued"]
    /\ UNCHANGED <<status, job, dispatcher, running, page, exec, outcome,
                   cancelSet, cancel, runs, crashes>>

\* wait_for in send_message gives up: the user is told the task still runs.
SenderTimeout(t) ==
    /\ owner[t] = "waiting"
    /\ owner' = [owner EXCEPT ![t] = "gone"]
    /\ UNCHANGED <<status, durable, job, dispatcher, running, page, exec,
                   outcome, cancelSet, cancel, runs, crashes>>

(* aiosqlite serves its calls in the order they are issued.  Between the     *)
(* INSERT of a row and the registration of its future the submitter has one  *)
(* commit and one SELECT to wait for; a dispatch or a /cancel that saw the   *)
(* row has more calls than that to make before it can resolve the future.    *)
SubmitterAhead(t) == owner[t] # "inserting"

\* TaskExecutor.resolve_completion, which nobody may wait for any more, or a
\* notification to every authorized chat.
Tell(t) ==
    owner' = [owner EXCEPT ![t] = IF Interactive(t) /\ @ # "waiting" THEN @ ELSE "told"]

-----------------------------------------------------------------------------
(* Cancelling: TaskManager.cancel_task.  Somebody else's task, an unknown id *)
(* or a finished task only get an error message.                             *)

\* get_task: the handler goes on with the row as it is now.
CancelRead(c, t) ==
    /\ Up
    /\ cancel[c].at = "idle"
    /\ status[t] \in {"PENDING", "RUNNING"}
    /\ SubmitterAhead(t)
    /\ cancel' = [cancel EXCEPT ![c] =
                    [at |-> IF status[t] = "RUNNING" THEN "request" ELSE "write", task |-> t]]
    /\ UNCHANGED <<status, durable, job, dispatcher, running, page, exec,
                   outcome, cancelSet, owner, runs, crashes>>

\* It saw RUNNING: executor.request_cancel.
CancelRequest(c) ==
    /\ cancel[c].at = "request"
    /\ cancelSet' = cancelSet \cup {cancel[c].task}
    /\ cancel' = [cancel EXCEPT ![c] = Done]
    /\ UNCHANGED <<status, durable, job, dispatcher, running, page, exec,
                   outcome, owner, runs, crashes>>

\* It saw PENDING: mark_finished(CANCELLED), which does not look at the row again.
CancelWrite(c) ==
    /\ cancel[c].at = "write"
    /\ status' = [status EXCEPT ![cancel[c].task] = "CANCELLED"]
    /\ cancel' = [cancel EXCEPT ![c].at = "commit"]
    /\ UNCHANGED <<durable, job, dispatcher, running, page, exec, outcome,
                   cancelSet, owner, runs, crashes>>

CancelCommit(c) ==
    /\ cancel[c].at = "commit"
    /\ durable' = status
    /\ cancel' = [cancel EXCEPT ![c].at = "tell"]
    /\ UNCHANGED <<status, job, dispatcher, running, page, exec, outcome,
                   cancelSet, owner, runs, crashes>>

CancelTell(c) ==
    /\ cancel[c].at = "tell"
    /\ Tell(cancel[c].task)
    /\ cancel' = [cancel EXCEPT ![c] = Done]
    /\ UNCHANGED <<status, durable, job, dispatcher, running, page, exec,
                   outcome, cancelSet, runs, crashes>>

-----------------------------------------------------------------------------
(* QueueWorker.dispatch.  One loop calls it again and again.                 *)

\* Mutant of CountRunning: counts the executions that have begun, not the rows.
CountBegun ==
    /\ dispatcher = "idle"
    /\ running' = Cardinality({t \in TaskIds : exec[t] = "executing"})
    /\ dispatcher' = "select"
    /\ UNCHANGED <<status, durable, job, page, exec, outcome, cancelSet,
                   cancel, owner, runs, crashes>>

CountRunning ==
    /\ dispatcher = "idle"
    /\ running' = Cardinality(Running)
    /\ dispatcher' = "select"
    /\ UNCHANGED <<status, durable, job, page, exec, outcome, cancelSet,
                   cancel, owner, runs, crashes>>

SelectPending ==
    /\ dispatcher = "select"
    /\ page' = NextPending
    /\ dispatcher' = "scan"
    /\ UNCHANGED <<status, durable, job, running, exec, outcome, cancelSet,
                   cancel, owner, runs, crashes>>

\* The snapshot is exhausted, or the loop breaks because the limit is reached.
EndDispatch ==
    /\ dispatcher = "scan"
    /\ page = {} \/ running >= Capacity
    /\ page' = {}
    /\ running' = 0
    /\ dispatcher' = "idle"
    /\ UNCHANGED <<status, durable, job, exec, outcome, cancelSet, cancel,
                   owner, runs, crashes>>

\* Both checks of a task end here: skip it, or count it and go on to start it.
SkipOrGoOn(t, busy, next) ==
    /\ page' = IF busy THEN page \ {t} ELSE page
    /\ dispatcher' = IF busy THEN "scan" ELSE next
    /\ running' = IF ~busy /\ next = "mark" THEN running + 1 ELSE running

\* Mutant of CheckProject: only the conversation is looked at.
CheckProjectNever(t) ==
    /\ dispatcher = "scan"
    /\ running < Capacity
    /\ Oldest(t)
    /\ SkipOrGoOn(t, FALSE, IF Interactive(t) THEN "session" ELSE "mark")
    /\ UNCHANGED <<status, durable, job, exec, outcome, cancelSet, cancel,
                   owner, runs, crashes>>

CheckProject(t) ==
    /\ dispatcher = "scan"
    /\ running < Capacity
    /\ Oldest(t)
    /\ SkipOrGoOn(t, ProjectBusy(t), IF Interactive(t) THEN "session" ELSE "mark")
    /\ UNCHANGED <<status, durable, job, exec, outcome, cancelSet, cancel,
                   owner, runs, crashes>>

CheckSession(t) ==
    /\ dispatcher = "session"
    /\ Oldest(t)
    /\ SkipOrGoOn(t, SessionBusy(t), "mark")
    /\ UNCHANGED <<status, durable, job, exec, outcome, cancelSet, cancel,
                   owner, runs, crashes>>

\* The UPDATE of mark_started: by id, whatever the row says by now.
MarkStarted(t) ==
    /\ dispatcher = "mark"
    /\ Oldest(t)
    /\ status' = [status EXCEPT ![t] = "RUNNING"]
    /\ dispatcher' = "commit"
    /\ UNCHANGED <<durable, job, running, page, exec, outcome, cancelSet,
                   cancel, owner, runs, crashes>>

\* Mutant of CommitStarted: the commit of mark_started is forgotten.
CommitStartedForgotten(t) ==
    /\ dispatcher = "commit"
    /\ Oldest(t)
    /\ exec' = [exec EXCEPT ![t] = "spawned"]
    /\ page' = page \ {t}
    /\ dispatcher' = "scan"
    /\ UNCHANGED <<status, durable, job, running, outcome, cancelSet, cancel,
                   owner, runs, crashes>>

\* Its commit, after which the loop creates the _run_task coroutine.
CommitStarted(t) ==
    /\ dispatcher = "commit"
    /\ Oldest(t)
    /\ durable' = status
    /\ exec' = [exec EXCEPT ![t] = "spawned"]
    /\ page' = page \ {t}
    /\ dispatcher' = "scan"
    /\ UNCHANGED <<status, job, running, outcome, cancelSet, cancel, owner,
                   runs, crashes>>

-----------------------------------------------------------------------------
(* QueueWorker._run_task and TaskExecutor.execute.                           *)

\* get_task, the project lookup, and the cancel event of this execution (the
\* one request_cancel has left there already, if it came first).
BeginExecution(t) ==
    /\ exec[t] = "spawned"
    /\ SubmitterAhead(t)
    /\ exec' = [exec EXCEPT ![t] = "executing"]
    /\ runs' = [runs EXCEPT ![t] = @ + 1]
    /\ UNCHANGED <<status, durable, job, dispatcher, running, page, outcome,
                   cancelSet, cancel, owner, crashes>>

\* An execution settles on the outcome o; all but the worker's own error
\* handler drop the cancel event first.
Settle(t, o) ==
    /\ outcome' = [outcome EXCEPT ![t] = o]
    /\ exec' = [exec EXCEPT ![t] = "write"]
    /\ cancelSet' = IF o = "CRASHED" THEN cancelSet ELSE cancelSet \ {t}
    /\ UNCHANGED <<status, durable, job, dispatcher, running, page, cancel,
                   owner, runs, crashes>>

\* The project is not configured any more, so nothing is started.
ProjectGone(t) ==
    /\ exec[t] = "spawned"
    /\ SubmitterAhead(t)
    /\ Settle(t, "FAILED")

\* adapter.run raised: _fail, whether or not a cancellation was requested.
StartFails(t) ==
    /\ exec[t] = "executing"
    /\ Settle(t, "FAILED")

\* The process is over and no cancellation was requested: _finish_success,
\* or _fail after a timeout or a non-zero exit.
ProcessEnds(t) ==
    /\ exec[t] = "executing"
    /\ t \notin cancelSet
    /\ \E o \in {"COMPLETED", "FAILED"} : Settle(t, o)

\* The process is over and a cancellation was requested meanwhile.
ProcessCancelled(t) ==
    /\ exec[t] = "executing"
    /\ t \in cancelSet
    /\ Settle(t, "CANCELLED")

\* Mutant of ExecutionCrashes: _run_task without its error handler.
ExecutionCrashesUnhandled(t) ==
    /\ exec[t] = "executing"
    /\ exec' = [exec EXCEPT ![t] = "none"]
    /\ UNCHANGED <<status, durable, job, dispatcher, running, page, outcome,
                   cancelSet, cancel, owner, runs, crashes>>

\* execute raised (the reader or stderr failed): the handler in _run_task.
ExecutionCrashes(t) ==
    /\ exec[t] = "executing"
    /\ Settle(t, "CRASHED")

\* The UPDATE of mark_finished: by id, whatever the row says by now.
WriteOutcome(t) ==
    /\ exec[t] = "write"
    /\ status' = [status EXCEPT ![t] =
                    IF outcome[t] = "CRASHED" THEN "FAILED" ELSE outcome[t]]
    /\ exec' = [exec EXCEPT ![t] = "commit"]
    /\ UNCHANGED <<durable, job, dispatcher, running, page, outcome,
                   cancelSet, cancel, owner, runs, crashes>>

CommitOutcome(t) ==
    /\ exec[t] = "commit"
    /\ durable' = status
    /\ exec' = [exec EXCEPT ![t] = "report"]
    /\ UNCHANGED <<status, job, dispatcher, running, page, outcome,
                   cancelSet, cancel, owner, runs, crashes>>

\* Mutant of ReportOutcome: the worker's error handler does not reply either.
ReportOutcomeSilently(t) ==
    /\ exec[t] = "report"
    /\ IF outcome[t] = "CRASHED" THEN UNCHANGED owner ELSE Tell(t)
    /\ exec' = [exec EXCEPT ![t] = "none"]
    /\ outcome' = [outcome EXCEPT ![t] = "none"]
    /\ UNCHANGED <<status, durable, job, dispatcher, running, page,
                   cancelSet, cancel, runs, crashes>>

\* The reply or the notification; the worker's error handler only replies.
ReportOutcome(t) ==
    /\ exec[t] = "report"
    /\ IF outcome[t] = "CRASHED" /\ ~Interactive(t) THEN UNCHANGED owner ELSE Tell(t)
    /\ exec' = [exec EXCEPT ![t] = "none"]
    /\ outcome' = [outcome EXCEPT ![t] = "none"]
    /\ UNCHANGED <<status, durable, job, dispatcher, running, page,
                   cancelSet, cancel, runs, crashes>>

-----------------------------------------------------------------------------
(* Stopping and starting.  A graceful stop waits for the dispatch loop only  *)
(* and then closes the database under the executions: to them it is a crash. *)

Crash ==
    /\ crashes < MaxCrashes
    /\ crashes' = crashes + 1
    /\ status' = durable
    /\ job' = [t \in TaskIds |-> IF durable[t] = "absent" THEN NoJob ELSE job[t]]
    /\ dispatcher' = "down"
    /\ running' = 0
    /\ page' = {}
    /\ exec' = [t \in TaskIds |-> "none"]
    /\ outcome' = [t \in TaskIds |-> "none"]
    /\ cancelSet' = {}
    /\ cancel' = [c \in Cancellers |-> IF cancel[c] = Idle THEN Idle ELSE Done]
    /\ owner' = [t \in TaskIds |->
                   IF owner[t] \in {"inserting", "waiting"} THEN "gone" ELSE owner[t]]
    /\ UNCHANGED <<durable, runs>>

\* main.amain: recover_interrupted selects the RUNNING rows ...
ReadInterrupted ==
    /\ dispatcher = "down"
    /\ page' = Running
    /\ dispatcher' = "recover"
    /\ UNCHANGED <<status, durable, job, running, exec, outcome, cancelSet,
                   cancel, owner, runs, crashes>>

\* ... and marks each one FAILED.  Nothing else runs yet, so the UPDATE and
\* its commit are one step.
RecoverTask(t) ==
    /\ dispatcher = "recover"
    /\ t \in page
    /\ status[t] = "RUNNING"
    /\ status' = [status EXCEPT ![t] = "FAILED"]
    /\ durable' = status'
    /\ UNCHANGED <<job, dispatcher, running, page, exec, outcome, cancelSet,
                   cancel, owner, runs, crashes>>

\* Mutant of Recovered: the interrupted rows are left as they are.
RecoveredUnmarked ==
    /\ dispatcher = "recover"
    /\ dispatcher' = "notify"
    /\ UNCHANGED <<status, durable, job, running, page, exec, outcome,
                   cancelSet, cancel, owner, runs, crashes>>

Recovered ==
    /\ dispatcher = "recover"
    /\ page \cap Running = {}
    /\ dispatcher' = "notify"
    /\ UNCHANGED <<status, durable, job, running, page, exec, outcome,
                   cancelSet, cancel, owner, runs, crashes>>

\* amain then notifies every interrupted task, interactive or not.
NotifyInterrupted(t) ==
    /\ dispatcher = "notify"
    /\ t \in page
    /\ owner' = [owner EXCEPT ![t] = "told"]
    /\ page' = page \ {t}
    /\ UNCHANGED <<status, durable, job, dispatcher, running, exec, outcome,
                   cancelSet, cancel, runs, crashes>>

StartWorker ==
    /\ dispatcher = "notify"
    /\ page = {}
    /\ dispatcher' = "idle"
    /\ UNCHANGED <<status, durable, job, running, page, exec, outcome,
                   cancelSet, cancel, owner, runs, crashes>>

-----------------------------------------------------------------------------

Submitting == \E t \in TaskIds : CommitTask(t)

Cancelling(c) ==
    CancelRequest(c) \/ CancelWrite(c) \/ CancelCommit(c) \/ CancelTell(c)

Booting ==
    \/ ReadInterrupted \/ Recovered \/ StartWorker
    \/ \E t \in TaskIds : RecoverTask(t) \/ NotifyInterrupted(t)

Dispatching ==
    \/ CountRunning \/ SelectPending \/ EndDispatch
    \/ \E t \in TaskIds : \/ CheckProject(t) \/ CheckSession(t)
                          \/ MarkStarted(t) \/ CommitStarted(t)

Executing(t) ==
    \/ BeginExecution(t) \/ ProjectGone(t) \/ StartFails(t) \/ ProcessEnds(t)
    \/ ProcessCancelled(t) \/ ExecutionCrashes(t)
    \/ WriteOutcome(t) \/ CommitOutcome(t) \/ ReportOutcome(t)

Next ==
    \/ \E t \in TaskIds : \E j \in Jobs : InsertTask(t, j)
    \/ Submitting
    \/ \E t \in TaskIds : SenderTimeout(t)
    \/ \E c \in Cancellers : \E t \in TaskIds : CancelRead(c, t)
    \/ \E c \in Cancellers : Cancelling(c)
    \/ Booting
    \/ Dispatching
    \/ \E t \in TaskIds : Executing(t)
    \/ Crash

(* The loop runs every ready coroutine and the database answers every call,  *)
(* so what has begun goes on; the default timeout and the final SIGKILL end  *)
(* an execution.  Users, timeouts of the sender and crashes are not fair.    *)
Fairness ==
    /\ WF_vars(Submitting)
    /\ WF_vars(Booting)
    /\ WF_vars(Dispatching)
    /\ \A t \in TaskIds : WF_vars(Executing(t))
    /\ \A c \in Cancellers : WF_vars(Cancelling(c))

Spec == Init /\ [][Next]_vars
FairSpec == Spec /\ Fairness

-----------------------------------------------------------------------------

TypeOK ==
    /\ status \in [TaskIds -> Status]
    /\ durable \in [TaskIds -> Status]
    /\ job \in [TaskIds -> Jobs \cup {NoJob}]
    /\ dispatcher \in {"down", "recover", "notify", "idle", "select", "scan",
                       "session", "mark", "commit"}
    /\ running \in Nat
    /\ page \in SUBSET TaskIds
    /\ exec \in [TaskIds -> {"none", "spawned", "executing", "write", "commit", "report"}]
    /\ outcome \in [TaskIds -> {"none", "CRASHED"} \cup Terminal]
    /\ \A t \in TaskIds : exec[t] = "write" => outcome[t] # "none"
    /\ cancelSet \in SUBSET TaskIds
    /\ cancel \in [Cancellers -> {Idle, Done} \cup
                     [at : {"request", "write", "commit", "tell"}, task : TaskIds]]
    /\ owner \in [TaskIds -> {"none", "inserting", "queued", "waiting", "gone", "told"}]
    /\ runs \in [TaskIds -> Nat]
    /\ crashes \in Nat

-----------------------------------------------------------------------------
(* Safety.                                                                   *)

\* At most Capacity rows are RUNNING, although the loop counts them once per
\* dispatch and rows change under it (queue_worker.py:5).
RunningBound == Cardinality(Running) <= Capacity

\* No two RUNNING rows share a project or a conversation, although the row of
\* a started task is written several awaits after the check (queue_worker.py:6-7).
RowIsolation ==
    \A t, u \in Running : t # u => /\ job[t].project # job[u].project
                                   /\ Interactive(t) => job[t].session # job[u].session

\* OpenCode is started at most once for a task, over all crashes and restarts:
\* what makes a row RUNNING is durable before its execution exists.
AtMostOnce == \A t \in TaskIds : runs[t] <= 1

\* While the bot is up, a RUNNING row has an execution that will finish it: no
\* row is left RUNNING by a crash, a cancellation or the worker's error handler,
\* so none blocks its project for ever.
NoOrphanRunning ==
    Up => \A t \in Running : exec[t] # "none" \/ (dispatcher = "commit" /\ Oldest(t))

\* A row is RUNNING, or its user has cancelled it, as long as OpenCode works on it.
Working(t) == exec[t] = "executing"
WorkingIsAccounted ==
    \A t \in TaskIds : Working(t) => status[t] \in {"RUNNING", "CANCELLED"}

\* Two OpenCode processes never work in the same project: the workspace
\* isolation of queue_worker.py:6, for the processes and not the rows.
WorkspaceIsolation ==
    \A t, u \in TaskIds : Working(t) /\ Working(u) /\ t # u
                            => job[t].project # job[u].project

\* With max_concurrent_tasks = 1 (the default) the queue is first come, first
\* served over all projects ("oldest PENDING tasks first", queue_worker.py:8).
OldestFirst ==
    \A t, u \in TaskIds : t < u /\ runs[u] > 0 => status[t] # "PENDING"

\* Each task goes through the stages of TaskLifecycle.  A task is queued as
\* long as the dispatch loop may still start it, even from a stale snapshot.
MayBeStarted(t) ==
    \/ durable[t] = "PENDING"
    \/ t \in page /\ dispatcher \in {"scan", "session", "mark", "commit"}

Stage(t) ==
    IF durable[t] = "absent" THEN "new"
    ELSE IF exec[t] # "none" THEN "started"
    ELSE IF MayBeStarted(t) THEN "queued"
    ELSE "over"

Lifecycle == INSTANCE TaskLifecycle
                WITH Task <- TaskIds, stage <- [t \in TaskIds |-> Stage(t)]

FollowsLifecycle == Lifecycle!Spec

-----------------------------------------------------------------------------
(* The inductive invariant behind the safety properties.                     *)

DispatchPhases == {"scan", "session", "mark", "commit"}

DurablyRunning == {t \in TaskIds : durable[t] = "RUNNING"}

\* The loop's count is never below the RUNNING rows (in "mark" it is one ahead),
\* nor above the limit; what is durable respects the limit as well.
CountInv ==
    /\ running <= Capacity
    /\ dispatcher \in {"select", "scan", "session", "commit"} => Cardinality(Running) <= running
    /\ dispatcher = "session" => running < Capacity
    /\ dispatcher = "mark" => Cardinality(Running) + 1 <= running
    /\ RunningBound
    /\ Cardinality(DurablyRunning) <= Capacity

\* A checked project stays free until its task is marked, and the RUNNING rows
\* that are durable are as isolated as those that are visible.
ProjectInv ==
    /\ \A t, u \in TaskIds : status[t] = "RUNNING" /\ status[u] = "RUNNING" /\ t # u
                              => job[t].project # job[u].project
    /\ \A t, u \in TaskIds : durable[t] = "RUNNING" /\ durable[u] = "RUNNING" /\ t # u
                              => job[t].project # job[u].project
    /\ \A t \in TaskIds : dispatcher \in {"session", "mark"} /\ Oldest(t) => ~ProjectBusy(t)

\* The tasks of the snapshot have not been started; at worst they were cancelled.
\* The one the loop has just marked is at its commit.
PageInv ==
    /\ dispatcher \in DispatchPhases =>
          \A t \in page : /\ exec[t] = "none"
                          /\ runs[t] = 0
                          /\ \/ status[t] \in {"PENDING", "CANCELLED"}
                             \/ dispatcher = "commit" /\ Oldest(t) /\ status[t] = "RUNNING"
    /\ dispatcher = "commit" =>
          \A t \in page : Oldest(t) => status[t] \in {"RUNNING", "CANCELLED"}

\* What has an execution, or has had one, is durably no longer waiting; nothing
\* executes before the recovery is over.
ExecInv ==
    \A t \in TaskIds :
        /\ runs[t] <= 1
        /\ runs[t] > 0 \/ exec[t] # "none" =>
              /\ status[t] \notin {"absent", "PENDING"}
              /\ durable[t] \notin {"absent", "PENDING"}
        /\ exec[t] = "spawned" => runs[t] = 0
        /\ exec[t] \in {"spawned", "executing", "write"} => status[t] \in {"RUNNING", "CANCELLED"}
        /\ exec[t] \in {"commit", "report"} => status[t] # "RUNNING"
        /\ ~Up => exec[t] = "none"

\* A row never goes back to PENDING, nor disappears, once that is durable.
DurableInv ==
    \A t \in TaskIds :
        /\ status[t] = "PENDING" => durable[t] \in {"absent", "PENDING"}
        /\ status[t] = "absent" => durable[t] = "absent"

\* Who answers for a RUNNING row, from the recovery on.
OrphanInv ==
    /\ NoOrphanRunning
    /\ dispatcher = "recover" => Running \subseteq page
    /\ dispatcher = "notify" => Running = {}

IInv == /\ TypeOK /\ CountInv /\ ProjectInv /\ PageInv
        /\ ExecInv /\ DurableInv /\ OrphanInv

-----------------------------------------------------------------------------
(* Liveness, under FairSpec.                                                 *)

\* A durable task that waits is finished in the end: also if it is not on the page
\* that an older task of a busy project heads (repository.py:218), if that one is
\* cancelled there, and if a crash anywhere leaves RUNNING rows to recover.
EveryTaskEnds == \A t \in TaskIds : durable[t] = "PENDING" ~> durable[t] \in Terminal

\* A message in a conversation is answered, and not by its timeout, unless the bot
\* crashes: every way a task can end resolves the future, with a /cancel and a
\* restart in between as well.
EveryMessageAnswered ==
    \A t \in TaskIds : owner[t] = "waiting" ~> owner[t] \in {"told", "gone"}
=============================================================================
