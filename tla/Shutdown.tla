------------------------------ MODULE Shutdown ------------------------------
(***************************************************************************)
(* The life of the bot around its parts (main.py, amain): recovery, start, *)
(* the shutdown in its order, the cancellation of what is left by          *)
(* asyncio.run, and a kill at any time, followed by the next start.  The   *)
(* parts are the dispatch loop and the executions of the queue             *)
(* (queue_worker.py, of which TaskQueue has the detail), the database they *)
(* write to, and the playbacks (MediaPlayback).  The rows and what the     *)
(* chats were told outlive the bot, and so may an OpenCode process, which  *)
(* has a session of its own.                                               *)
(*                                                                         *)
(* Playbacks are followed through the first life of the bot only; nothing  *)
(* in a later life knows of their files or players.                        *)
(***************************************************************************)
EXTENDS Naturals, Sequences, FiniteSets

CONSTANTS
    Tasks,      \* the tasks users ask for, with /task
    Max,        \* max_concurrent_tasks
    MaxLives,   \* how often the bot is started (model bound)
    Plays       \* the files users send

ASSUME ShutdownAssumption == Max \in Nat \ {0} /\ MaxLives \in Nat

VARIABLES
    life,      \* how far the bot is, between one start and the next
    lives,     \* how often it was started
    monitored, \* whether the health loop is enabled
    db,        \* the connection to the database
    loop,      \* QueueWorker._loop_task
    stop,      \* QueueWorker._stop
    row,       \* the status of each task's row
    run,       \* the asyncio task that executes or reports each task
    alive,     \* the tasks with an OpenCode process
    launched,  \* history: how many such processes each task has had
    told,      \* history: the ends of each task the chats were told
    play, file, mpv, lost, closing, cancelled  \* MediaPlayback

Media == INSTANCE MediaPlayback WITH pc <- play

workerVars == <<loop, stop>>
taskVars == <<row, run, alive, launched, told>>
mediaVars == <<play, file, mpv, lost, closing, cancelled>>
vars == <<life, lives, monitored, db, loop, stop, row, run, alive, launched, told,
          play, file, mpv, lost, closing, cancelled>>

\* Whether there is an event loop.
Up == life # "down"
Ends == {"COMPLETED", "FAILED"}
With(status) == {t \in Tasks : row[t] = status}

Init ==
    /\ life = "down"
    /\ lives = 0
    /\ monitored \in BOOLEAN
    /\ db = "closed"
    /\ loop = "off"
    /\ stop = FALSE
    /\ row = [t \in Tasks |-> "absent"]
    /\ run = [t \in Tasks |-> "none"]
    /\ alive = {}
    /\ launched = [t \in Tasks |-> 0]
    /\ told = [t \in Tasks |-> <<>>]
    /\ Media!Init

Row(t, status) == row' = [row EXCEPT ![t] = status]
Run(t, step) == run' = [run EXCEPT ![t] = step]
Tells(t, status) == told' = [told EXCEPT ![t] = Append(@, status)]

-----------------------------------------------------------------------------
(* The start.                                                                *)

Boot ==
    /\ life = "down"
    /\ lives < MaxLives
    /\ life' = "boot"
    /\ lives' = lives + 1
    /\ db' = "open"
    /\ UNCHANGED <<monitored, workerVars, taskVars, mediaVars>>

\* Mutant of Recover: the task is queued again.
RecoverRequeuing(t) ==
    /\ life = "boot"
    /\ row[t] = "RUNNING"
    /\ Row(t, "PENDING")
    /\ Run(t, "recovered")
    /\ UNCHANGED <<life, lives, monitored, db, workerVars, alive, launched, told, mediaVars>>

\* recover_interrupted, one row after the other.
Recover(t) ==
    /\ life = "boot"
    /\ row[t] = "RUNNING"
    /\ Row(t, "FAILED")
    /\ Run(t, "recovered")
    /\ UNCHANGED <<life, lives, monitored, db, workerVars, alive, launched, told, mediaVars>>

TellInterrupted(t) ==
    /\ life = "boot"
    /\ With("RUNNING") = {}
    /\ run[t] = "recovered"
    /\ Tells(t, "FAILED")
    /\ Run(t, "over")
    /\ UNCHANGED <<life, lives, monitored, db, workerVars, row, alive, launched, mediaVars>>

\* worker.start, monitoring.start and the polling.
Serve ==
    /\ life = "boot"
    /\ With("RUNNING") = {}
    /\ \A t \in Tasks : run[t] # "recovered"
    /\ life' = "serving"
    /\ loop' = "pass"
    /\ UNCHANGED <<lives, monitored, db, stop, taskVars, mediaVars>>

Starting == Serve \/ \E t \in Tasks : Recover(t) \/ TellInterrupted(t)

-----------------------------------------------------------------------------
(* The queue.                                                                *)

\* A handler inserts a task; handlers are not awaited when the polling ends.
Create(t) ==
    /\ life \notin {"down", "boot", "cancelled"}
    /\ db = "open"
    /\ row[t] = "absent"
    /\ Row(t, "PENDING")
    /\ UNCHANGED <<life, lives, monitored, db, workerVars, run, alive, launched, told, mediaVars>>

\* dispatch, for one of the tasks; the pass goes on to its end also if the worker is
\* to stop.
Dispatch(t) ==
    /\ loop = "pass"
    /\ db = "open"
    /\ row[t] = "PENDING"
    /\ Cardinality(With("RUNNING")) < Max
    /\ Row(t, "RUNNING")
    /\ Run(t, "scheduled")
    /\ UNCHANGED <<life, lives, monitored, db, workerVars, alive, launched, told, mediaVars>>

PassEnds ==
    /\ loop = "pass"
    /\ loop' = "waiting"
    /\ UNCHANGED <<life, lives, monitored, db, stop, taskVars, mediaVars>>

\* The interval is over or the event is set: while not stop.
LoopWakes ==
    /\ loop = "waiting"
    /\ loop' = IF stop THEN "over" ELSE "pass"
    /\ UNCHANGED <<life, lives, monitored, db, stop, taskVars, mediaVars>>

Dispatching == PassEnds \/ LoopWakes

\* execute reads the row.
Begin(t) ==
    /\ run[t] = "scheduled"
    /\ db = "open"
    /\ Run(t, "begun")
    /\ UNCHANGED <<life, lives, monitored, db, workerVars, row, alive, launched, told, mediaVars>>

Launch(t) ==
    /\ run[t] = "begun"
    /\ alive' = alive \cup {t}
    /\ launched' = [launched EXCEPT ![t] = @ + 1]
    /\ Run(t, "wait")
    /\ UNCHANGED <<life, lives, monitored, db, workerVars, row, told, mediaVars>>

\* The project is no longer configured, or OpenCode cannot be started.
NotLaunched(t) ==
    /\ run[t] = "begun"
    /\ db = "open"
    /\ Row(t, "FAILED")
    /\ Run(t, "tell")
    /\ UNCHANGED <<life, lives, monitored, db, workerVars, alive, launched, told, mediaVars>>

\* OpenCode exits, by itself, on a signal, or with the control group of the service.
CodeExits(t) ==
    /\ t \in alive
    /\ alive' = alive \ {t}
    /\ UNCHANGED <<life, lives, monitored, db, workerVars, row, run, launched, told, mediaVars>>

\* The execution comes to its end (TaskExecution, TaskReport).
Finish(t) ==
    /\ run[t] = "wait"
    /\ t \notin alive
    /\ db = "open"
    /\ \E status \in Ends : Row(t, status)
    /\ Run(t, "tell")
    /\ UNCHANGED <<life, lives, monitored, db, workerVars, alive, launched, told, mediaVars>>

\* execute raises, before the launch or after the exit: the handler of _run_task records
\* the failure and tells nobody of a task that was asked for with /task.
Breaks(t) ==
    /\ run[t] = "begun" \/ (run[t] = "wait" /\ t \notin alive)
    /\ db = "open"
    /\ Row(t, "FAILED")
    /\ Run(t, "over")
    /\ UNCHANGED <<life, lives, monitored, db, workerVars, alive, launched, told, mediaVars>>

\* The row is read once more and its end told.
Tell(t) ==
    /\ run[t] = "tell"
    /\ db = "open"
    /\ Tells(t, row[t])
    /\ Run(t, "over")
    /\ UNCHANGED <<life, lives, monitored, db, workerVars, row, alive, launched, mediaVars>>

\* The database is closed: the repository raises, and once more in the handler of
\* _run_task.
Lost(t) ==
    /\ db = "closed"
    /\ run[t] \in {"scheduled", "begun", "tell"} \/ (run[t] = "wait" /\ t \notin alive)
    /\ Run(t, "over")
    /\ UNCHANGED <<life, lives, monitored, db, workerVars, row, alive, launched, told, mediaVars>>

Queue ==
    \/ Dispatching
    \/ \E t \in Tasks : Create(t) \/ Dispatch(t) \/ Begin(t) \/ Launch(t) \/ NotLaunched(t)
                          \/ Finish(t) \/ Breaks(t) \/ Tell(t) \/ Lost(t)

-----------------------------------------------------------------------------
(* Playback, in the first life.                                              *)

First == Up /\ lives = 1
Rest == <<life, lives, monitored, db, workerVars, taskVars>>

Receive(p) == First /\ life = "serving" /\ Media!Receive(p) /\ UNCHANGED Rest
DownloadWrites(p) == First /\ Media!DownloadWrites(p) /\ UNCHANGED Rest
MediaTask(p) == First /\ Media!Task(p) /\ UNCHANGED Rest
PlayerExits(p) == Media!PlayerExits(p) /\ UNCHANGED Rest

Playback == \E p \in Plays : Receive(p) \/ DownloadWrites(p) \/ MediaTask(p) \/ PlayerExits(p)

\* A step of the shutdown as the playbacks see it.
InMedia(step) == IF lives = 1 THEN step ELSE UNCHANGED mediaVars

-----------------------------------------------------------------------------
(* The shutdown: the finally of amain.                                       *)

\* Polling ends, or could not begin; stream.stop_all is next.
StopAsked ==
    /\ life = "serving"
    /\ life' = "stream"
    /\ UNCHANGED <<lives, monitored, db, workerVars, taskVars, mediaVars>>

StreamStopped ==
    /\ life = "stream"
    /\ life' = "media"
    /\ InMedia(Media!StopAll)
    /\ UNCHANGED <<lives, monitored, db, workerVars, taskVars>>

\* media.stop_all returns; worker.stop sets the event.
MediaStopped ==
    /\ life = "media"
    /\ life' = "worker"
    /\ InMedia(Media!Closed)
    /\ stop' = TRUE
    /\ UNCHANGED <<lives, monitored, db, loop, taskVars>>

\* Mutants of WorkerStopped: the loop is not awaited; the executions are awaited too.
WorkerTold ==
    /\ life = "worker"
    /\ life' = "monitor"
    /\ UNCHANGED <<lives, monitored, db, workerVars, taskVars, mediaVars>>

WorkerDrained ==
    /\ life = "worker"
    /\ loop = "over"
    /\ \A t \in Tasks : run[t] \in {"none", "over"}
    /\ life' = "monitor"
    /\ UNCHANGED <<lives, monitored, db, workerVars, taskVars, mediaVars>>

\* worker.stop returns when the loop is over.  Executions go on.
WorkerStopped ==
    /\ life = "worker"
    /\ loop = "over"
    /\ life' = "monitor"
    /\ UNCHANGED <<lives, monitored, db, workerVars, taskVars, mediaVars>>

\* monitoring.stop raises if the health loop runs (asyncio.timeout is no ordinary
\* context manager), and what follows in the finally is skipped.
MonitorStopped ==
    /\ life = "monitor"
    /\ life' = IF monitored THEN "ending" ELSE "database"
    /\ UNCHANGED <<lives, monitored, db, workerVars, taskVars, mediaVars>>

\* db.close, and the session of the bot.
DatabaseClosed ==
    /\ life = "database"
    /\ life' = "ending"
    /\ db' = "closed"
    /\ UNCHANGED <<lives, monitored, workerVars, taskVars, mediaVars>>

\* What is left of the executions when the event loop is gone.
Dropped == [t \in Tasks |-> IF run[t] = "none" THEN "none" ELSE "over"]

\* amain is over: asyncio.run cancels every task there is.
LoopEnds ==
    /\ life = "ending"
    /\ life' = "cancelled"
    /\ run' = Dropped
    /\ InMedia(Media!LoopEnds)
    /\ UNCHANGED <<lives, monitored, db, workerVars, row, alive, launched, told>>

Gone ==
    /\ life' = "down"
    /\ loop' = "off" /\ stop' = FALSE /\ db' = "closed"
    /\ run' = Dropped
    /\ UNCHANGED <<lives, monitored, row, alive, launched, told, mediaVars>>

\* The interpreter exits.
Exit ==
    /\ life = "cancelled"
    /\ cancelled = {} \/ lives > 1
    /\ Gone

\* SIGKILL, a crash or a power failure, at any time; also what ends an interpreter
\* that the thread of an open database keeps.
Kill == Up /\ Gone

ShuttingDown ==
    \/ StreamStopped \/ MediaStopped \/ WorkerStopped \/ MonitorStopped \/ DatabaseClosed
    \/ LoopEnds

Next ==
    \/ Boot \/ Starting
    \/ Queue \/ \E t \in Tasks : CodeExits(t)
    \/ Playback
    \/ StopAsked \/ ShuttingDown \/ Exit \/ Kill

(* The event loop goes on: a stop that was asked for, the dispatch loop, and *)
(* every task of a playback; mpv ends on a SIGKILL only, and OpenCode need   *)
(* not end at all.                                                           *)
Fairness ==
    /\ WF_vars(ShuttingDown) /\ WF_vars(Dispatching)
    /\ \A p \in Plays :
          WF_vars(MediaTask(p)) /\ WF_vars(play[p] = "kill" /\ PlayerExits(p))

Spec == Init /\ [][Next]_vars
FairSpec == Spec /\ Fairness

-----------------------------------------------------------------------------

TypeOK ==
    /\ life \in {"down", "boot", "serving", "stream", "media", "worker", "monitor", "database",
                 "ending", "cancelled"}
    /\ lives \in 0..MaxLives
    /\ monitored \in BOOLEAN
    /\ db \in {"open", "closed"}
    /\ loop \in {"off", "pass", "waiting", "over"}
    /\ stop \in BOOLEAN
    /\ row \in [Tasks -> {"absent", "PENDING", "RUNNING"} \cup Ends]
    /\ run \in [Tasks -> {"none", "scheduled", "begun", "wait", "tell", "recovered", "over"}]
    /\ alive \in SUBSET Tasks
    /\ launched \in [Tasks -> Nat]
    /\ told \in [Tasks -> Seq(Ends)]
    /\ Media!TypeOK

\* The dispatch loop always has its database: it is over before the connection is
\* closed, and no pass fails because of a shutdown (main.py:204-206).
DatabaseServes == loop \in {"pass", "waiting"} => db = "open"

\* Whatever stops, kills and restarts happen, a task is run at most once and its end told
\* at most once and as it is on record; and a process that outlived its execution is
\* not of a task that is said to be completed, or still waiting to be run.
AtMostOnce ==
    \A t \in Tasks :
        /\ launched[t] <= 1
        /\ told[t] = <<>> \/ told[t] = <<row[t]>>
        /\ t \in alive => row[t] \in {"RUNNING", "FAILED"}

\* A stop reaches the end of the event loop although OpenCode runs on, players do not
\* react and handlers are still at work.
StopCompletes == life = "stream" ~> life \in {"cancelled", "down"}

\* A supervisor that has begun never leaves the file, whether its player ends or the
\* shutdown, or the end of the event loop, cancels it in any of its waits.
BegunRemoves == Media!BegunRemoves

\* The whole of a playback ends, also if mpv ignores SIGTERM and whatever else the bot
\* waits for when it is stopped; unless it is killed.
PlaybackEnds == \A p \in Plays : play[p] = "download" /\ First ~> play[p] = "over" \/ ~First
=============================================================================
