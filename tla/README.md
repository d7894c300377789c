# opencode-telegram-controller in TLA+

This directory models the Telegram controller of OpenCode (`src/src/opencode_telegram_controller`)
in TLA+. TLC checks the models on small instances; TLAPS proves the results that matter most for
every value of the constants. Paths below are relative to the package, except `docs/` and `tests/`.

1. [The system](#1-the-system)
2. [Modules](#2-modules)
3. [Conventions of the models](#3-conventions-of-the-models)
4. [Component by component](#4-component-by-component)
5. [Runs and bounds](#5-runs-and-bounds)
6. [Proofs](#6-proofs)
7. [Where code and documentation disagree](#7-where-code-and-documentation-disagree)
8. [Not modelled](#8-not-modelled)
9. [Plan](#9-plan)

## 1. The system

One Python process, one asyncio event loop. aiogram polls Telegram and handles every update in a
task of its own, so two updates of one user interleave at every `await`. A dispatch loop starts
queued tasks and each execution is a task too. There are no threads of the program's own, except
that every SQLite statement and every commit is awaited from the one connection thread of aiosqlite,
which serves its callers in order. There is *one* connection: a commit of anybody commits what
everybody has written so far, and a crash loses what nobody has committed.

| Component | State | Operations | Talks to | Hard parts |
| --- | --- | --- | --- | --- |
| Task queue (`queue_worker.py`, `task_manager.py`, `repository.py`) | `tasks` rows, the dispatcher's local count and page, completion futures | submit, send_message, cancel_task, dispatch, recover_interrupted | executor, database, users | statement and commit apart, stale snapshot, cancel against start, crash and recovery |
| Task execution (`task_executor.py`, `opencode/cli.py`) | process, pipe, reader task, cancel events, row and session columns | execute, request_cancel, _finish_success | OpenCode, repository, git, chats | timeout against exit, cancel against both, pipes held by descendants, a reader that waits for Telegram |
| Sessions (`task_manager.py`, `repository.py`, `bot.py`) | `sessions`, `user_state`, `tasks` rows | /start, /use, /new, /continue, free text | queue, OpenCode | two handlers of one user, half-done activations, restart |
| Command runner (`core/process.py`) | one process group per call | run | the system | timeout, SIGTERM, SIGKILL, helpers that keep pipes |
| PC-control commands (`commands/`, `services/` vpn, docker, desktop, media, network) | the machine | about fifteen commands | runner, audit log | failing in the middle, effects after a timeout, two commands at once |
| Power (`commands/power.py`, `core/confirmation.py`, `core/audit.py`) | pending confirmations, audit log | request, confirm, dismiss | runner, database | double confirmation, expiry, the machine going down |
| Live stream (`services/stream.py`) | table of streams, recorder, clip | start, stop, stop_all, loop | wf-recorder, Telegram | done callback against a new start, shutdown |
| Playback (`services/media.py`) | files, players, supervisors | play, stop_all | mpv, Telegram | cancellation at any wait, leftover files |
| Health monitor (`services/monitoring.py`) | last status per service | start, check, stop | runner, Telegram | services change during a round, checks that hang |
| Life of the bot (`main.py`) | which parts run, the connection | recovery, start, the stops in their order | everything | what is under way when it stops, kills, the next start |
| Messages (`formatting.py`, `notifications.py`, `summaries/`) | the text that remains | split_text, notify, generate | Telegram, Ollama | cuts at boundaries, generators that fail |

What makes each correct is the list of properties in section 4. `PROJECT.json` lists all components,
modelled or not, and under `hazards` each place that is hard to test with the properties that cover it and, in a note, what
of it none covers.

How they interact:

```
 update -> handler (bot.py, commands/*) -> TaskManager / managers -> repository -> SQLite
                                        \-> CommandRunner -> system command
 QueueWorker._run_loop -> dispatch -> _run_task -> TaskExecutor.execute -> OpenCode process
                                                      \-> mark_finished, completion future, notification
 main.py: recover_interrupted, worker.start, monitoring.start, polling;
          at the end stream.stop_all, media.stop_all, worker.stop, monitoring.stop, db.close
```

## 2. Modules

| Module | Models | Used by |
| --- | --- | --- |
| `TaskQueue` | rows, dispatcher, cancel, futures, crash and recovery | `MCTaskQueue`, `TaskQueueProofs` |
| `TaskLifecycle` | abstract: a task is queued, started at most once, over | `TaskQueue` and `Shutdown` refine it |
| `TaskExecution` | one `TaskExecutor.execute` with its process and clock | `MCTaskExecution`, `TaskExecutionProofs` |
| `ExecutionOutcome` | abstract: what one execution promises to the queue | `TaskExecution` and `TaskReport` refine it; each execution of `TaskQueue` follows it |
| `TaskReport` | the same execution from the pipe to the row and the answer | `MCTaskReport`, `TaskReportProofs` |
| `MessageSplit` | `split_text`, one turn of its loop per step | `TaskReport` extends it |
| `Sessions` | sessions, active project, conversations | `MCSessions`, `SessionsProofs` |
| `CommandRun` | one `CommandRunner.run` | `HealthRounds` |
| `HealthMonitor` | rounds, alerts, stop; abstract as to how a check ends | `HealthRounds` |
| `HealthRounds` | the health loop over `CommandRun`; refines `HealthMonitor` | `MCHealthRounds`, `HealthRoundsProofs` |
| `PcControl` | the PC-control handlers over the runner and the machine | `MCPcControl`, `PcCommandsProofs` |
| `PowerConfirmation` | requests, confirmations, commands, audit rows | `MCPowerConfirmation`, `PcCommandsProofs` |
| `OneTimeGrant` | abstract: a request is used once, while it is valid; done, then recorded, then reported | each request of `PowerConfirmation` refines it |
| `LiveStream` | streams, loops, recorders, their shutdown | `MCLiveStream`, `LiveStreamProofs` |
| `MediaPlayback` | downloads, players, supervisors, their shutdown | `Shutdown` |
| `Shutdown` | the life of the bot over the queue, the database and `MediaPlayback` | `MCShutdown`, `ShutdownProofs` |

Components are composed where the composition is what can go wrong: `HealthRounds` runs the health loop over the
commands it waits for, `Shutdown` the dispatch loop, the executions, the database and the playbacks in one
event loop with a stop, a kill and the next start. Elsewhere they are joined by contracts. `TaskQueue` does not
have the OpenCode process: it has the outcomes an execution may settle with. That contract is `ExecutionOutcome`, and
it is proved from both sides: `TaskExecution` (`KeepsContract`, also checked) and `TaskReport` implement it, each execution
of the queue follows it, and the queue excludes no outcome that it allows. In the same way `PcControl`
has runs that exit or time out, which is what `CommandRun` shows of the runner.

`MC*` modules hold the constants of the instances, `*Proofs` the theorems. In each component module a
definition headed "Mutant of X" is X with a plausible bug; it is not part of the specification. It
documents which bug the property after it would catch.

## 3. Conventions of the models

* One action is the code between two awaits that matter. Where a SELECT, an UPDATE or a commit is a
  separate await and something else may run in between, they are separate actions; handlers of
  `core/confirmation.py`, which never awaits, are one step.
* Rows have two values, `status` as every coroutine sees it and `durable` as of the last commit
  (`TaskQueue`), or the tables and `disk` (`Sessions`), `logged` and `durable` (`PowerConfirmation`).
  Any commit writes everything, whoever issues it.
* A crash loses what is not durable and everything in memory. A graceful stop is no gentler for the
  queue: `worker.stop` ends the loop only, and executions are cancelled with the event loop
  (`Shutdown` has both, one after the other).
* `CommandRun` and `TaskExecution` have a clock, because their properties are about time; it
  advances only while the code waits. `PowerConfirmation` has one for the expiry. Elsewhere a timed wait
  may give up at any moment, which covers every duration.
* The execution of a task is modelled twice, because its hazards are of two kinds: time and signals
  (`TaskExecution`), and what becomes of the data (`TaskReport`). Both have all of `execute`'s control.
* Model bounds are constants named as such in the modules (`MaxTasks`, `MaxCrashes`, `MaxSessions`,
  `MaxMessages`, `MaxRequests`, `MaxStreams`, `MaxClips`, `MaxLines`, `MaxText`, `MaxLives`, `Horizon`, and the sets `Cancellers`, `Handlers`,
  `Stoppers`, `Plays`, `Updates`). None of them is in the code.
* Exceptions of the database itself are left out, except those of a closed connection in `Shutdown`.

## 4. Component by component

### TaskQueue

`dispatcher` walks through `amain` (recover, notify) and `QueueWorker.dispatch`: count the RUNNING
rows, read a page of PENDING ones, and for each, oldest first, check the limit, the project and the
session, mark it, commit, spawn `_run_task`. `exec[t]` is where that task stands. `cancel` has the
`/cancel` handlers between reading the row and writing it. `owner[t]` is the user who sent the message:
waiting on the completion future, told, timed out, or gone with a restart.

Simplifications: a rejected submission and a cancellation of a task that is over change nothing and
are left out; the columns beside `status`, `project_id` and `session_internal_id` are too. The
recovery's UPDATE and commit are one step, since nothing else runs yet. `SubmitterAhead` is the order of
aiosqlite's thread: a message's INSERT was issued before a dispatch that sees it. `PageSize` is 50 in
the code and 1 in the runs, which makes a full page with a blocked head reachable with few tasks.

| Property | Says |
| --- | --- |
| `RunningBound` | never more RUNNING rows than `max_concurrent_tasks` |
| `RowIsolation` | no two RUNNING rows in one project or conversation |
| `WorkspaceIsolation` | no two *processes* in one project: **violated**, section 7 |
| `NoOrphanRunning` | from the end of the recovery on, a RUNNING row has an execution or the dispatcher is about to give it one |
| `OldestFirst` | with a limit of one, tasks start in the order of their ids, over all projects |
| `FollowsLifecycle` | the queue implements `TaskLifecycle`: started at most once, and never after it is over |
| `EveryTaskEnds` | a durable PENDING task ends, also beyond the page of a busy project, and over a crash |
| `EveryMessageAnswered` | a message whose sender waits is answered, unless the bot restarts |

Proved besides: `WorkingIsAccounted` (a working process has a RUNNING row, or one that a cancellation has overwritten),
and from it how far `WorkspaceIsolation` fails: two processes in one project need a cancelled row (`OverlapOnlyCancelled`), and
where nobody cancels there are none. Nor is anybody told, then, of an end that is not committed (`NewsIsTrue`). With
a cancellation this may happen: the dispatcher, working from its page, writes RUNNING over CANCELLED, and the `/cancel`
handler commits that and then tells the user that the task was cancelled. A committed COMPLETED or FAILED stays, unless a late `/cancel` writes over it (`RecordsStay`).

Fairness (`FairSpec`): whoever is between two of its statements goes on (submitter, boot sequence, dispatch loop,
cancel handler), and so does an execution, which includes that OpenCode settles. The last one is justified by the default timeout and the SIGKILL
after it; the exception, a descendant that holds the pipes, belongs to `TaskExecution`.

### TaskExecution

`execute` from the row to the outcome: start the process and the reader, one look at the cancel event,
wait with the timeout, on timeout SIGTERM, grace, SIGKILL, join the reader, read stderr (ten seconds),
then decide between cancelled, timed out, failed and completed. `held` says that a descendant outside the
process group keeps the pipes open, `broken` that a line of stderr over 64 KiB has ended `_drain_stderr`, so that the end of
stderr is never seen and its ten seconds run out without any descendant. `git_state` and the start are instantaneous, and the reader's progress
messages are left out.

| Property | Says |
| --- | --- |
| `EndsInTime` | OpenCode is gone when its execution is over, and `Timeout + Grace` after its start |
| `CancelHonoured` | a cancellation of a running process decides the outcome, unless the execution crashes |
| `KeepsContract` | implements `ExecutionOutcome` |
| `EverythingSettles` | it settles, if what OpenCode left behind lets go of the pipes |
| `CancelIsPrompt` | a cancellation ends a running process within the grace: **violated**, section 7 |

The premise of `EverythingSettles` is needed: `execute` joins the reader without a limit
(`task_executor.py:120`). Proved besides: `NoProcessLeft`, `CompletedIsTrue` (COMPLETED only for exit code 0, in time,
unsignalled) and `EarlyCancelSignals` (a cancellation that came before the process signals it as soon as it runs). So
`CancelIsPrompt` does hold for a cancellation that came before the start (`EarlyCancelIsPrompt`). And the SIGKILL comes
last: after SIGTERM, the whole grace period and, unless there was a cancellation, the whole timeout (`KillComesLast`).

### TaskReport and MessageSplit

OpenCode appends lines to a pipe of `PipeSize` lines; `_read_events` takes them out, passes over garbage, stops at a
set cancel event, fails at a line of more than 64 KiB, and waits for Telegram when it passes an answer on. Then
`execute` joins the reader, stores the conversation, decides, and `_finish_success` exports (with `Attempts`), asks git,
has a summary made and writes the row. A line is one of five kinds; a summary is the answer and the commit it
speaks of. What goes on record is the end of it: the last `LogLines` (200 in the code) of the lines with text, followed by the
lines of stderr (`LogTail`). Which answer an export holds is `AnswerOnRecord`. `MessageSplit` is what cuts the announcement of a task, with a
text as flags "is a newline"; `Take` is the call, `Cut` a turn of the loop, `CutLast` the rest.

| Property | Says |
| --- | --- |
| `OutputOnRecord` | a COMPLETED task has on record exactly the last `LogLines` lines of what OpenCode wrote, stderr after stdout, and the last text is the answer |
| `RecordIsTrue` | row, session and OpenCode agree on the conversation, and a reported commit was made during the run |
| `SplitIsFaithful` | nothing but newlines is lost, nothing is doubled, every message fits, lines that fit are not torn |
| `KeepsMoving` | OpenCode is not kept waiting at a full pipe, short of a cancellation or a line that is too long |

`TaskReport` is shown to implement `ExecutionOutcome` too, so that the queue relies on the contract of both models of an
execution; and every turn of `split_text` takes something off the text (`SplitGoesOn`).

Fairness: the reader and the execution go on, calls to Telegram return and exports end. OpenCode need not do anything.

### Sessions

The tables of one user, since every query is by user. A handler is a record of where it stands and what it
has read. `conv[m]` is the OpenCode conversation message *m* was sent to. The queue is reduced to what
sessions need: the messages of a session execute one at a time. `alone` remembers whether updates ever
overlapped, `Patient` makes the user wait for an answer before the next message.

| Property | Says |
| --- | --- |
| `ConversationOwned` | no conversation is used by two sessions, under any interleaving |
| `Continuity` | once the bot knows a session's conversation, later messages of a patient user use it |
| `OneActive` | at most one active session, for a user who never sent two updates at once, also after crashes between the two UPDATEs |
| `ActiveInProject` | and it is of the active project, when there was no restart and there is one default project |

The conditions are needed: section 7 describes what happens without them. `OneDefault` is the last of them: `/start` selects
`settings.default_project`, everything else falls back to the default of the registry.

Proved besides: what was committed is never taken back (`CommittedStays`): a session stays in its project and keeps the
conversation it knows, a message the session and conversation it was queued for, and one that is over stays over; this is
what a restart finds.

### CommandRun, HealthMonitor and HealthRounds

`CommandRun`: spawn in a session of its own, `communicate` under the timeout, SIGTERM to the group, grace, SIGKILL, grace,
give up. `helper` is a process the command started and that has its pipes: in the group or detached. Exit
and reaping are one event, and nothing is signalled once the leader is gone. `HealthMonitor`: a status is its rank,
services change at any time between OK and WARN, a round checks them in order, and alerts compare with the round before. A
check that raises is an ERROR, except that what is no `CommandError` of Docker's (an `OSError` of the spawn) is WARN, and
a VPN that is not set up (`Absent`) is WARN for ever. In `HealthMonitor` a check ends in one of these ways; `HealthRounds` puts the calls of
`CommandRun` under those that have some and shows that the loop is still that of `HealthMonitor`: `docker ps`, whose non-zero exit
raises, and `nordvpn status`, whose exit code nobody looks at, followed by `nordvpn settings` if the VPN is connected
(`settings`), whose failures and timeouts are ignored.

| Property | Says |
| --- | --- |
| `EndsInTime` | a call is over after its limit and two graces, whatever the processes do |
| `WholeOutput` | output is returned only when nobody can write to it any more |
| `AlertsAreDegradations` | a round alerts about exactly the services that got worse since the round before |
| `OutageNoticed` | a service that stays out of order becomes known as warn or error and remains so, also if its command hangs |
| `ImplementsMonitor` | with their commands the rounds are those of `HealthMonitor`, and go on for ever |

Fairness is of the loop and of time; no command has to end. Proved besides: that the group is killed and was told to
end before, and `NoBlindRepeat`. The stop in `HealthMonitor` is the one that is meant; the one that happens is in
`Shutdown` and section 7.

### PcControl

Every PC-control message is a script of system commands (`Script`), run one after the other, then an audit row for
those that change something, then the answer. A run may exit with success after it had its effect,
exit otherwise, or time out, and then the effect may still come (`late`): `nordvpn` talks to a daemon. Which failures
are ignored is in `IgnoresExit` and `IgnoresTimeout`; `Fails` and `TimesOut` are the two paths. `tunnel` also
goes down by itself. `/vpn_dedicated` is `vpn`, `/photo` and `/record_mic` are `capture`,
`/docker`, `/docker_status`, `/windows` and `/processes` are `query`. INSERT and commit of the audit row are one step;
`PowerConfirmation` takes them apart.

| Property | Says |
| --- | --- |
| `DownIsTold` | whose command took the tunnel down and left it so was told of an error |
| `AuditIsTrue` | a row is of something done, and what was reported as done has a row |
| `SentIsWhole` | only finished pictures and recordings are sent |
| `EveryCommandAnswered` | every command is answered, also if its tools hang |

Fairness is of the handlers and of the runner's timeouts, never of a tool. `TypeOK` held in every state of the run's
instance.

### PowerConfirmation

Requests are numbered; `pending` maps (user, action) to the registered one. `Confirm` is the permission check
and `ConfirmationManager.confirm` in one step, as in the code; then the command runs, takes effect or fails, and the row is
inserted and committed. The machine, and with it the bot, may go down at any moment.
`purge_expired` is never called and left out, as is the row of `/dismiss`.

`OncePerRequest` and `ToldIsAudited` (reported as executed implies a committed row) are run and proved, and so is
`RequestsAreGrants`: each request, over all interleavings with other requests of its key, its expiry, dismissals and a
restart, is a `OneTimeGrant`. TLC takes no quantified temporal formula, so the property is `Grant(r)!Spec` for all `r` under one box.
`StartsConfirmed` (only an open request, within its window) and `OnlyAdmins` are proved. The names of its state machine begin
with `Power`, so that one module of proofs can extend it and `PcControl`.

### LiveStream

Streams are numbered; `entry` is `_streams`. The loop of each stream records a clip (with audio, then
without), ends the recorder with SIGINT, SIGTERM and SIGKILL in turn, sends the clip or ends in an error. `Done` is the
callback that pops the chat. `stopper` has the handlers that await a loop, 0 being `stop_all`. A recorder that
outlives the wait after SIGKILL is remembered in `lost`. No update is handled after the shutdown began.

`CanBeStopped` (a live loop is the one its chat's `/stream_stop` reaches), `OneRecorder`, `NothingLeft` (no
recorder, clip or untold error of a loop that is over), `StopEnds`; `CleanShutdown` is proved besides. Fairness: loops and
waiters go on, a recorder ends on SIGKILL only.

### MediaPlayback and Shutdown

`MediaPlayback`: `pc[p]` is the handler (download, play) and then the supervisor (scheduled, wait, term, kill) of a file.
Handlers under way go on after `stop_all`; `LoopEnds` is the cancellation of what is left when `asyncio.run` ends.

`Shutdown` is `amain` around it: recovery row by row, the dispatch loop with its executions, then the stops in the order
of the `finally` block, each with what it waits for. `monitored` says whether the health loop is enabled, in which case
`monitoring.stop` raises and the database stays open. `life = "cancelled"` is `asyncio.run` at work on what is left, `Kill` a
crash or a SIGKILL at any point; rows, what the chats were told, and OpenCode processes outlive both. The streams'
stop is a step, `LiveStream` has it in detail. Playbacks are followed in the first life only. An execution may end before the
launch (the project is gone, OpenCode cannot be started), may raise, or may meet the closed database.

`Shutdown` has no `/cancel`: what `AtMostOnce` says is not claimed of a bot on which tasks are cancelled. There a task whose
user was told of the cancellation may still be run, and its end told again; that is in `TaskQueue` and section 7.

| Property | Says |
| --- | --- |
| `DatabaseServes` | the dispatch loop is over before the connection is closed |
| `AtMostOnce` | over all stops, kills and restarts a task runs at most once, its end is told at most once and as recorded |
| `BegunRemoves` | a supervisor that has begun removes the file on every way out, cancellations included |
| `PlaybackEnds` | a playback ends, also if mpv ignores SIGTERM |
| `StopCompletes` | a stop gets to the end of the event loop, whatever runs on |

Fairness: the event loop goes on; mpv ends on SIGKILL only, OpenCode need not end. Proved besides: that until the shutdown a player keeps its file
(`FileWhilePlaying`), `PlayersSupervised`, `PlayedFileRemoved`, and that the tasks, over all lives of the bot, follow the `TaskLifecycle` that the queue follows, with
a launch of OpenCode on the arc from queued to started only.

## 5. Runs and bounds

| Run | Instance | Shows |
| --- | --- | --- |
| `queue_one` | limit 1, 2 projects, 1 session, 2 tasks, 1 cancel, 1 crash | safety of the queue, refinement of `TaskLifecycle`, every message answered, over the crash |
| `queue_two` | limit 2, 3 tasks: two of one project, then one of another; 1 crash or 1 cancel | isolation, and that every task ends |
| `queue_overlap` | limit 2, 2 projects, 2 tasks, 1 cancel | violation of `WorkspaceIsolation` |
| `exec_ends` | timeout 3, grace 1, stderr 2, clock to 8 | safety, contract and liveness of one execution |
| `exec_cancel` | the same | violation of `CancelIsPrompt` |
| `sessions_talk` | 2 projects, 2 sessions, 2 messages, 2 updates at a time, 5 altogether, 1 restart | sessions |
| `pc_control` | 2 messages of any kind | PC-control commands |
| `power_confirm` | an admin and a read-only user, 2 actions, 3 requests, window 2, clock to 4, 1 restart | confirmations |
| `stream` | 2 chats, 2 streams, 1 clip, 1 stop handler and stop_all, with audio | streams |
| `health` | 3 services: one without a command, the VPN, Docker; limit 1, grace 1, clock to 4 | the health loop, the runner, and the refinement |
| `shutdown` | 2 tasks, limit 2, 1 file, 2 starts of the bot | the life of the bot |
| `report` | 3 lines, up to 1 of stderr, 2 kept on record, a pipe of 2, 2 export attempts; texts of up to 7 characters in messages of 3 | output, record and answer; the cut of messages |

Why they are enough: the interesting interleavings are of two actors (two rows, two handlers, two streams, a stream
and a stop) over one crash. Two tasks and a limit of two already let a cancellation free a project between
check and start. `queue_two` is the scenario in which a page hides a task: with two slots and a page of one row, the
first task runs, the second, of the same project, heads the page, and the third waits although a slot and its
project are free (`PagedOut`). It must come to its turn, whether the bot crashes anywhere in this or the task at the head is
cancelled (`Disturbed`: one of the two, since both together are beyond TLC's reach there; `queue_one` has both, with two tasks
and no third). Of the power commands, two requests of one key replace each other and the third comes
from somebody else. The clocks run past every deadline of their runs (`3 + 1 + 2 < 8`, `1 + 1 + 1 < 4`). Three lines overfill
a pipe of two; seven characters make three messages of three, with a cut at the limit, at a newline, and a rest. Two lines on record make
the third one and a line of stderr push out the oldest. In `health` the service without a command does not
change (`FirstInOrder`): its check may still raise, between rounds and before those that wait. Two
starts are a life that is interrupted and the one that finds what it left. The inductive invariants of the proofs were
checked with TLC before they were proved. What the proofs cover does not depend on any of this.

`CHECK_DEADLOCK FALSE` is said where the system may stop: a monitor that was stopped, a closed bot, a report that was told,
a user who has used up the requests of the model. The queue and the execution runs check deadlock.

## 6. Proofs

Eight modules, `tlapm` checks each of them to the last leaf. No theorem assumes more than the named
`ASSUME` of its module (types of the constants, `Capacity # 0`), except `FirstComeFirstServed`, which assumes `Capacity = 1`
in its statement, as the code's promise does, `OneConversation`, which assumes `Patient`, and two theorems
that assume `Cancellers = {}`. Those say what holds of a bot on which nobody uses `/cancel`, a use of the real one, with
everything else free: any number of tasks, crashes and restarts. They are there because the run `queue_overlap` shows that
the same sentence is false with one cancellation.

How the results join the models (`RoundsAreMonitored` and `BotPlays`, further down, compose models instead):

```
 TaskExecution --ContractKept---------\
                                       ExecutionOutcome <--ExecutionsKeepContract-- TaskQueue --ImplementsLifecycle------\
 TaskReport ----ReportKeepsContract---/                 --QueueTakesContract------>                                       TaskLifecycle
                                                                                     Shutdown --RestartsFollowLifecycle--/
 PowerConfirmation, one request --GrantsImplemented--> OneTimeGrant
```

* **Queue** (`TaskQueueProofs`). `Invariance`: `IInv` is inductive. `RunningBound` and `RowIsolation` are not inductive:
  the dispatcher works from a count and a page read earlier. `CountInv` says that the count is never below the RUNNING rows
  (one ahead in "mark"), `ProjectInv` that a checked project stays free until its task is marked, `PageInv` that a
  task of the page has not started (at worst it was cancelled), `ExecInv`, `DurableInv` and
  `OrphanInv` tie executions, commits and the recovery together. From it: `TypeCorrect`, `LimitRespected`, `RowsIsolated`,
  `StartedAtMostOnce`, `NoneOrphaned`, `WorkAccounted`, and the refinement `ImplementsLifecycle`. `FirstComeFirstServed`
  adds `FifoInv`: ids are handed out in order, and nothing is started or about to be while an older task waits outside the page.
  `OverlapNeedsCancel` follows from `WorkAccounted` and `RowsIsolated`. `RecordsStay` needs `RecordInv` beside `IInv`: while the
  bot is up the row of a task that is over in the database is over in the same way, or cancelled. `SettledInv`, under
  `Cancellers = {}`, says how the row, its copy on disk, the execution and the news agree; `IsolatedUncancelled` and
  `NewsTrueUncancelled` read their claims off it. `ExecutionsKeepContract` maps `exec`, `cancelSet` and `outcome` of one task to
  `ExecutionOutcome`, from the spawn to the report (a crash of the bot ends the obligation); `QueueTakesContract` is the
  converse for the last step: whatever settles an execution by the contract is a step of the queue.
* **Execution** (`TaskExecutionProofs`). `ProcessInv` says which process state each place in `execute` allows;
  `TimeInv` bounds the clock by the deadline of the current wait. From them `NoneLeft`, `CancellationHonoured`,
  `CompletionIsTrue`, `EarlyCancelled`, `DeadlineKept`, and the refinement `ContractKept`. `GraceInv` says which deadline and
  signal go with which wait; its first version claimed that a set cancel event always has a time in "waiting", which a
  process that has exited unnoticed refutes. It gives `EarlyCancelIsPrompt` and `KillComesLast`.
* **Sessions** (`SessionsProofs`). `WellTyped`; `OwnConversations` from `OwnInv`, which follows a conversation id through
  tasks, rows, what handlers have read and the disk; `OneAtATime` from `OneInv`: as long as updates did not
  overlap, the tables and the disk have at most one active session at every step of the handler.
  `ActiveBelongs` adds `PlaceInv`: what is active, and of which project, at each place of a handler between two statements.
  `OneConversation` (for a patient user) adds `ContInv`, about the tables and the disk alike: the messages of a session come in
  the order of their ids and all but the last are over (`Orderly`), a conversation the bot knows is in the
  session's row and in every message still to be sent (`KeptIn`), and the handlers of a session do not talk at once (`TalkOK`).
  `CommittedStays` needs `DiskInv`: the tables follow the disk (`Follows`) at every moment, not only at the commits.
* **Reports** (`TaskReportProofs`): `ReportInvariant` ties what was read to what is in `logged`, `last` and `heard` at every
  place of `execute`; from it `OutputRecorded` and `TrueRecords`, for any number of lines, size of the pipe and attempts.
  `FaithfulSplit`, for any text and limit, from `SplitInv`: the messages so far lie one behind the other before the rest
  (`Pieces`), and the rest begins with a line or within one that fits into no message (`Begins`). `MinFact` and `MaxFact`, that a
  bounded set of positions has a least and a largest element, come from the well-foundedness of the naturals. `SplitGoesOn`
  is the progress of the loop, from `SplitInv`. `ReportKeepsContract` maps the places of `execute` to the stages of
  `ExecutionOutcome`; `Decided` says that the decision, in the row or still on its way there, agrees with the cancel event.
* **Commands on the PC** (`PcCommandsProofs`). Power: `RunsOnce`, `StartsValid`, `AdminsOnly`, `ReportsAudited`;
  `Registered` says that the table names open requests under their own key only, `Accounts` that a request that ran was an
  administrator's and ran once. The other commands: `DisconnectionTold`, `AuditTrue`, `OnlyWholeSent` from `PcInv`, one
  `Kept(u)` per message. `Apart` is what a step of one message leaves to the others; `Reconnecting` says
  where a handler may stand whose command has the tunnel down and who has not been refused. `GrantsImplemented` maps
  the table and the requests to the state of one grant (`GrantOf`); `Acted` is what it needs besides, that what took effect
  or has a row was used. The module extends both of its components. The lemmas about the second assume
  `Nobody \notin Updates`, which is `PcAssumption`.
* **Streams** (`LiveStreamProofs`): `AlwaysStoppable`, `RecordsOnce`, `LeavesNothing`, `ShutsDownClean`.
* **Life of the bot** (`ShutdownProofs`): `BotPlays` shows that the steps of the bot are steps of `MediaPlayback`, as long as it
  lives for the first time, and so carries over `KeepsFile`, `KeepsSight`, `RemovesFile`, `BegunSupervisorRemoves`;
  `LoopHasDatabase` and `TasksAtMostOnce` follow from the invariants of the rows and of what was told, and so do
  `RestartsFollowLifecycle` and `LaunchesOnArc`.
* **Health** (`HealthRoundsProofs`): `CallInvariant` says where a call stands, its deadline and what was sent, and gives
  `RunEnds`, `RunKillsGroup`, `RunTold`, `RunReturnsAll`; with `Warned`, what has been sent when a wait runs out, also
  `RunKillsLast`. `RoundsAreMonitored` is the safety part of the refinement; through
  it `AlertsExact` and `NeverRepeats`, for any number of services.

Only model-checked: all liveness (`EveryTaskEnds`, `EveryMessageAnswered`, `EverythingSettles`, `KeepsMoving`, `OutageNoticed`,
the fairness of `ImplementsMonitor`, `StopCompletes`, `PlaybackEnds`, `StopEnds`, `EveryCommandAnswered`), since liveness under
fairness is outside what the prover handles. Every other property of a passing run is stated by a theorem. Type
correctness is proved of every component as well (`TypeCorrect`, `WellTyped`, `ExecutionTypes`, `ReportTypes`, `PowerTypes`,
`PcTypes`, `StreamTypes`, `BotTypes`, `RoundTypes`); the list in `PROJECT.json` names neither these nor the inductive invariants. The
two violated properties are counterexamples, with the theorems that say where the line runs: `OverlapNeedsCancel` and
`IsolatedUncancelled` for `WorkspaceIsolation`, `EarlyCancelIsPrompt` for `CancelIsPrompt`.

## 7. Where code and documentation disagree

Shown by a run:

* `queue_overlap`: `cancel_task` reads PENDING and later writes CANCELLED whatever the row says by then
  (`task_manager.py:69`). Over a row that was started in between, the project looks free while OpenCode works
  in it, and another task starts there. `queue_worker.py:6`: "never two RUNNING tasks in the same project
  (workspace isolation)".
* `exec_cancel`: `execute` looks at the cancel event once, before it waits (`task_executor.py:104`). A `/cancel` during
  the wait sends no signal; the process runs on to its own end or the timeout, and is then recorded as cancelled.

Met while modelling; the models have the behaviour, and the properties are stated so that they do not claim otherwise:

* `set_active_session` clears and sets `is_active` in two awaited statements (`repository.py:311`). Two updates of one
  user can run clear, clear, set, set: two sessions are active (`tests/test_sessions.py:65` says the new one replaces
  the other). In `Sessions` this violates `ReplacesActive`, which is `OneActive` without its condition.
* `/use` between the steps of `/new` leaves an active session of another project (`task_manager.py:200`).
* A second message before the first one is answered opens another conversation (`task_manager.py:107`;
  `models.py:63`: "reused by every following message").
* A dispatch marks tasks from the list it read at its start, also one that was cancelled meanwhile
  (`queue_worker.py:84`); the cancellation is lost, and its sender is told that the task was cancelled.
* With a limit of two or more, a pass that skipped a message because its project was busy may find the
  project free for a later message of the same conversation (`queue_worker.py:77`).
* An execution that raises is recorded as FAILED and only an interactive task is answered (`queue_worker.py:101`);
  `notifications.py:3` speaks of every end.
* A member of a command's process group is out of reach once the leader is gone (`core/process.py:174`;
  `docs/pc-control.md:10`: "kills the process group on expiry").
* An action that took effect but whose command failed or timed out, or whose VPN status did, is not audited
  (`commands/power.py:74`, `commands/vpn.py:38`; `docs/pc-control.md:39`: "every executed action logged").
  `/lock` is the plainest case: the lockers of `services/desktop.py:55` stay in the foreground until the
  screen is unlocked, so the run ends in its timeout, the locker is ended, and nothing is logged.
* A download that breaks off, or an mpv that cannot be spawned, leaves the temporary file (`services/media.py:65`;
  `docs/pc-control.md:96`), as does a capture that timed out (`services/media.py:144`) and every screenshot,
  photo and recording that was sent.
* `HealthMonitor.stop` uses a plain `with asyncio.timeout(...)` (`services/monitoring.py:130`), which raises TypeError
  once the monitor is enabled; `main.py` then skips `db.close` and the bot session's close.
* `worker.stop` ends the dispatch loop only. Executions under way are cancelled by `asyncio.run`, after the database was
  closed: their rows stay RUNNING, the chats hear nothing, and the next start reports "Interrupted by service
  restart" even of a task whose OpenCode had finished (`main.py:204`).
* `/start` selects `settings.default_project`, while `/new` and messages fall back to the default of the registry
  (`bot.py:179`, `task_manager.py:191`). If the two name different projects, `/new` before the first `/start` leaves an
  active session of another project than the one that is active afterwards.
* A line of more than 64 KiB on stdout makes the reader raise; nobody drains the pipe from then on, OpenCode may block until the
  default timeout, and the task ends as "Internal worker error" without its output (`opencode/cli.py:68`). One on stderr ends `_drain_stderr`: the
  execution raises after ten seconds and ends the same way (`opencode/cli.py:55`).
* The handler of a crashed execution and a late cancellation write all columns of the row and so erase the conversation
  that had been stored a moment before (`repository.py:177`).
* A completed run without an answer of its own is summarised with the last answer of an earlier run of the same
  conversation, which is what the export ends with (`summaries/deterministic.py:33`).
* A `/cancel` that arrives during the export sets an event nobody looks at any more; the task ends COMPLETED
  (`task_executor.py:199`).
* A text that begins with a newline may have a line torn that would fit into a message, since the cut at position 0 is
  replaced by one at the limit (`formatting.py:20`; `formatting.py:13`: "so lines are not torn apart").
* `resources()` sets the total of the swap, but reads what is used of it from a `SwapUsed` key that `/proc/meminfo` does
  not have, so that it is always 0 (`services/system.py:237`; `docs/pc-control.md:28` lists swap).

## 8. Not modelled

* `/dns`, `/resources`, `/disk` and the lists of the bot (`/tasks`, `/history`, `/logs`, `/projects`) read and render;
  `services/system.py` and most of `services/network.py` parse what the system prints. They change no state, and what
  is parsed is data no property depends on.
* `config.py` and `projects.py` are read once at the start; `Sessions` has the projects and both defaults as constants.
  `logging_setup.py` and the package files are declarations. The schema migration of `database.py` runs before
  anything else does.
* The layout of messages, the text of summaries (`summaries/`, `formatting.py` beside `split_text`) and the redaction of
  audit parameters are wording.
* Telegram is reliable in the models, as far as the code does not look at its answer: a message that is sent is seen, or
  its loss is swallowed where the code swallows it (progress, notifications). The delivery of health alerts is one
  step. That an export of OpenCode ends is assumed; the code gives it no timeout, and whether `opencode export` ends is
  outside this repository.
* Exceptions of the database, other than those a closed connection raises during the shutdown.
* Docker's containers are data; `auth.py` is a filter before every handler.
* An execution's own child processes beyond what keeps its pipes (`held`), and what outlives a call of the runner that
  gave up on it, are not followed further.

## 9. Plan

Done, in this order: `TaskQueue` with `TaskLifecycle`, `TaskExecution` with `ExecutionOutcome`, `Sessions`, `CommandRun`,
`PowerConfirmation`, `LiveStream`, `MediaPlayback`, `HealthMonitor`, `PcControl`; then the compositions `HealthRounds` and
`Shutdown`, then `TaskReport` with `MessageSplit`, and the proofs about `Sessions` and `PcControl` that were open.

Next, in the order of what they would add:

1. Duplicate submissions (`task_manager.py:51`): the look-up and the INSERT of two equal prompts.
2. `CommandRun` under `PcControl` as well, so that an effect after a timeout is the helper that outlives its call.
3. The redaction of audit parameters and the permission table, against reference definitions.
