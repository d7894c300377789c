----------------------------- MODULE ShutdownProofs -----------------------------
(***************************************************************************)
(* Proofs about Shutdown, for any tasks, files, number of starts and bound *)
(* on the running tasks: first the playbacks, of which the shutdown is     *)
(* shown to do nothing that MediaPlayback does not, then the database and  *)
(* the tasks.                                                              *)
(***************************************************************************)
EXTENDS Shutdown, TLAPS

-----------------------------------------------------------------------------
(* The playbacks.                                                            *)

\* Players and supervisors come and go together.
Paired ==
    \A p \in Plays :
        /\ mpv[p] # "none" => play[p] \in Media!Supervised \cup {"over"}
        /\ play[p] \in Media!Supervised => mpv[p] # "none"

\* Until the shutdown nothing is cancelled, and the file of a player is there exactly
\* as long as its supervisor.
Orderly ==
    closing = "no" =>
        /\ cancelled = {}
        /\ \A p \in Plays :
            /\ play[p] \in Media!Supervised \cup {"play"} => p \in file
            /\ play[p] = "over" /\ mpv[p] # "none" => p \notin file
            /\ play[p] = "over" /\ mpv[p] = "running" => p \in lost

PlaybackInv ==
    /\ Media!TypeOK
    /\ Paired
    /\ Orderly

LEMMA InitPlaybackInv == Media!Init => PlaybackInv
BY DEF Media!Init, PlaybackInv, Media!TypeOK, Paired, Orderly, Media!Handling,
   Media!Supervised, Media!Supervising

\* The steps of the handler of one file.
LEMMA HandlerStep ==
    ASSUME PlaybackInv, NEW p \in Plays,
           \/ Media!Receive(p) \/ Media!DownloadWrites(p) \/ Media!DownloadFails(p)
           \/ Media!Downloaded(p) \/ Media!Play(p)
    PROVE  PlaybackInv'
<1> USE DEF PlaybackInv, Media!At, Media!Goto, Media!Handling, Media!Supervised,
            Media!Supervising
<1>1. CASE Media!Receive(p)
  BY <1>1 DEF Media!Receive, Media!TypeOK, Paired, Orderly
<1>2. CASE Media!DownloadWrites(p)
  BY <1>2 DEF Media!DownloadWrites, Media!TypeOK, Paired, Orderly
<1>3. CASE Media!DownloadFails(p)
  BY <1>3 DEF Media!DownloadFails, Media!TypeOK, Paired, Orderly
<1>4. CASE Media!Downloaded(p)
  BY <1>4 DEF Media!Downloaded, Media!TypeOK, Paired, Orderly
<1>5. CASE Media!Play(p)
  BY <1>5 DEF Media!Play, Media!TypeOK, Paired, Orderly
<1> QED BY <1>1, <1>2, <1>3, <1>4, <1>5

\* The steps of its supervisor and of its player.
LEMMA SupervisorStep ==
    ASSUME PlaybackInv, NEW p \in Plays,
           \/ Media!Supervise(p) \/ Media!PlaysTooLong(p) \/ Media!Finished(p)
           \/ Media!Cancel(p) \/ Media!PlayerExits(p)
    PROVE  PlaybackInv'
<1> USE DEF PlaybackInv, Media!At, Media!Goto, Media!Handling, Media!Supervised,
            Media!Supervising
<1>1. CASE Media!Supervise(p)
  BY <1>1 DEF Media!Supervise, Media!TypeOK, Paired, Orderly
<1>2. CASE Media!PlaysTooLong(p)
  BY <1>2 DEF Media!PlaysTooLong, Media!TypeOK, Paired, Orderly
<1>3. CASE Media!Finished(p)
  BY <1>3 DEF Media!Finished, Media!TypeOK, Paired, Orderly
<1>4. CASE Media!Cancel(p)
  <2>1. closing # "no"
    BY <1>4 DEF Media!Cancel, Orderly
  <2> QED BY <1>4, <2>1 DEF Media!Cancel, Media!TypeOK, Paired, Orderly
<1>5. CASE Media!PlayerExits(p)
  BY <1>5 DEF Media!PlayerExits, Media!TypeOK, Paired, Orderly
<1> QED BY <1>1, <1>2, <1>3, <1>4, <1>5

LEMMA ClosingStep ==
    ASSUME PlaybackInv, Media!StopAll \/ Media!Closed \/ Media!LoopEnds
    PROVE  PlaybackInv'
<1> USE DEF PlaybackInv
<1>1. CASE Media!StopAll
  BY <1>1 DEF Media!StopAll, Media!TypeOK, Paired, Orderly
<1>2. CASE Media!Closed
  BY <1>2 DEF Media!Closed, Media!TypeOK, Paired, Orderly
<1>3. CASE Media!LoopEnds
  BY <1>3 DEF Media!LoopEnds, Media!TypeOK, Paired, Orderly
<1> QED BY <1>1, <1>2, <1>3

LEMMA StepPlaybackInv == PlaybackInv /\ [Media!Next]_(Media!vars) => PlaybackInv'
<1>1. PlaybackInv /\ UNCHANGED Media!vars => PlaybackInv'
  BY DEF Media!vars, PlaybackInv, Media!TypeOK, Paired, Orderly
<1> QED BY <1>1, HandlerStep, SupervisorStep, ClosingStep DEF Media!Next, Media!Task

-----------------------------------------------------------------------------
(* The playbacks of the bot.                                                 *)

\* A step of the bot is one of the playbacks', or leaves them alone.
LEMMA MediaStep == [Next]_vars => [Media!Next]_(Media!vars)
<1> SUFFICES ASSUME [Next]_vars PROVE Media!Next \/ UNCHANGED Media!vars
  OBVIOUS
<1>1. CASE Playback
  BY <1>1 DEF Playback, Receive, DownloadWrites, MediaTask, PlayerExits, Media!Next
<1>2. CASE StreamStopped \/ MediaStopped \/ LoopEnds
  BY <1>2 DEF StreamStopped, MediaStopped, LoopEnds, InMedia, mediaVars, Media!vars, Media!Next
<1>3. CASE WorkerStopped \/ MonitorStopped \/ DatabaseClosed \/ StopAsked \/ Exit \/ Kill \/ Boot
  BY <1>3 DEF WorkerStopped, MonitorStopped, DatabaseClosed, StopAsked, Exit, Kill, Gone, Boot,
     mediaVars, Media!vars
<1>4. CASE Starting
  BY <1>4 DEF Starting, Serve, Recover, TellInterrupted, mediaVars, Media!vars
<1>5. CASE Queue
  BY <1>5 DEF Queue, Dispatching, PassEnds, LoopWakes, Create, Dispatch, Begin, Launch,
     NotLaunched, Finish, Breaks, Tell, Lost, mediaVars, Media!vars
<1>6. CASE \E t \in Tasks : CodeExits(t)
  BY <1>6 DEF CodeExits, mediaVars, Media!vars
<1>7. CASE UNCHANGED vars
  BY <1>7 DEF vars, Media!vars
<1> QED BY <1>1, <1>2, <1>3, <1>4, <1>5, <1>6, <1>7 DEF Next, ShuttingDown

\* Whatever the bot goes through, its playbacks do what MediaPlayback says.
THEOREM BotPlays == Spec => Media!Spec
<1>1. Init => Media!Init
  BY DEF Init
<1> QED BY <1>1, MediaStep, PTL DEF Spec, Media!Spec

\* The inductive invariant of the playbacks, of which the next theorems are consequences.
THEOREM PlaybackInvariant == Spec => []PlaybackInv
<1>1. Init => PlaybackInv
  BY InitPlaybackInv DEF Init
<1> QED BY <1>1, MediaStep, StepPlaybackInv, PTL DEF Spec

\* Until the shutdown mpv keeps its file while it plays, short of a player that not even
\* a SIGKILL ends (media.py:89-108).
THEOREM KeepsFile == Spec => []Media!FileWhilePlaying
<1>1. PlaybackInv => Media!FileWhilePlaying
  BY DEF PlaybackInv, Paired, Orderly, Media!FileWhilePlaying
<1> QED BY PlaybackInvariant, <1>1, PTL

\* No player is out of its supervisor's sight.
THEOREM KeepsSight == Spec => []Media!PlayersSupervised
<1>1. PlaybackInv => Media!PlayersSupervised
  BY DEF PlaybackInv, Paired, Orderly, Media!PlayersSupervised
<1> QED BY PlaybackInvariant, <1>1, PTL

\* The file of a player that was started leaves with its supervisor.
THEOREM RemovesFile == Spec => []Media!PlayedFileRemoved
<1>1. PlaybackInv => Media!PlayedFileRemoved
  BY DEF PlaybackInv, Orderly, Media!PlayedFileRemoved
<1> QED BY PlaybackInvariant, <1>1, PTL

\* A supervisor that has begun removes the file on every way out.
THEOREM BegunSupervisorRemoves == Spec => BegunRemoves
<1> DEFINE Removes == \A p \in Plays : play[p] \in Media!Supervising /\ play'[p] = "over" => p \notin file'
<1>1. PlaybackInv /\ [Media!Next]_(Media!vars) => [Removes]_(Media!vars)
  <2> SUFFICES ASSUME PlaybackInv, Media!Next, NEW p \in Plays, play[p] \in Media!Supervising, play'[p] = "over"
               PROVE  p \notin file'
    OBVIOUS
  <2>1. PICK q \in Plays : Media!Receive(q) \/ Media!DownloadWrites(q) \/ Media!Task(q) \/ Media!PlayerExits(q)
    BY DEF Media!Next, Media!StopAll, Media!Closed, Media!LoopEnds, Media!Supervising
  <2>2. p = q
    BY <2>1 DEF PlaybackInv, Media!TypeOK, Media!Receive, Media!DownloadWrites, Media!Task, Media!DownloadFails, Media!Downloaded, Media!Play,
       Media!Supervise, Media!PlaysTooLong, Media!Finished, Media!Cancel, Media!PlayerExits, Media!Goto, Media!Supervising
  <2>3. Media!Finished(p) \/ Media!Cancel(p)
    BY <2>1, <2>2 DEF PlaybackInv, Media!TypeOK, Media!Receive, Media!DownloadWrites, Media!Task, Media!DownloadFails, Media!Downloaded,
       Media!Play, Media!Supervise, Media!PlaysTooLong, Media!PlayerExits, Media!Goto, Media!At, Media!Supervising
  <2> QED BY <2>3 DEF Media!Finished, Media!Cancel
<1> QED BY PlaybackInvariant, MediaStep, <1>1, PTL DEF Spec, BegunRemoves, Media!BegunRemoves

-----------------------------------------------------------------------------
(* The dispatch loop and its database.                                       *)

\* The dispatch loop lives no longer than the shutdown allows, and the database longer.
LoopInv ==
    /\ loop \in {"pass", "waiting"} => life \in {"serving", "stream", "media", "worker"}
    /\ life \notin {"down", "ending", "cancelled"} => db = "open"

LEMMA LoopStep == LoopInv /\ [Next]_vars => LoopInv'
<1> SUFFICES ASSUME LoopInv, [Next]_vars PROVE LoopInv'
  OBVIOUS
<1> USE DEF LoopInv
<1>1. CASE Playback
  BY <1>1 DEF Playback, Receive, DownloadWrites, MediaTask, PlayerExits, Rest, workerVars
<1>2. CASE ShuttingDown
  BY <1>2 DEF ShuttingDown, StreamStopped, MediaStopped, WorkerStopped, MonitorStopped,
     DatabaseClosed, LoopEnds, workerVars
<1>3. CASE StopAsked \/ Exit \/ Kill \/ Boot
  BY <1>3 DEF StopAsked, Exit, Kill, Gone, Boot, workerVars
<1>4. CASE Starting
  BY <1>4 DEF Starting, Serve, Recover, TellInterrupted, workerVars
<1>5. CASE Queue
  BY <1>5 DEF Queue, Dispatching, PassEnds, LoopWakes, Create, Dispatch, Begin, Launch,
     NotLaunched, Finish, Breaks, Tell, Lost, workerVars
<1>6. CASE \E t \in Tasks : CodeExits(t)
  BY <1>6 DEF CodeExits, workerVars
<1>7. CASE UNCHANGED vars
  BY <1>7 DEF vars, workerVars
<1> QED BY <1>1, <1>2, <1>3, <1>4, <1>5, <1>6, <1>7 DEF Next

\* The dispatch loop always has its database, also while the bot shuts down.
THEOREM LoopHasDatabase == Spec => []DatabaseServes
<1>1. Init => LoopInv
  BY DEF Init, LoopInv
<1>2. LoopInv => DatabaseServes
  BY DEF LoopInv, DatabaseServes
<1> QED BY <1>1, <1>2, LoopStep, PTL DEF Spec

-----------------------------------------------------------------------------
(* The tasks.                                                                *)

TaskTypes ==
    /\ row \in [Tasks -> {"absent", "PENDING", "RUNNING"} \cup Ends]
    /\ run \in [Tasks -> {"none", "scheduled", "begun", "wait", "tell", "recovered", "over"}]
    /\ alive \in SUBSET Tasks
    /\ launched \in [Tasks -> Nat]
    /\ told \in [Tasks -> Seq(Ends)]

\* How far a task is, its row and its execution agree with what was done for it.
Agrees(t) ==
    /\ row[t] \in {"absent", "PENDING"} =>
          run[t] = "none" /\ launched[t] = 0 /\ told[t] = <<>> /\ t \notin alive
    /\ run[t] = "none" => row[t] \in {"absent", "PENDING"}
    /\ run[t] \in {"scheduled", "begun"} =>
          row[t] = "RUNNING" /\ launched[t] = 0 /\ t \notin alive
    /\ run[t] = "wait" => row[t] = "RUNNING"
    /\ run[t] = "tell" => row[t] \in Ends /\ told[t] = <<>> /\ t \notin alive
    /\ run[t] = "recovered" => row[t] = "FAILED" /\ told[t] = <<>>
    /\ row[t] = "RUNNING" => told[t] = <<>>
    /\ launched[t] <= 1
    /\ told[t] = <<>> \/ told[t] = <<row[t]>>
    /\ t \in alive => row[t] \in {"RUNNING", "FAILED"}

TaskInv == TaskTypes /\ \A t \in Tasks : Agrees(t)

\* An end that is the first to be told is all that was told.
LEMMA FirstTold ==
    \A status \in Ends : Append(<<>>, status) = <<status>> /\ <<status>> \in Seq(Ends)
BY DEF Ends

\* What the start does to a task.
LEMMA StartingStep == TaskInv /\ Starting => TaskInv'
<1> SUFFICES ASSUME TaskInv, Starting PROVE TaskInv'
  OBVIOUS
<1> USE DEF TaskInv, TaskTypes, Agrees, Ends, Row, Run, Tells, taskVars
<1>1. CASE Serve
  BY <1>1 DEF Serve
<1>2. ASSUME NEW t \in Tasks, Recover(t) PROVE TaskInv'
  BY <1>2 DEF Recover
<1>3. ASSUME NEW t \in Tasks, TellInterrupted(t) PROVE TaskInv'
  <2>1. row[t] = "FAILED" /\ told[t] = <<>>
    BY <1>3 DEF TellInterrupted
  <2>2. told' = [told EXCEPT ![t] = <<row[t]>>] /\ <<row[t]>> \in Seq(Ends)
    BY <1>3, <2>1, FirstTold DEF TellInterrupted
  <2>3. TaskTypes'
    BY <1>3, <2>2 DEF TellInterrupted
  <2>4. ASSUME NEW u \in Tasks PROVE Agrees(u)'
    BY <1>3, <2>1, <2>2 DEF TellInterrupted
  <2> QED BY <2>3, <2>4
<1> QED BY <1>1, <1>2, <1>3 DEF Starting

\* What the queue and its executions do to it.
LEMMA QueueStep == TaskInv /\ Queue => TaskInv'
<1> SUFFICES ASSUME TaskInv, Queue PROVE TaskInv'
  OBVIOUS
<1> USE DEF TaskInv, TaskTypes, Agrees, Ends, Row, Run, Tells, taskVars
<1>1. CASE Dispatching
  BY <1>1 DEF Dispatching, PassEnds, LoopWakes
<1>2. ASSUME NEW t \in Tasks, Create(t) \/ Dispatch(t) \/ Begin(t) PROVE TaskInv'
  <2>1. CASE Create(t)
    BY <2>1 DEF Create
  <2>2. CASE Dispatch(t)
    BY <2>2 DEF Dispatch
  <2>3. CASE Begin(t)
    BY <2>3 DEF Begin
  <2> QED BY <1>2, <2>1, <2>2, <2>3
<1>3. ASSUME NEW t \in Tasks, Launch(t) PROVE TaskInv'
  BY <1>3 DEF Launch
<1>4. ASSUME NEW t \in Tasks, NotLaunched(t) \/ Finish(t) \/ Breaks(t) PROVE TaskInv'
  <2>1. CASE NotLaunched(t)
    BY <2>1 DEF NotLaunched
  <2>2. CASE Finish(t)
    BY <2>2 DEF Finish
  <2>3. CASE Breaks(t)
    BY <2>3 DEF Breaks
  <2> QED BY <1>4, <2>1, <2>2, <2>3
<1>5. ASSUME NEW t \in Tasks, Tell(t) PROVE TaskInv'
  <2>1. row[t] \in Ends /\ told[t] = <<>>
    BY <1>5 DEF Tell
  <2>2. told' = [told EXCEPT ![t] = <<row[t]>>] /\ <<row[t]>> \in Seq(Ends)
    BY <1>5, <2>1, FirstTold DEF Tell
  <2>3. TaskTypes'
    BY <1>5, <2>2 DEF Tell
  <2>4. ASSUME NEW u \in Tasks PROVE Agrees(u)'
    BY <1>5, <2>1, <2>2 DEF Tell
  <2> QED BY <2>3, <2>4
<1>6. ASSUME NEW t \in Tasks, Lost(t) PROVE TaskInv'
  BY <1>6 DEF Lost
<1> QED BY <1>1, <1>2, <1>3, <1>4, <1>5, <1>6 DEF Queue

LEMMA TaskStep == TaskInv /\ [Next]_vars => TaskInv'
<1> SUFFICES ASSUME TaskInv, [Next]_vars PROVE TaskInv'
  OBVIOUS
<1>1. ASSUME UNCHANGED taskVars PROVE TaskInv'
  BY <1>1 DEF taskVars, TaskInv, TaskTypes, Agrees
<1>2. CASE Playback \/ StopAsked \/ Boot
  BY <1>1, <1>2 DEF Playback, Receive, DownloadWrites, MediaTask, PlayerExits, Rest, StopAsked,
     Boot
<1>3. CASE StreamStopped \/ MediaStopped \/ WorkerStopped \/ MonitorStopped \/ DatabaseClosed
  BY <1>1, <1>3 DEF StreamStopped, MediaStopped, WorkerStopped, MonitorStopped, DatabaseClosed
<1>4. CASE LoopEnds \/ Exit \/ Kill
  BY <1>4 DEF LoopEnds, Exit, Kill, Gone, Dropped, TaskInv, TaskTypes, Agrees
<1>5. ASSUME NEW t \in Tasks, CodeExits(t) PROVE TaskInv'
  BY <1>5 DEF CodeExits, TaskInv, TaskTypes, Agrees
<1>6. CASE UNCHANGED vars
  BY <1>1, <1>6 DEF vars, taskVars
<1> QED BY <1>2, <1>3, <1>4, <1>5, <1>6, StartingStep, QueueStep DEF Next, ShuttingDown

LEMMA InitTask == Init => TaskInv
BY DEF Init, TaskInv, TaskTypes, Agrees, Ends

\* A task is run at most once and its end told at most once and truly, over any number of
\* starts.
THEOREM TasksAtMostOnce == Spec => []AtMostOnce
<1>1. Init => TaskInv
  BY InitTask
<1>2. TaskInv => AtMostOnce
  BY DEF TaskInv, Agrees, AtMostOnce
<1> QED BY <1>1, <1>2, TaskStep, PTL DEF Spec

-----------------------------------------------------------------------------
(* The tasks follow TaskLifecycle over all the lives of the bot.             *)

\* A task is started when OpenCode is launched for it, and over when its row says so.
TaskStage(t) ==
    IF row[t] = "absent" THEN "new"
    ELSE IF row[t] \in Ends THEN "over"
    ELSE IF launched[t] = 0 THEN "queued"
    ELSE "started"

Lifecycle == INSTANCE TaskLifecycle WITH Task <- Tasks, stage <- [t \in Tasks |-> TaskStage(t)]

\* A step moves a task along an arc, and OpenCode is launched on one of them only.
MovesOn(u) ==
    /\ TaskStage(u)' = TaskStage(u) \/ <<TaskStage(u), TaskStage(u)'>> \in Lifecycle!Arcs
    /\ launched'[u] # launched[u] => TaskStage(u) = "queued" /\ TaskStage(u)' = "started"

LEMMA StageStep ==
    ASSUME TaskInv, NEW u \in Tasks, [Next]_vars
    PROVE  MovesOn(u)
<1> USE DEF TaskInv, TaskTypes, Agrees, Ends, MovesOn, TaskStage, Lifecycle!Arcs
<1>1. ASSUME UNCHANGED <<row, launched>> PROVE MovesOn(u)
  BY <1>1
<1>2. CASE Playback \/ StopAsked \/ Boot \/ LoopEnds \/ Exit \/ Kill \/ Serve \/ Dispatching
  BY <1>1, <1>2 DEF Playback, Receive, DownloadWrites, MediaTask, PlayerExits, Rest, taskVars, StopAsked,
     Boot, LoopEnds, Exit, Kill, Gone, Serve, Dispatching, PassEnds, LoopWakes
<1>3. CASE StreamStopped \/ MediaStopped \/ WorkerStopped \/ MonitorStopped \/ DatabaseClosed
  BY <1>1, <1>3 DEF StreamStopped, MediaStopped, WorkerStopped, MonitorStopped, DatabaseClosed, taskVars
<1>4. ASSUME NEW t \in Tasks, CodeExits(t) \/ TellInterrupted(t) \/ Begin(t) \/ Tell(t) \/ Lost(t)
      PROVE  MovesOn(u)
  BY <1>1, <1>4 DEF CodeExits, TellInterrupted, Begin, Tell, Lost
<1>5. ASSUME NEW t \in Tasks, Recover(t) PROVE MovesOn(u)
  BY <1>5 DEF Recover, Row
<1>6. ASSUME NEW t \in Tasks, Create(t) PROVE MovesOn(u)
  BY <1>6 DEF Create, Row
<1>7. ASSUME NEW t \in Tasks, Dispatch(t) PROVE MovesOn(u)
  BY <1>7 DEF Dispatch, Row
<1>8. ASSUME NEW t \in Tasks, Launch(t) PROVE MovesOn(u)
  BY <1>8 DEF Launch
<1>9. ASSUME NEW t \in Tasks, NotLaunched(t) \/ Finish(t) \/ Breaks(t) PROVE MovesOn(u)
  BY <1>9 DEF NotLaunched, Finish, Breaks, Row
<1>10. CASE UNCHANGED vars
  BY <1>1, <1>10 DEF vars
<1> QED BY <1>2, <1>3, <1>4, <1>5, <1>6, <1>7, <1>8, <1>9, <1>10
        DEF Next, Starting, Queue, ShuttingDown

\* Stops, kills and restarts included, every task is queued, started and over in this order
\* and at most once (main.py, recover_interrupted; queue_worker.py, dispatch): the same
\* lifecycle that the queue itself is shown to implement.
THEOREM RestartsFollowLifecycle == Spec => Lifecycle!Spec
<1>1. Init => Lifecycle!Init
  BY DEF Init, Lifecycle!Init, TaskStage
<1>2. TaskInv /\ [Next]_vars => [Lifecycle!Next]_([t \in Tasks |-> TaskStage(t)])
  <2> SUFFICES ASSUME TaskInv, [Next]_vars PROVE Lifecycle!Next
    OBVIOUS
  <2>1. \A u \in Tasks : MovesOn(u)
    BY StageStep
  <2> QED BY <2>1 DEF Lifecycle!Next, MovesOn
<1>3. Init => TaskInv
  BY InitTask
<1> QED BY <1>1, <1>2, <1>3, TaskStep, PTL DEF Spec, Lifecycle!Spec

\* OpenCode is launched for a task only as it goes from queued to started: never for one
\* that is over, nor a second time after a restart (task_executor.py, execute).
THEOREM LaunchesOnArc ==
    Spec => [][\A t \in Tasks : launched'[t] # launched[t]
                  => TaskStage(t) = "queued" /\ TaskStage(t)' = "started"]_vars
<1>1. TaskInv /\ [Next]_vars
        => [\A t \in Tasks : launched'[t] # launched[t]
              => TaskStage(t) = "queued" /\ TaskStage(t)' = "started"]_vars
  BY StageStep DEF MovesOn
<1>2. Init => TaskInv
  BY InitTask
<1> QED BY <1>1, <1>2, TaskStep, PTL DEF Spec

-----------------------------------------------------------------------------
(* Types.                                                                    *)

LifeTypes ==
    /\ life \in {"down", "boot", "serving", "stream", "media", "worker", "monitor", "database",
                 "ending", "cancelled"}
    /\ lives \in 0..MaxLives
    /\ monitored \in BOOLEAN
    /\ db \in {"open", "closed"}
    /\ loop \in {"off", "pass", "waiting", "over"}
    /\ stop \in BOOLEAN

LEMMA LifeStep == LifeTypes /\ [Next]_vars => LifeTypes'
<1> SUFFICES ASSUME LifeTypes, [Next]_vars PROVE LifeTypes'
  OBVIOUS
<1> USE DEF LifeTypes
<1>1. CASE Playback
  BY <1>1 DEF Playback, Receive, DownloadWrites, MediaTask, PlayerExits, Rest, workerVars
<1>2. CASE ShuttingDown
  BY <1>2 DEF ShuttingDown, StreamStopped, MediaStopped, WorkerStopped, MonitorStopped,
     DatabaseClosed, LoopEnds, workerVars
<1>3. CASE Boot
  BY <1>3, ShutdownAssumption DEF Boot, workerVars
<1>4. CASE StopAsked \/ Exit \/ Kill
  BY <1>4 DEF StopAsked, Exit, Kill, Gone, workerVars
<1>5. CASE Starting
  BY <1>5 DEF Starting, Serve, Recover, TellInterrupted, workerVars
<1>6. CASE Queue
  BY <1>6 DEF Queue, Dispatching, PassEnds, LoopWakes, Create, Dispatch, Begin, Launch,
     NotLaunched, Finish, Breaks, Tell, Lost, workerVars
<1>7. CASE \E t \in Tasks : CodeExits(t)
  BY <1>7 DEF CodeExits, workerVars
<1>8. CASE UNCHANGED vars
  BY <1>8 DEF vars, workerVars
<1> QED BY <1>1, <1>2, <1>3, <1>4, <1>5, <1>6, <1>7, <1>8 DEF Next

\* Every variable of the bot keeps its type, those of the tasks and the playbacks included.
THEOREM BotTypes == Spec => []TypeOK
<1>1. Init => LifeTypes
  <2> SUFFICES ASSUME Init PROVE LifeTypes
    OBVIOUS
  <2>1. lives \in 0..MaxLives
    BY ShutdownAssumption DEF Init
  <2>2. life = "down" /\ monitored \in BOOLEAN /\ db = "closed" /\ loop = "off" /\ stop = FALSE
    BY DEF Init
  <2> QED BY <2>1, <2>2 DEF LifeTypes
<1>2. Init => TaskInv
  BY InitTask
<1>3. LifeTypes /\ TaskInv /\ PlaybackInv => TypeOK
  BY DEF LifeTypes, TaskInv, TaskTypes, PlaybackInv, TypeOK
<1> QED BY <1>1, <1>2, <1>3, LifeStep, TaskStep, PlaybackInvariant, PTL DEF Spec
=============================================================================
