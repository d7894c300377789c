------------------------------ MODULE Sessions ------------------------------
(***************************************************************************)
(* The conversations of one user: the sessions and user_state tables of    *)
(* repository.py, the handlers of /new, /continue, /use and of a plain     *)
(* message (bot.py over task_manager.py), and how task_executor.py ties a  *)
(* session to an OpenCode conversation.                                    *)
(*                                                                         *)
(* Telegram updates are handled concurrently, so the handlers interleave   *)
(* at every database call.  A commit makes all that any handler has        *)
(* written durable.  The queue is abstracted to what TaskQueue shows of    *)
(* it: the tasks of one session run one at a time.  Every query names the  *)
(* user, so that users meet only in each other's commits.                  *)
(***************************************************************************)
EXTENDS Naturals, FiniteSets

CONSTANTS
    Projects,
    NoProject,
    DefaultProject,  \* the registry's default project, or NoProject
    StartProject,    \* settings.default_project, or NoProject
    Handlers,        \* how many updates are handled at a time
    MaxSessions,     \* rows of the sessions table (model bound)
    MaxMessages,     \* messages that reach the tasks table (model bound)
    MaxRequests,     \* updates handled altogether (model bound)
    MaxCrashes,      \* restarts (model bound)
    Patient          \* the user waits for an answer before the next message

ASSUME SessionsAssumption ==
    /\ NoProject \notin Projects
    /\ {DefaultProject, StartProject} \subseteq Projects \cup {NoProject}
    /\ MaxSessions \in Nat /\ MaxMessages \in Nat
    /\ MaxRequests \in Nat /\ MaxCrashes \in Nat
    /\ Patient \in BOOLEAN

SessionIds == 1..MaxSessions
Messages == 1..MaxMessages

VARIABLES
    project,   \* the project of each session row, NoProject where there is no row
    oc,        \* its opencode_session_id
    active,    \* the sessions with is_active = 1
    current,   \* user_state.active_project
    task,      \* the tasks of the user's messages
    disk,      \* these tables as of the last commit
    handler,   \* the updates in flight
    enabled,   \* the enabled projects, read when the bot starts
    conv,      \* history: the OpenCode conversation each message was sent to
    kept,      \* history: the messages whose conversation the bot got to know
    requests,  \* history: updates so far
    alone,     \* history: no update has come while another was in flight
    crashes    \* history: restarts so far

tables == <<project, oc, active, current, task>>
vars == <<project, oc, active, current, task, disk, handler, enabled, conv, kept,
          requests, alone, crashes>>

\* An OpenCode conversation is named by the message that opened it; 0 is none.
Conversations == 0..MaxMessages

Tasks == [ses  : SessionIds \cup {0},
          uses : Conversations,  \* the task's session_id
          st   : {"absent", "queued", "running", "touched", "over"}]

NoTask == [ses |-> 0, uses |-> 0, st |-> "absent"]

Snapshot == [project |-> project, oc |-> oc, active |-> active, current |-> current,
             task |-> task]

\* An update being handled: what it does next, and what it has read so far.
Update(step, s, c, p) == [at |-> step, ses |-> s, oc |-> c, project |-> p]
Idle == Update("idle", 0, 0, NoProject)

Init ==
    /\ project = [s \in SessionIds |-> NoProject]
    /\ oc = [s \in SessionIds |-> 0]
    /\ active = {}
    /\ current = NoProject
    /\ task = [m \in Messages |-> NoTask]
    /\ disk = Snapshot
    /\ handler = [h \in Handlers |-> Idle]
    /\ enabled = Projects
    /\ conv = [m \in Messages |-> 0]
    /\ kept = {}
    /\ requests = 0
    /\ alone = TRUE
    /\ crashes = 0

Commit == disk' = Snapshot

\* TaskManager.active_project
ActiveProject ==
    IF current \in enabled THEN current
    ELSE IF DefaultProject \in enabled THEN DefaultProject
    ELSE NoProject

Unfinished(s) == \E m \in Messages : task[m].ses = s /\ task[m].st # "over"

-----------------------------------------------------------------------------
(* The steps the handlers are made of.  Each is one database call.           *)

Quiet == \A h \in Handlers : handler[h] = Idle

Arrives(h) ==
    /\ handler[h].at = "idle"
    /\ requests < MaxRequests
    /\ requests' = requests + 1
    /\ alone' = (alone /\ Quiet)

At(h, step) == handler[h].at = step /\ UNCHANGED <<requests, alone>>
Goto(h, step) == handler' = [handler EXCEPT ![h].at = step]
Finish(h) == handler' = [handler EXCEPT ![h] = Idle]

\* /new in the active project; without one the user only gets a hint.
New(h) ==
    /\ Arrives(h)
    /\ ActiveProject # NoProject
    /\ handler' = [handler EXCEPT ![h] = Update("insert", 0, 0, ActiveProject)]
    /\ UNCHANGED <<tables, disk, enabled, conv, kept, crashes>>

\* create_session: the INSERT, and its commit.
InsertSession(h, s) ==
    /\ At(h, "insert")
    /\ project[s] = NoProject
    /\ \A r \in SessionIds : r < s => project[r] # NoProject
    /\ project' = [project EXCEPT ![s] = handler[h].project]
    /\ handler' = [handler EXCEPT ![h].at = "inserted", ![h].ses = s]
    /\ UNCHANGED <<oc, active, current, task, disk, enabled, conv, kept, crashes>>

CommitSession(h) ==
    /\ At(h, "inserted")
    /\ Commit
    /\ handler' = [handler EXCEPT ![h].at = "deactivate", ![h].project = NoProject]
    /\ UNCHANGED <<tables, enabled, conv, kept, crashes>>

\* /continue, by the internal id or by the OpenCode id: the session is found and
\* its project is enabled.
Continue(h, s) ==
    /\ Arrives(h)
    /\ project[s] \in enabled
    /\ handler' = [handler EXCEPT ![h] =
                     Update(IF oc[s] = 0 THEN "deactivate" ELSE "lookup", s, oc[s], project[s])]
    /\ UNCHANGED <<tables, disk, enabled, conv, kept, crashes>>

\* session_exists, for /continue: the conversation is there, or it is not.
LookUp(h) ==
    /\ At(h, "lookup")
    /\ Goto(h, "deactivate") \/ Finish(h)
    /\ UNCHANGED <<tables, disk, enabled, conv, kept, crashes>>

\* Mutant of Deactivate: only the session that will be active is cleared.
DeactivateOwn(h) ==
    /\ At(h, "deactivate")
    /\ active' = active \ {handler[h].ses}
    /\ Goto(h, "activate")
    /\ UNCHANGED <<project, oc, current, task, disk, enabled, conv, kept, crashes>>

\* set_active_session: two UPDATEs and one commit.
Deactivate(h) ==
    /\ At(h, "deactivate")
    /\ active' = {}
    /\ Goto(h, "activate")
    /\ UNCHANGED <<project, oc, current, task, disk, enabled, conv, kept, crashes>>

Activate(h) ==
    /\ At(h, "activate")
    /\ active' = active \cup {handler[h].ses}
    /\ Goto(h, "activated")
    /\ UNCHANGED <<project, oc, current, task, disk, enabled, conv, kept, crashes>>

\* Mutant of CommitActive: /continue leaves the active project as it is.
CommitActiveOnly(h) ==
    /\ At(h, "activated")
    /\ Commit
    /\ Finish(h)
    /\ UNCHANGED <<tables, enabled, conv, kept, crashes>>

\* /new is done; /continue sets the active project as well.
CommitActive(h) ==
    /\ At(h, "activated")
    /\ Commit
    /\ IF handler[h].project = NoProject THEN Finish(h) ELSE Goto(h, "project")
    /\ UNCHANGED <<tables, enabled, conv, kept, crashes>>

SetProject(h) ==
    /\ At(h, "project")
    /\ current' = handler[h].project
    /\ Goto(h, "saved")
    /\ UNCHANGED <<project, oc, active, task, disk, enabled, conv, kept, crashes>>

\* /start, for a user without an active project: the default of the settings.
StartCommand(h) ==
    /\ Arrives(h)
    /\ current = NoProject
    /\ StartProject # NoProject
    /\ handler' = [handler EXCEPT ![h] = Update("project", 0, 0, StartProject)]
    /\ UNCHANGED <<tables, disk, enabled, conv, kept, crashes>>

\* /use: the active project, its commit, and then no active session any more.
Use(h, p) ==
    /\ Arrives(h)
    /\ p \in enabled
    /\ current' = p
    /\ handler' = [handler EXCEPT ![h] = Update("saved", 0, 0, NoProject)]
    /\ UNCHANGED <<project, oc, active, task, disk, enabled, conv, kept, crashes>>

CommitProject(h) ==
    /\ At(h, "saved")
    /\ Commit
    /\ IF handler[h].project = NoProject THEN Goto(h, "clear") ELSE Finish(h)
    /\ UNCHANGED <<tables, enabled, conv, kept, crashes>>

\* clear_active_session, after /use or for a session of a disabled project.
Clear(h) ==
    /\ At(h, "clear")
    /\ active' = {}
    /\ Goto(h, "cleared")
    /\ UNCHANGED <<project, oc, current, task, disk, enabled, conv, kept, crashes>>

CommitClear(h) ==
    /\ At(h, "cleared")
    /\ Commit
    /\ Finish(h)
    /\ UNCHANGED <<tables, enabled, conv, kept, crashes>>

-----------------------------------------------------------------------------
(* A plain message.                                                          *)

\* The message is on its way to session s, or waits there for its answer.
Talking(s) ==
    \/ Unfinished(s)
    \/ \E h \in Handlers : handler[h].ses = s /\ handler[h].at \in {"check", "queue", "queued"}

\* active_session returns one of the active rows, as they are now.
Message(h, s) ==
    /\ Arrives(h)
    /\ s \in active
    /\ Patient => ~Talking(s)
    /\ handler' = [handler EXCEPT ![h] =
                     IF project[s] \notin enabled THEN Update("clear", 0, 0, NoProject)
                     ELSE Update(IF oc[s] = 0 THEN "queue" ELSE "check", s, oc[s], NoProject)]
    /\ UNCHANGED <<tables, disk, enabled, conv, kept, crashes>>

\* session_exists, for send_message.
Check(h) ==
    /\ At(h, "check")
    /\ Goto(h, "queue") \/ Finish(h)
    /\ UNCHANGED <<tables, disk, enabled, conv, kept, crashes>>

\* Mutant of Queue: create_task without session_id.
QueueAnew(h, m) ==
    /\ At(h, "queue")
    /\ task[m].st = "absent"
    /\ \A n \in Messages : n < m => task[n].st # "absent"
    /\ task' = [task EXCEPT ![m] = [ses |-> handler[h].ses, uses |-> 0, st |-> "queued"]]
    /\ Goto(h, "queued")
    /\ UNCHANGED <<project, oc, active, current, disk, enabled, conv, kept, crashes>>

\* create_task with the conversation that was read above.
Queue(h, m) ==
    /\ At(h, "queue")
    /\ task[m].st = "absent"
    /\ \A n \in Messages : n < m => task[n].st # "absent"
    /\ task' = [task EXCEPT ![m] = [ses |-> handler[h].ses, uses |-> handler[h].oc,
                                     st |-> "queued"]]
    /\ Goto(h, "queued")
    /\ UNCHANGED <<project, oc, active, current, disk, enabled, conv, kept, crashes>>

\* Its commit; from here the handler only waits for the reply.
CommitTask(h) ==
    /\ At(h, "queued")
    /\ Commit
    /\ Finish(h)
    /\ UNCHANGED <<tables, enabled, conv, kept, crashes>>

-----------------------------------------------------------------------------
(* The execution of a message, as TaskQueue schedules it.                    *)

\* mark_started with its commit, and opencode run, with -s if the task names a
\* conversation; otherwise OpenCode opens one.
Start(m) ==
    /\ task[m].st = "queued"
    /\ \A n \in Messages : task[n].ses = task[m].ses
                              => task[n].st \notin {"running", "touched"}
    /\ task' = [task EXCEPT ![m].st = "running"]
    /\ conv' = [conv EXCEPT ![m] = IF task[m].uses = 0 THEN m ELSE task[m].uses]
    /\ UNCHANGED <<project, oc, active, current, handler, enabled, kept, requests, alone, crashes>>
    /\ disk' = Snapshot'

\* Mutant of Touch: the conversation is stored in the session that is active now.
TouchActive(m) ==
    /\ task[m].st = "running"
    /\ oc[task[m].ses] # conv[m]
    /\ oc' = [s \in SessionIds |-> IF s \in active THEN conv[m] ELSE oc[s]]
    /\ task' = [task EXCEPT ![m].st = "touched"]
    /\ UNCHANGED <<project, active, current, disk, handler, enabled, conv, kept, requests, alone, crashes>>

\* touch_session: the events named another conversation than the session's.
Touch(m) ==
    /\ task[m].st = "running"
    /\ oc[task[m].ses] # conv[m]
    /\ oc' = [oc EXCEPT ![task[m].ses] = conv[m]]
    /\ task' = [task EXCEPT ![m].st = "touched"]
    /\ UNCHANGED <<project, active, current, disk, handler, enabled, conv, kept, requests, alone, crashes>>

\* mark_finished.  Without touch_session before it, the session has the
\* conversation already, or the reader never saw its name.
EndMessage(m) ==
    /\ task[m].st \in {"running", "touched"}
    /\ task' = [task EXCEPT ![m].st = "over"]
    /\ kept' = IF oc[task[m].ses] = conv[m] THEN kept \cup {m} ELSE kept
    /\ UNCHANGED <<project, oc, active, current, handler, enabled, conv, requests, alone, crashes>>
    /\ disk' = Snapshot'

-----------------------------------------------------------------------------

\* A commit of some other coroutine on the shared connection.
OtherCommit ==
    /\ disk # Snapshot
    /\ Commit
    /\ UNCHANGED <<tables, handler, enabled, conv, kept, requests, alone, crashes>>

\* A crash and a restart: recover_interrupted ends the tasks that were running,
\* and projects.yaml may have changed.
Restart ==
    /\ crashes < MaxCrashes
    /\ crashes' = crashes + 1
    /\ project' = disk.project
    /\ oc' = disk.oc
    /\ active' = disk.active
    /\ current' = disk.current
    /\ task' = [m \in Messages |->
                  IF disk.task[m].st \in {"running", "touched"}
                    THEN [disk.task[m] EXCEPT !.st = "over"] ELSE disk.task[m]]
    /\ disk' = Snapshot'
    /\ handler' = [h \in Handlers |-> Idle]
    /\ enabled' \in SUBSET Projects
    /\ UNCHANGED <<conv, kept, requests, alone>>

Handle(h) ==
    \/ New(h) \/ CommitSession(h) \/ StartCommand(h)
    \/ \E s \in SessionIds : InsertSession(h, s) \/ Continue(h, s) \/ Message(h, s)
    \/ \E p \in Projects : Use(h, p)
    \/ LookUp(h) \/ Deactivate(h) \/ Activate(h) \/ CommitActive(h)
    \/ SetProject(h) \/ CommitProject(h) \/ Clear(h) \/ CommitClear(h)
    \/ Check(h) \/ CommitTask(h)
    \/ \E m \in Messages : Queue(h, m)

Next ==
    \/ \E h \in Handlers : Handle(h)
    \/ \E m \in Messages : Start(m) \/ Touch(m) \/ EndMessage(m)
    \/ OtherCommit
    \/ Restart

Spec == Init /\ [][Next]_vars

-----------------------------------------------------------------------------

Steps == {"idle", "insert", "inserted", "lookup", "deactivate", "activate", "activated",
          "project", "saved", "clear", "cleared", "check", "queue", "queued"}

Contents == [project : [SessionIds -> Projects \cup {NoProject}],
             oc : [SessionIds -> Conversations], active : SUBSET SessionIds,
             current : Projects \cup {NoProject}, task : [Messages -> Tasks]]

Updates == [at : Steps, ses : SessionIds \cup {0}, oc : Conversations,
            project : Projects \cup {NoProject}]

TypeOK ==
    /\ project \in [SessionIds -> Projects \cup {NoProject}]
    /\ oc \in [SessionIds -> Conversations]
    /\ active \in SUBSET SessionIds
    /\ current \in Projects \cup {NoProject}
    /\ task \in [Messages -> Tasks]
    /\ disk \in Contents
    /\ handler \in [Handlers -> Updates]
    /\ enabled \in SUBSET Projects
    /\ conv \in [Messages -> Conversations]
    /\ kept \in SUBSET Messages
    /\ requests \in Nat
    /\ alone \in BOOLEAN
    /\ crashes \in Nat

\* An OpenCode conversation stays with the session that opened it, whatever is
\* activated, switched or restarted meanwhile: it never works in the project of
\* another session (test_sessions.py:185).
ConversationOwned ==
    \A m, n \in Messages : conv[m] = conv[n] /\ conv[m] # 0
                             => task[m].ses = task[n].ses

\* Once the bot knows the conversation of a session, every later message of the
\* session is sent to it ("assigned on the first message and reused by every
\* following message of the same conversation", models.py:63).
Continuity ==
    \A m, n \in Messages :
        m < n /\ m \in kept /\ conv[n] # 0 /\ task[m].ses = task[n].ses
            => conv[n] = conv[m]

\* At any time between updates at most one session is active ("replaces active",
\* test_sessions.py:65).
ReplacesActive == Quiet => Cardinality(active) <= 1

\* The same for a user who sends one update at a time, also after a crash between
\* the two UPDATEs and their commit.
OneActive == alone => ReplacesActive

\* The registry (projects.yaml) and the settings (.env) each name a default project;
\* they agree, or one of them names none.
OneDefault == DefaultProject = StartProject \/ NoProject \in {DefaultProject, StartProject}

\* For such a user the active session belongs to the active project, which /new
\* and /continue set and /use changes ("Create a new session in the active
\* project and make it active", task_manager.py:124), as long as no restart comes
\* between two of the statements and there are not two default projects.
ActiveInProject ==
    alone /\ crashes = 0 /\ OneDefault /\ Quiet => \A s \in active : project[s] = ActiveProject
=============================================================================
