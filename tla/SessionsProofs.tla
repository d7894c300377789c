--------------------------- MODULE SessionsProofs ---------------------------
(***************************************************************************)
(* Proofs about Sessions, for any number of sessions, messages, updates in *)
(* flight and restarts.                                                    *)
(***************************************************************************)
EXTENDS Sessions, FiniteSetTheorems, TLAPS

\* A handler that is about to activate a session has one, and one that creates a
\* session knows no conversation yet.
HandlerOK ==
    \A h \in Handlers :
        /\ handler[h].at \in {"inserted", "lookup", "deactivate", "activate"}
              => handler[h].ses # 0
        /\ handler[h].at = "insert" => handler[h].oc = 0

WellFormed == TypeOK /\ HandlerOK

LEMMA FormInit == Init => WellFormed
BY SessionsAssumption DEF Init, WellFormed, TypeOK, HandlerOK, Idle, Update, NoTask, Tasks, Steps,
                         Snapshot, Conversations, SessionIds, Messages, Contents, Updates

\* A commit copies well-formed tables.
LEMMA SnapshotType ==
    ASSUME TypeOK
    PROVE  Snapshot \in Contents
BY DEF TypeOK, Snapshot, Contents

LEMMA IdleType == Idle \in Updates
BY SessionsAssumption DEF Idle, Update, Updates, Steps, Conversations

LEMMA ActiveProjectType ==
    ASSUME TypeOK
    PROVE  ActiveProject \in Projects \cup {NoProject}
BY SessionsAssumption DEF TypeOK, ActiveProject

\* What a handler does to its own record keeps it well formed.
LEMMA HandlerStep ==
    ASSUME WellFormed, NEW h \in Handlers, Handle(h)
    PROVE  handler' \in [Handlers -> Updates] /\ HandlerOK'
<1> USE SessionsAssumption, IdleType
<1>a. /\ handler \in [Handlers -> Updates] /\ HandlerOK
      /\ enabled \subseteq Projects
      /\ project \in [SessionIds -> Projects \cup {NoProject}]
      /\ oc \in [SessionIds -> Conversations]
  BY DEF WellFormed, TypeOK
<1>p. ActiveProject \in Projects \cup {NoProject}
  BY ActiveProjectType DEF WellFormed
\* It is enough that the new record is well formed.
<1>r. ASSUME NEW r \in Updates, handler' = [handler EXCEPT ![h] = r],
             r.at \in {"inserted", "lookup", "deactivate", "activate"} => r.ses # 0,
             r.at = "insert" => r.oc = 0
      PROVE  handler' \in [Handlers -> Updates] /\ HandlerOK'
  BY <1>r, <1>a DEF HandlerOK
<1>g. ASSUME NEW x \in Steps, Goto(h, x),
             x \in {"inserted", "lookup", "deactivate", "activate"} => handler[h].ses # 0,
             x # "insert"
      PROVE  handler' \in [Handlers -> Updates] /\ HandlerOK'
  BY <1>g, <1>a DEF HandlerOK, Goto, Updates
<1>f. Finish(h) => handler' \in [Handlers -> Updates] /\ HandlerOK'
  BY <1>a DEF Finish, Idle, Update, HandlerOK
<1>1. CASE New(h) \/ StartCommand(h)
  <2>1. PICK p \in Projects \cup {NoProject}, x \in {"insert", "project"} :
          handler' = [handler EXCEPT ![h] = Update(x, 0, 0, p)]
    BY <1>1, <1>p DEF New, StartCommand
  <2>2. Update(x, 0, 0, p) \in Updates
    BY DEF Update, Updates, Steps, Conversations
  <2> QED BY <2>1, <2>2, <1>r DEF Update
<1>2. ASSUME NEW s \in SessionIds, InsertSession(h, s)
      PROVE  handler' \in [Handlers -> Updates] /\ HandlerOK'
  <2>1. s # 0
    BY DEF SessionIds
  <2> QED BY <1>2, <2>1, <1>a DEF InsertSession, HandlerOK, Updates, Steps
<1>3. CASE CommitSession(h)
  <2>1. handler[h].ses # 0
    BY <1>3, <1>a DEF CommitSession, At, HandlerOK
  <2> QED BY <1>3, <2>1, <1>a DEF CommitSession, HandlerOK, Updates, Steps
<1>4. ASSUME NEW s \in SessionIds, Continue(h, s) \/ Message(h, s)
      PROVE  handler' \in [Handlers -> Updates] /\ HandlerOK'
  <2>1. CASE handler' = [handler EXCEPT ![h] = Update("clear", 0, 0, NoProject)]
    <3>1. Update("clear", 0, 0, NoProject) \in Updates
      BY DEF Update, Updates, Steps, Conversations
    <3> QED BY <2>1, <3>1, <1>r DEF Update
  <2>2. ASSUME NEW x \in {"deactivate", "lookup", "queue", "check"},
               NEW p \in Projects \cup {NoProject},
               handler' = [handler EXCEPT ![h] = Update(x, s, oc[s], p)]
        PROVE  handler' \in [Handlers -> Updates] /\ HandlerOK'
    <3>1. Update(x, s, oc[s], p) \in Updates
      BY <1>a DEF Update, Updates, Steps
    <3>2. s # 0
      BY DEF SessionIds
    <3> QED BY <2>2, <3>1, <3>2, <1>r DEF Update
  <2>3. \/ handler' = [handler EXCEPT ![h] = Update("clear", 0, 0, NoProject)]
        \/ \E x \in {"deactivate", "lookup", "queue", "check"}, p \in Projects \cup {NoProject} :
              handler' = [handler EXCEPT ![h] = Update(x, s, oc[s], p)]
    BY <1>4, <1>a DEF Continue, Message
  <2> QED BY <2>1, <2>2, <2>3
<1>6. ASSUME NEW p \in Projects, Use(h, p)
      PROVE  handler' \in [Handlers -> Updates] /\ HandlerOK'
  <2>1. Update("saved", 0, 0, NoProject) \in Updates
    BY DEF Update, Updates, Steps, Conversations
  <2> QED BY <1>6, <2>1, <1>r DEF Use, Update
<1>7. CASE LookUp(h) \/ Deactivate(h)
  <2>1. handler[h].ses # 0
    BY <1>7, <1>a DEF LookUp, Deactivate, At, HandlerOK
  <2> QED BY <1>7, <2>1, <1>g, <1>f DEF LookUp, Deactivate, Steps
<1>8. CASE \/ Activate(h) \/ CommitActive(h) \/ SetProject(h) \/ CommitProject(h) \/ Clear(h)
           \/ CommitClear(h) \/ Check(h) \/ CommitTask(h) \/ \E m \in Messages : Queue(h, m)
  <2>1. Finish(h) \/ \E x \in {"activated", "project", "saved", "clear", "cleared", "queue",
                               "queued"} : Goto(h, x)
    BY <1>8 DEF Activate, CommitActive, SetProject, CommitProject, Clear, CommitClear, Check,
       CommitTask, Queue
  <2> QED BY <2>1, <1>g, <1>f DEF Steps
<1> QED BY <1>1, <1>2, <1>3, <1>4, <1>6, <1>7, <1>8 DEF Handle

\* Every query of the model leaves the tables well formed.
LEMMA FormStep == WellFormed /\ [Next]_vars => WellFormed'
<1> SUFFICES ASSUME WellFormed, [Next]_vars PROVE WellFormed'
  OBVIOUS
<1> USE SessionsAssumption
<1>a. TypeOK /\ HandlerOK
  BY DEF WellFormed
<1>1. ASSUME NEW h \in Handlers, Handle(h) PROVE WellFormed'
  <2>h. handler' \in [Handlers -> Updates] /\ HandlerOK'
    BY <1>1, HandlerStep
  <2>a. UNCHANGED <<enabled, conv, kept, crashes>> /\ (Arrives(h) \/ \E x \in Steps : At(h, x))
    BY <1>1 DEF Handle, New, CommitSession, StartCommand, InsertSession, Continue,
       Message, Use, LookUp, Deactivate, Activate, CommitActive, SetProject, CommitProject,
       Clear, CommitClear, Check, CommitTask, Queue, Steps
  <2>b. requests' \in Nat
    BY <2>a, <1>a DEF Arrives, At, TypeOK
  <2>c. alone' \in BOOLEAN
    <3>1. CASE Arrives(h)
      BY <3>1, Zenon DEF Arrives
    <3>2. CASE \E x \in Steps : At(h, x)
      BY <3>2, <1>a, Zenon DEF At, TypeOK
    <3> QED BY <2>a, <3>1, <3>2
  <2>r. /\ UNCHANGED <<enabled, conv, kept, crashes>>
        /\ requests' \in Nat /\ alone' \in BOOLEAN
    BY <2>a, <2>b, <2>c
  <2>1. CASE UNCHANGED tables /\ (Commit \/ UNCHANGED disk)
    BY <2>1, <2>h, <2>r, <1>a, SnapshotType DEF tables, Commit, WellFormed, TypeOK
  <2>2. CASE \E s \in SessionIds : InsertSession(h, s)
    <3>1. project' \in [SessionIds -> Projects \cup {NoProject}]
      BY <2>2, <1>a DEF InsertSession, TypeOK, Updates
    <3> QED BY <3>1, <2>2, <2>h, <2>r, <1>a DEF InsertSession, WellFormed, TypeOK
  <2>3. CASE Deactivate(h) \/ Clear(h) \/ Activate(h)
    <3>1. active' \in SUBSET SessionIds
      BY <2>3, <1>a DEF Deactivate, Clear, Activate, At, TypeOK, HandlerOK, Updates
    <3> QED BY <3>1, <2>3, <2>h, <2>r, <1>a DEF Deactivate, Clear, Activate, WellFormed, TypeOK
  <2>4. CASE SetProject(h) \/ \E p \in Projects : Use(h, p)
    <3>1. current' \in Projects \cup {NoProject}
      BY <2>4, <1>a DEF SetProject, Use, TypeOK, Updates
    <3> QED BY <3>1, <2>4, <2>h, <2>r, <1>a DEF SetProject, Use, WellFormed, TypeOK
  <2>5. ASSUME NEW m \in Messages, Queue(h, m) PROVE WellFormed'
    <3>1. [ses |-> handler[h].ses, uses |-> handler[h].oc, st |-> "queued"] \in Tasks
      BY <1>a DEF TypeOK, Updates, Tasks
    <3>2. task' \in [Messages -> Tasks]
      BY <2>5, <3>1, <1>a DEF Queue, TypeOK
    <3> QED BY <3>2, <2>5, <2>h, <2>r, <1>a DEF Queue, WellFormed, TypeOK
  <2> QED BY <1>1, <2>1, <2>2, <2>3, <2>4, <2>5 DEF Handle, New, CommitSession,
       StartCommand, Continue, Message, LookUp, CommitActive, CommitProject, CommitClear,
       Check, CommitTask, Commit
<1>2. ASSUME NEW m \in Messages, Start(m) \/ Touch(m) \/ EndMessage(m) PROVE WellFormed'
  <2>m. task[m] \in Tasks /\ m \in Conversations
    BY <1>a DEF TypeOK, Messages, Conversations
  <2>1. conv' \in [Messages -> Conversations]
    BY <1>2, <1>a, <2>m DEF TypeOK, Start, Touch, EndMessage, Tasks
  <2>2. PICK x \in {"running", "touched", "over"} : task' = [task EXCEPT ![m].st = x]
    BY <1>2 DEF Start, Touch, EndMessage
  <2>3. task' \in [Messages -> Tasks]
    BY <2>2, <1>a DEF TypeOK, Tasks
  <2>4. /\ oc' \in [SessionIds -> Conversations]
        /\ kept' \in SUBSET Messages
    BY <1>2, <1>a DEF TypeOK, Start, Touch, EndMessage
  <2>5. UNCHANGED <<project, active, current, handler, enabled, requests, alone, crashes>>
    BY <1>2 DEF Start, Touch, EndMessage
  <2>6. disk' = disk \/ disk' = Snapshot'
    BY <1>2 DEF Start, Touch, EndMessage
  <2>7. disk' \in Contents
    BY <2>3, <2>4, <2>5, <2>6, <1>a DEF TypeOK, Snapshot, Contents
  <2> QED BY <1>a, <2>1, <2>3, <2>4, <2>5, <2>7 DEF WellFormed, TypeOK, HandlerOK
<1>3. CASE OtherCommit
  BY <1>3, <1>a, SnapshotType DEF OtherCommit, Commit, tables, WellFormed, TypeOK, HandlerOK
<1>4. CASE Restart
  <2>1. ASSUME NEW m \in Messages PROVE task'[m] \in Tasks
    <3>1. disk.task[m] \in Tasks
      BY <1>a DEF TypeOK, Contents
    <3>2. task'[m] = IF disk.task[m].st \in {"running", "touched"}
                       THEN [disk.task[m] EXCEPT !.st = "over"] ELSE disk.task[m]
      BY <1>4 DEF Restart
    <3> QED BY <3>1, <3>2 DEF Tasks
  <2>2. task' \in [Messages -> Tasks]
    BY <1>4, <2>1 DEF Restart
  <2>3. /\ project' \in [SessionIds -> Projects \cup {NoProject}]
        /\ oc' \in [SessionIds -> Conversations]
        /\ active' \in SUBSET SessionIds
        /\ current' \in Projects \cup {NoProject}
    BY <1>4, <1>a DEF Restart, TypeOK, Contents
  <2>4. disk' \in Contents
    BY <1>4, <2>2, <2>3 DEF Restart, Snapshot, Contents
  <2>5. handler' \in [Handlers -> Updates] /\ HandlerOK'
    BY <1>4, IdleType DEF Restart, HandlerOK, Idle, Update
  <2>6. UNCHANGED <<conv, kept, requests, alone>> /\ enabled' \in SUBSET Projects /\ crashes' \in Nat
    BY <1>4, <1>a DEF Restart, TypeOK
  <2> QED BY <2>2, <2>3, <2>4, <2>5, <2>6, <1>a DEF WellFormed, TypeOK
<1>5. CASE UNCHANGED vars
  BY <1>5, <1>a DEF vars, WellFormed, TypeOK, HandlerOK
<1> QED BY <1>1, <1>2, <1>3, <1>4, <1>5 DEF Next

\* The tables, the handlers and the histories keep their types: no step stores a
\* value of another column, and a restart reads well-formed rows.
THEOREM WellTyped == Spec => []TypeOK
<1>1. WellFormed => TypeOK
  BY DEF WellFormed
<1> QED BY FormInit, FormStep, <1>1, PTL DEF Spec

-----------------------------------------------------------------------------
(* Conversations stay with their sessions.                                   *)

\* c is no conversation, or one that a message of session s opened.
Named(c, s) == c # 0 => /\ c \in Messages
                        /\ conv[c] = c
                        /\ task[c].ses = s

\* The rows of the tables name only conversations of their own session.
RowsNamed(ocs, tasks) ==
    /\ \A s \in SessionIds : Named(ocs[s], s)
    /\ \A m \in Messages : Named(tasks[m].uses, tasks[m].ses)

\* A message that was sent is committed as started, with its session.
SentCommitted ==
    \A m \in Messages : conv[m] # 0 =>
        /\ task[m].st \notin {"absent", "queued"}
        /\ disk.task[m].st \notin {"absent", "queued"}
        /\ disk.task[m].ses = task[m].ses

\* ConversationOwned is not inductive: a conversation is copied from a session to
\* a handler, to a task, and back to a session, and a crash undoes what is not
\* committed.  Every copy, on disk as well, is with its own session.
OwnInv ==
    /\ \A m \in Messages : Named(conv[m], task[m].ses)
    /\ RowsNamed(oc, task)
    /\ RowsNamed(disk.oc, disk.task)
    /\ \A h \in Handlers : Named(handler[h].oc, handler[h].ses)
    /\ SentCommitted

LEMMA OwnInit == Init => OwnInv
BY SessionsAssumption DEF Init, OwnInv, Named, RowsNamed, SentCommitted, Idle, Update, NoTask,
                         Snapshot, SessionIds, Messages

\* The commits: what is on disk is what is in the tables.
LEMMA OwnCommit ==
    ASSUME WellFormed, OwnInv, [Next]_vars, UNCHANGED <<tables, conv>>, Commit,
           \A h \in Handlers : Named(handler'[h].oc, handler'[h].ses)
    PROVE  OwnInv'
BY DEF OwnInv, Named, RowsNamed, SentCommitted, Commit, Snapshot, tables

\* Steps that write neither a conversation nor a task.
LEMMA OwnKept ==
    ASSUME OwnInv, UNCHANGED <<oc, task, conv, disk>>,
           \A h \in Handlers : Named(handler'[h].oc, handler'[h].ses)
    PROVE  OwnInv'
BY DEF OwnInv, Named, RowsNamed, SentCommitted


\* The handlers' own copies: what a handler reads of a session is of that session.
LEMMA OwnHandlers ==
    ASSUME WellFormed, OwnInv, NEW h \in Handlers, Handle(h)
    PROVE  \A k \in Handlers : Named(handler'[k].oc, handler'[k].ses)
<1> USE DEF OwnInv
<1>t. handler \in [Handlers -> Updates] /\ HandlerOK
  BY DEF WellFormed, TypeOK
<1>1. \A k \in Handlers : Named(handler[k].oc, handler[k].ses)
  OBVIOUS
<1>2. ASSUME NEW s \in SessionIds, Continue(h, s) \/ Message(h, s)
      PROVE  handler'[h].oc = 0 \/ (handler'[h].oc = oc[s] /\ handler'[h].ses = s)
  BY <1>2, <1>t DEF Continue, Message, Update
<1>3. ASSUME NEW s \in SessionIds, InsertSession(h, s) PROVE handler'[h].oc = 0
  BY <1>3, <1>t DEF InsertSession, At, HandlerOK, Updates
<1>4. \A k \in Handlers \ {h} : handler'[k] = handler[k]
  BY Handle(h), <1>t DEF Handle, New, CommitSession, StartCommand, InsertSession, Continue,
     Message, Use, LookUp, Deactivate, Activate, CommitActive, SetProject, CommitProject,
     Clear, CommitClear, Check, CommitTask, Queue, Goto, Finish
<1>5. CASE ~ \E s \in SessionIds : Continue(h, s) \/ Message(h, s) \/ InsertSession(h, s)
  <2>1. \/ handler'[h].oc = 0
        \/ handler'[h].oc = handler[h].oc /\ handler'[h].ses = handler[h].ses
    BY <1>5, <1>t DEF Handle, New, CommitSession, StartCommand, Use, LookUp, Deactivate,
       Activate, CommitActive, SetProject, CommitProject, Clear, CommitClear, Check,
       CommitTask, Queue, Goto, Finish, Idle, Update, Updates
  <2> QED BY <2>1, <1>1, <1>4 DEF Named
<1> QED BY <1>1, <1>2, <1>3, <1>4, <1>5 DEF Named, RowsNamed

LEMMA OwnStep == WellFormed /\ OwnInv /\ [Next]_vars => OwnInv'
<1> SUFFICES ASSUME WellFormed, OwnInv, [Next]_vars PROVE OwnInv'
  OBVIOUS
<1> USE SessionsAssumption
<1>t. /\ task \in [Messages -> Tasks] /\ oc \in [SessionIds -> Conversations]
      /\ conv \in [Messages -> Conversations]
      /\ disk.task \in [Messages -> Tasks] /\ disk.oc \in [SessionIds -> Conversations]
      /\ handler \in [Handlers -> Updates]
  BY DEF WellFormed, TypeOK, Contents
<1>1. ASSUME NEW h \in Handlers, Handle(h) PROVE OwnInv'
  <2>h. \A k \in Handlers : Named(handler'[k].oc, handler'[k].ses)
    BY <1>1, OwnHandlers
  <2>1. CASE UNCHANGED <<oc, task, conv, disk>>
    BY <2>1, <2>h, OwnKept
  <2>2. CASE UNCHANGED <<tables, conv>> /\ Commit
    BY <2>2, <2>h, OwnCommit
  <2>3. ASSUME NEW m \in Messages, Queue(h, m) PROVE OwnInv'
    <3>1. /\ UNCHANGED <<oc, conv, disk>>
          /\ task' = [task EXCEPT ![m] = [ses |-> handler[h].ses, uses |-> handler[h].oc,
                                           st |-> "queued"]]
          /\ conv[m] = 0
      BY <2>3 DEF Queue, OwnInv, SentCommitted
    <3>2. \A n \in Messages : conv[n] # 0 => task'[n] = task[n]
      BY <3>1, <1>t
    <3>3. Named(handler[h].oc, handler[h].ses)
      BY DEF OwnInv
    <3>4. \A c \in Conversations : \A s : Named(c, s) => Named(c, s)'
      BY <3>1, <3>2 DEF Named
    <3>5. \A n \in Messages : Named(conv[n], task[n].ses)'
      BY <3>1, <3>2, <3>4, <1>t DEF OwnInv, Named
    <3>6. RowsNamed(disk.oc, disk.task)'
      BY <3>1, <3>4, <1>t DEF OwnInv, RowsNamed, Tasks
    <3>7. RowsNamed(oc, task)'
      <4>1. \A n \in Messages \ {m} : task'[n] = task[n]
        BY <3>1, <1>t
      <4>2. task'[m].uses = handler[h].oc /\ task'[m].ses = handler[h].ses
        BY <3>1, <1>t
      <4>3. handler[h].oc \in Conversations
        BY <1>t DEF Updates
      <4> QED BY <3>1, <3>3, <3>4, <4>1, <4>2, <4>3, <1>t DEF OwnInv, RowsNamed, Tasks
    <3>8. \A k \in Handlers : Named(handler[k].oc, handler[k].ses)'
      BY <2>h, <3>1, <3>2, <3>4 DEF Named
    <3>9. SentCommitted'
      BY <3>1, <3>2 DEF OwnInv, SentCommitted
    <3> QED BY <3>5, <3>6, <3>7, <3>8, <3>9 DEF OwnInv
  <2> QED BY <1>1, <2>1, <2>2, <2>3 DEF Handle, New, CommitSession, StartCommand,
       InsertSession, Continue, Message, Use, LookUp, Deactivate, Activate, CommitActive,
       SetProject, CommitProject, Clear, CommitClear, Check, CommitTask, tables
<1>2. ASSUME NEW m \in Messages, Start(m) PROVE OwnInv'
  <2>1. /\ UNCHANGED <<oc, handler>>
        /\ task' = [task EXCEPT ![m].st = "running"]
        /\ conv' = [conv EXCEPT ![m] = IF task[m].uses = 0 THEN m ELSE task[m].uses]
        /\ disk'.task = task' /\ disk'.oc = oc
        /\ conv[m] = 0
    BY <1>2 DEF Start, Snapshot, OwnInv, SentCommitted
  <2>2. \A n \in Messages : /\ task'[n].ses = task[n].ses
                            /\ task'[n].uses = task[n].uses
    BY <2>1, <1>t DEF Tasks
  <2>3. \A c \in Messages : conv[c] # 0 => conv'[c] = conv[c]
    BY <2>1, <1>t
  <2>4. \A c \in Conversations : \A s : Named(c, s) => Named(c, s)'
    BY <2>2, <2>3 DEF Named
  <2>5. \A n \in Messages : Named(conv[n], task[n].ses)'
    <3>1. ASSUME NEW n \in Messages, n # m PROVE Named(conv[n], task[n].ses)'
      <4>1. conv'[n] = conv[n] /\ task'[n].ses = task[n].ses /\ conv[n] \in Conversations
        BY <2>1, <2>2, <3>1, <1>t
      <4>2. Named(conv[n], task[n].ses)
        BY DEF OwnInv
      <4> QED BY <4>1, <4>2, <2>4 DEF Named
    <3>2. ASSUME task[m].uses = 0 PROVE Named(conv[m], task[m].ses)'
      <4>1. conv'[m] = m
        BY <3>2, <2>1, <1>t
      <4> QED BY <4>1 DEF Named
    <3>3. ASSUME task[m].uses # 0 PROVE Named(conv[m], task[m].ses)'
      <4>1. conv'[m] = task[m].uses /\ task[m].uses \in Conversations
        BY <3>3, <2>1, <1>t DEF Tasks
      <4>2. Named(task[m].uses, task[m].ses)
        BY DEF OwnInv, RowsNamed
      <4>3. /\ task[m].uses \in Messages
            /\ conv'[task[m].uses] = task[m].uses
            /\ task'[task[m].uses].ses = task'[m].ses
        BY <3>3, <4>2, <2>2, <2>3 DEF Named
      <4> QED BY <4>1, <4>3 DEF Named
    <3> QED BY <3>1, <3>2, <3>3
  <2>6. RowsNamed(oc, task)'
    BY <2>1, <2>2, <2>4, <1>t DEF OwnInv, RowsNamed, Tasks
  <2>7. RowsNamed(disk.oc, disk.task)'
    BY <2>1, <2>6 DEF RowsNamed, Named
  <2>8. \A k \in Handlers : Named(handler[k].oc, handler[k].ses)'
    BY <2>1, <2>4, <1>t DEF OwnInv, Updates, Named
  <2>9. SentCommitted'
    <3>1. \A n \in Messages \ {m} : conv'[n] = conv[n] /\ task'[n] = task[n]
      BY <2>1, <1>t
    <3>2. task'[m].st = "running"
      BY <2>1, <1>t DEF Tasks
    <3> QED BY <2>1, <3>1, <3>2 DEF OwnInv, SentCommitted
  <2> QED BY <2>5, <2>6, <2>7, <2>8, <2>9 DEF OwnInv
<1>3. ASSUME NEW m \in Messages, Touch(m) \/ EndMessage(m) PROVE OwnInv'
  <2>1. /\ UNCHANGED <<conv, handler>>
        /\ oc' = oc \/ oc' = [oc EXCEPT ![task[m].ses] = conv[m]]
        /\ task[m].st \in {"running", "touched"}
        /\ \E x \in {"touched", "over"} : task' = [task EXCEPT ![m].st = x]
        /\ disk' = disk \/ disk' = Snapshot'
    BY <1>3 DEF Touch, EndMessage
  <2>2. \A n \in Messages : /\ task'[n].ses = task[n].ses
                            /\ task'[n].uses = task[n].uses
                            /\ n # m => task'[n].st = task[n].st
                            /\ task'[m].st \in {"touched", "over"}
    BY <2>1, <1>t DEF Tasks
  <2>3. \A c, s : Named(c, s)' <=> Named(c, s)
    BY <2>1, <2>2 DEF Named
  <2>4. RowsNamed(oc, task)'
    <3>1. ASSUME NEW s \in SessionIds PROVE Named(oc'[s], s)
      BY <2>1, <1>t DEF OwnInv, RowsNamed
    <3>2. \A s \in SessionIds : Named(oc[s], s)'
      BY <3>1, <2>1, <2>2 DEF Named
    <3>3. ASSUME NEW n \in Messages PROVE Named(task[n].uses, task[n].ses)'
      <4>1. Named(task[n].uses, task[n].ses)
        BY DEF OwnInv, RowsNamed
      <4> QED BY <4>1, <2>1, <2>2 DEF Named
    <3> QED BY <3>2, <3>3 DEF RowsNamed
  <2>5. RowsNamed(disk.oc, disk.task)'
    <3>1. CASE disk' = disk
      BY <3>1, <2>3 DEF OwnInv, RowsNamed, Named
    <3>2. CASE disk' = Snapshot'
      BY <3>2, <2>4 DEF RowsNamed, Named, Snapshot
    <3> QED BY <2>1, <3>1, <3>2
  <2>6. SentCommitted'
    <3>1. CASE disk' = disk
      BY <3>1, <2>1, <2>2 DEF OwnInv, SentCommitted
    <3>2. CASE disk' = Snapshot'
      BY <3>2, <2>1, <2>2 DEF OwnInv, SentCommitted, Snapshot
    <3> QED BY <2>1, <3>1, <3>2
  <2> QED BY <2>1, <2>2, <2>3, <2>4, <2>5, <2>6 DEF OwnInv, Named
<1>4. CASE OtherCommit
  BY <1>4, OwnCommit DEF OtherCommit, OwnInv
<1>5. CASE Restart
  <2>1. /\ conv' = conv /\ oc' = disk.oc
        /\ \A k \in Handlers : handler'[k] = Idle
        /\ disk'.oc = disk.oc /\ disk'.task = task'
    BY <1>5 DEF Restart, Snapshot
  <2>2. ASSUME NEW n \in Messages
        PROVE  /\ task'[n].ses = disk.task[n].ses
               /\ task'[n].uses = disk.task[n].uses
               /\ disk.task[n].st \notin {"absent", "queued"}
                    => task'[n].st \notin {"absent", "queued"}
    <3>1. task'[n] = IF disk.task[n].st \in {"running", "touched"}
                       THEN [disk.task[n] EXCEPT !.st = "over"] ELSE disk.task[n]
      BY <1>5 DEF Restart
    <3> QED BY <3>1, <1>t DEF Tasks
  <2>3. \A c \in Conversations : \A s : Named(c, s) => Named(c, s)'
    BY <2>1, <2>2 DEF Named, OwnInv, SentCommitted
  <2>4. \A n \in Messages : Named(conv[n], task[n].ses)'
    BY <2>1, <2>2, <2>3, <1>t DEF OwnInv, SentCommitted, Named
  <2>5. RowsNamed(oc, task)'
    <3>1. ASSUME NEW s \in SessionIds PROVE Named(oc[s], s)'
      <4>1. Named(disk.oc[s], s) /\ disk.oc[s] \in Conversations
        BY <1>t DEF OwnInv, RowsNamed
      <4>2. Named(disk.oc[s], s)'
        BY <4>1, <2>1, <2>3 DEF Named
      <4> QED BY <4>2, <2>1 DEF Named
    <3>2. ASSUME NEW n \in Messages PROVE Named(task[n].uses, task[n].ses)'
      <4>1. Named(disk.task[n].uses, disk.task[n].ses)
        BY DEF OwnInv, RowsNamed
      <4>2. task'[n].uses = disk.task[n].uses /\ task'[n].ses = disk.task[n].ses
        BY <2>2
      <4>3. disk.task[n].uses \in Conversations
        BY <1>t DEF Tasks
      <4> QED BY <4>1, <4>2, <4>3, <2>1, <2>2 DEF Named, OwnInv, SentCommitted
    <3> QED BY <3>1, <3>2 DEF RowsNamed
  <2>6. RowsNamed(disk.oc, disk.task)'
    BY <2>1, <2>5 DEF RowsNamed, Named
  <2>7. \A k \in Handlers : Named(handler[k].oc, handler[k].ses)'
    BY <2>1 DEF Named, Idle, Update
  <2>8. SentCommitted'
    BY <2>1, <2>2 DEF OwnInv, SentCommitted
  <2> QED BY <2>4, <2>5, <2>6, <2>7, <2>8 DEF OwnInv
<1>6. CASE UNCHANGED vars
  BY <1>6 DEF vars, OwnInv, Named, RowsNamed, SentCommitted
<1> QED BY <1>1, <1>2, <1>3, <1>4, <1>5, <1>6 DEF Next

\* No conversation is ever used by the tasks of two sessions, whatever handlers
\* and executions interleave and wherever a crash falls (task_manager.py:107,
\* repository.py:319).
THEOREM OwnConversations == Spec => []ConversationOwned
<1>1. OwnInv => ConversationOwned
  BY DEF OwnInv, Named, ConversationOwned
<1> QED BY FormInit, FormStep, OwnInit, OwnStep, <1>1, PTL DEF Spec

-----------------------------------------------------------------------------
(* One active session, when updates are handled one at a time.               *)

Single(S) == S = {} \/ \E s \in SessionIds : S = {s}

\* OneActive speaks of the moments between updates.  What makes it so is that one
\* update is in flight at a time, and that a session is activated only after all
\* were deactivated, on disk too.
OneInv ==
    alone => /\ Single(active)
             /\ Single(disk.active)
             /\ \A h \in Handlers : handler[h].at = "activate" => active = {}
             /\ \A h, k \in Handlers : handler[h] # Idle /\ handler[k] # Idle => h = k

\* If the user still sends one update at a time after a step of a handler, no
\* other update was in flight, and none is after the step.
LEMMA AloneStep ==
    ASSUME WellFormed, OneInv, NEW h \in Handlers, Handle(h), alone'
    PROVE  /\ alone
           /\ \A k \in Handlers \ {h} : handler[k] = Idle /\ handler'[k] = Idle
<1>t. handler \in [Handlers -> Updates]
  BY DEF WellFormed, TypeOK
<1>1. Arrives(h) \/ (\E step \in Steps : At(h, step) /\ step # "idle")
  BY DEF Handle, New, CommitSession, StartCommand, InsertSession, Continue, Message, Use,
     LookUp, Deactivate, Activate, CommitActive, SetProject, CommitProject, Clear, CommitClear,
     Check, CommitTask, Queue, Steps
<1>2. alone /\ \A k \in Handlers \ {h} : handler[k] = Idle
  <2>1. CASE Arrives(h)
    BY <2>1 DEF Arrives, Quiet
  <2>2. ASSUME NEW step \in Steps, At(h, step), step # "idle"
        PROVE  alone /\ \A k \in Handlers \ {h} : handler[k] = Idle
    BY <2>2 DEF At, OneInv, Idle, Update
  <2> QED BY <1>1, <2>1, <2>2
<1>3. \A k \in Handlers \ {h} : handler'[k] = handler[k]
  BY <1>t DEF Handle, New, CommitSession, StartCommand, InsertSession, Continue, Message, Use,
     LookUp, Deactivate, Activate, CommitActive, SetProject, CommitProject, Clear, CommitClear,
     Check, CommitTask, Queue, Goto, Finish
<1> QED BY <1>2, <1>3

LEMMA OneStep ==
    ASSUME WellFormed, OneInv, [Next]_vars, alone'
    PROVE  OneInv'
<1>t. /\ handler \in [Handlers -> Updates]
      /\ HandlerOK
  BY DEF WellFormed, TypeOK
<1>1. ASSUME NEW h \in Handlers, Handle(h) PROVE OneInv'
  <2>a. /\ alone
        /\ \A k \in Handlers \ {h} : handler[k] = Idle /\ handler'[k] = Idle
    BY <1>1, AloneStep
  <2>b. \A k \in Handlers \ {h} : handler'[k].at # "activate"
    BY <2>a DEF Idle, Update
  <2>1. CASE Deactivate(h) \/ Clear(h)
    BY <2>1, <2>a DEF Deactivate, Clear, OneInv, Single
  <2>2. CASE Activate(h)
    <3>1. active = {} /\ handler[h].ses \in SessionIds
      BY <2>2, <2>a, <1>t DEF Activate, At, OneInv, HandlerOK, Updates
    <3>2. handler'[h].at = "activated"
      BY <2>2, <1>t DEF Activate, Goto, Updates
    <3> QED BY <2>2, <2>a, <2>b, <3>1, <3>2 DEF Activate, OneInv, Single
  <2>3. CASE ~(Deactivate(h) \/ Clear(h) \/ Activate(h))
    <3>1. active' = active /\ (disk' = disk \/ disk' = Snapshot)
      BY <1>1, <2>3 DEF Handle, New, CommitSession, StartCommand, InsertSession,
         Continue, Message, Use, LookUp, CommitActive, SetProject, CommitProject, CommitClear,
         Check, CommitTask, Queue, Commit, tables
    <3>2. handler'[h].at # "activate"
      BY <1>1, <2>3, <1>t DEF Handle, New, CommitSession, StartCommand, InsertSession,
         Continue, Message, Use, LookUp, CommitActive, SetProject, CommitProject, CommitClear,
         Check, CommitTask, Queue, Goto, Finish, Idle, Update, Updates
    <3> QED BY <3>1, <3>2, <2>a, <2>b DEF OneInv, Single, Snapshot
  <2> QED BY <2>1, <2>2, <2>3
<1>2. ASSUME NEW m \in Messages, Start(m) \/ Touch(m) \/ EndMessage(m) PROVE OneInv'
  <2>1. UNCHANGED <<active, handler, alone>> /\ (disk' = disk \/ disk' = Snapshot')
    BY <1>2 DEF Start, Touch, EndMessage
  <2> QED BY <2>1 DEF OneInv, Single, Snapshot
<1>3. CASE OtherCommit
  BY <1>3 DEF OtherCommit, Commit, tables, OneInv, Single, Snapshot
<1>4. CASE Restart
  BY <1>4 DEF Restart, OneInv, Single, Snapshot, Idle, Update
<1>5. CASE UNCHANGED vars
  BY <1>5 DEF vars, OneInv, Single
<1> QED BY <1>1, <1>2, <1>3, <1>4, <1>5 DEF Next

\* For a user who sends one update at a time, /new, /continue and /use leave at
\* most one active session, also when a crash falls between their UPDATEs
\* (repository.py:310-317).
THEOREM OneAtATime == Spec => []OneActive
<1>1. Init => OneInv
  BY DEF Init, OneInv, Single, Snapshot, Idle, Update
<1>2. WellFormed /\ OneInv /\ [Next]_vars => OneInv'
  BY OneStep DEF OneInv
<1>3. OneInv => OneActive
  <2>1. \A s \in SessionIds : Cardinality({s}) = 1
    BY FS_Singleton
  <2>2. Cardinality({}) = 0
    BY FS_EmptySet
  <2> QED BY <2>1, <2>2 DEF OneInv, Single, OneActive, ReplacesActive
<1> QED BY FormInit, FormStep, <1>1, <1>2, <1>3, PTL DEF Spec

-----------------------------------------------------------------------------
(* The active session and the active project.                                *)

\* All active sessions are of project p.
InProject(p) == \A s \in active : project[s] = p

\* Where the session of handler h belongs: /continue brings its project along, /new
\* takes the active one.
Belongs(h) ==
    /\ project[handler[h].ses] \in Projects
    /\ project[handler[h].ses] =
          IF handler[h].project = NoProject THEN ActiveProject ELSE handler[h].project

\* What is active at each place of a handler.
Place(h) ==
    /\ handler[h].at # "idle"
    /\ handler[h].at \in {"insert", "inserted", "lookup", "deactivate", "check", "queue", "queued"}
          => InProject(ActiveProject)
    /\ handler[h].at \in {"insert", "inserted"} =>
          handler[h].project = ActiveProject /\ ActiveProject \in Projects
    /\ handler[h].at = "inserted" => project[handler[h].ses] = ActiveProject
    /\ handler[h].at \in {"lookup", "deactivate", "activate", "activated"} => Belongs(h)
    /\ handler[h].at \in {"activate", "cleared"} => active = {}
    /\ handler[h].at = "activated" => active = {handler[h].ses}
    /\ handler[h].at = "project" => handler[h].project \in Projects /\ InProject(handler[h].project)
    /\ handler[h].at = "saved" /\ handler[h].project # NoProject =>
          current = handler[h].project /\ InProject(current)

\* ActiveInProject speaks of the moments between updates; in between, Place says how
\* far the one update has got.
PlaceInv ==
    alone /\ crashes = 0 /\ OneDefault =>
        /\ enabled = Projects
        /\ \A s \in active : project[s] \in Projects
        /\ Quiet => InProject(ActiveProject)
        /\ \A h \in Handlers : handler[h] # Idle => Place(h)

LEMMA PlaceHandler ==
    ASSUME WellFormed, OneInv, PlaceInv, NEW h \in Handlers, Handle(h),
           alone', crashes' = 0, OneDefault
    PROVE  PlaceInv'
<1> USE SessionsAssumption
<1>t. /\ handler \in [Handlers -> Updates] /\ HandlerOK
      /\ project \in [SessionIds -> Projects \cup {NoProject}]
      /\ active \in SUBSET SessionIds /\ current \in Projects \cup {NoProject}
  BY DEF WellFormed, TypeOK
<1>a. /\ alone /\ crashes = 0
      /\ \A k \in Handlers \ {h} : handler[k] = Idle /\ handler'[k] = Idle
  <2>1. crashes' = crashes
    BY DEF Handle, New, CommitSession, StartCommand, InsertSession, Continue, Message, Use,
       LookUp, Deactivate, Activate, CommitActive, SetProject, CommitProject, Clear, CommitClear,
       Check, CommitTask, Queue
  <2> QED BY <2>1, AloneStep
<1>b. /\ enabled = Projects
      /\ \A s \in active : project[s] \in Projects
      /\ Quiet => InProject(ActiveProject)
      /\ handler[h] # Idle => Place(h)
  BY <1>a DEF PlaceInv
\* An update arrives at rest.
<1>c. Arrives(h) => InProject(ActiveProject)
  BY <1>b, alone' DEF Arrives
<1>d. enabled' = Projects
  BY <1>b DEF Handle, New, CommitSession, StartCommand, InsertSession, Continue, Message, Use,
     LookUp, Deactivate, Activate, CommitActive, SetProject, CommitProject, Clear, CommitClear,
     Check, CommitTask, Queue
\* It is enough to look at h.
<1>g. ASSUME \A s \in active' : project'[s] \in Projects,
             (handler'[h] = Idle /\ InProject(ActiveProject)') \/ Place(h)'
      PROVE  PlaceInv'
  <2>1. Quiet' => InProject(ActiveProject)'
    BY <1>g DEF Quiet, Place, Idle, Update
  <2>2. \A k \in Handlers : handler'[k] # Idle => k = h /\ Place(h)'
    BY <1>g, <1>a
  <2> QED BY <1>g, <1>d, <2>1, <2>2 DEF PlaceInv
<1>i. handler[h].at # "idle" => Place(h)
  BY <1>b DEF Idle, Update
<1>e. ASSUME NEW x, Goto(h, x)
      PROVE  /\ handler'[h].ses = handler[h].ses /\ handler'[h].project = handler[h].project
             /\ handler'[h].at = x
  BY <1>e, <1>t DEF Goto, Updates
<1>f. Finish(h) => handler'[h] = Idle
  BY <1>t DEF Finish
<1> USE DEF InProject, Update, Updates, At
<1>1. CASE New(h)
  <2>1. handler'[h] = Update("insert", 0, 0, ActiveProject) /\ ActiveProject \in Projects
    BY <1>1, <1>t, <1>b DEF New, ActiveProject
  <2>2. UNCHANGED <<project, active, current, enabled>>
    BY <1>1 DEF New, tables
  <2>3. Place(h)'
    BY <1>1, <2>1, <2>2, <1>c DEF New, Place, ActiveProject
  <2> QED BY <2>2, <2>3, <1>b, <1>g
<1>2. ASSUME NEW s \in SessionIds, InsertSession(h, s) PROVE PlaceInv'
  <2>1. /\ handler'[h].at = "inserted" /\ handler'[h].ses = s
        /\ handler'[h].project = handler[h].project
    BY <1>2, <1>t DEF InsertSession
  <2>2. Place(h) /\ handler[h].at = "insert"
    BY <1>2, <1>i DEF InsertSession
  <2>3. UNCHANGED <<active, current, enabled>> /\ project' = [project EXCEPT ![s] = ActiveProject]
    BY <1>2, <2>2 DEF InsertSession, Place
  <2>4. s \notin active
    BY <1>2, <1>b DEF InsertSession
  <2>5. ActiveProject' = ActiveProject
    BY <2>3 DEF ActiveProject
  <2>6. Place(h)'
    BY <2>1, <2>2, <2>3, <2>4, <2>5, <1>t DEF Place
  <2> QED BY <2>2, <2>3, <2>4, <2>6, <1>b, <1>t, <1>g
<1>3. CASE CommitSession(h)
  <2>1. /\ handler'[h].at = "deactivate" /\ handler'[h].project = NoProject
        /\ handler'[h].ses = handler[h].ses
    BY <1>3, <1>t DEF CommitSession
  <2>2. Place(h) /\ handler[h].at = "inserted"
    BY <1>3, <1>i DEF CommitSession
  <2>3. UNCHANGED <<project, active, current, enabled>>
    BY <1>3 DEF CommitSession, tables
  <2>4. ActiveProject' = ActiveProject
    BY <2>3 DEF ActiveProject
  <2>5. Place(h)'
    BY <2>1, <2>2, <2>3, <2>4 DEF Place, Belongs
  <2> QED BY <2>3, <2>5, <1>b, <1>g
<1>4. ASSUME NEW s \in SessionIds, Continue(h, s) \/ Message(h, s) PROVE PlaceInv'
  <2>1. UNCHANGED <<project, active, current, enabled>> /\ InProject(ActiveProject)
    BY <1>4, <1>c DEF Continue, Message, tables
  <2>2. ActiveProject' = ActiveProject
    BY <2>1 DEF ActiveProject
  <2>3. CASE Continue(h, s)
    <3>1. /\ handler'[h].at \in {"deactivate", "lookup"} /\ handler'[h].ses = s
          /\ handler'[h].project = project[s] /\ project[s] \in Projects
      BY <2>3, <1>t, <1>b DEF Continue
    <3> QED BY <2>1, <2>2, <3>1, <1>b, <1>g DEF Place, Belongs
  <2>4. CASE Message(h, s)
    <3>1. handler'[h].at \in {"queue", "check"}
      BY <2>4, <1>t, <1>b DEF Message
    <3> QED BY <2>1, <2>2, <3>1, <1>b, <1>g DEF Place
  <2> QED BY <1>4, <2>3, <2>4
<1>5. CASE LookUp(h) \/ Check(h)
  <2>1. /\ UNCHANGED <<project, active, current, enabled>>
        /\ Place(h) /\ handler[h].at \in {"lookup", "check"}
    BY <1>5, <1>i DEF LookUp, Check, tables
  <2>2. ActiveProject' = ActiveProject
    BY <2>1 DEF ActiveProject
  <2>3. \/ handler'[h] = Idle
        \/ /\ handler'[h].ses = handler[h].ses /\ handler'[h].project = handler[h].project
           /\ \/ handler[h].at = "lookup" /\ handler'[h].at = "deactivate"
              \/ handler[h].at = "check" /\ handler'[h].at = "queue"
    BY <1>5, <1>e, <1>f DEF LookUp, Check
  <2> QED BY <2>1, <2>2, <2>3, <1>b, <1>g DEF Place, Belongs
<1>6. CASE Deactivate(h) \/ Clear(h)
  <2>1. /\ UNCHANGED <<project, current, enabled>> /\ active' = {}
        /\ Place(h) /\ handler[h].at \in {"deactivate", "clear"}
    BY <1>6, <1>i DEF Deactivate, Clear
  <2>2. ActiveProject' = ActiveProject
    BY <2>1 DEF ActiveProject
  <2>3. /\ handler'[h].ses = handler[h].ses /\ handler'[h].project = handler[h].project
        /\ \/ handler[h].at = "deactivate" /\ handler'[h].at = "activate"
           \/ handler[h].at = "clear" /\ handler'[h].at = "cleared"
    BY <1>6, <1>e, <1>f DEF Deactivate, Clear
  <2> QED BY <2>1, <2>2, <2>3, <1>g DEF Place, Belongs
<1>7. CASE Activate(h)
  <2>1. /\ UNCHANGED <<project, current, enabled>> /\ active' = {handler[h].ses}
        /\ Place(h) /\ handler[h].at = "activate"
    BY <1>7, <1>i DEF Activate, Place
  <2>2. ActiveProject' = ActiveProject
    BY <2>1 DEF ActiveProject
  <2>3. /\ handler'[h].ses = handler[h].ses /\ handler'[h].project = handler[h].project
        /\ handler'[h].at = "activated"
    BY <1>7, <1>e, <1>f DEF Activate
  <2> QED BY <2>1, <2>2, <2>3, <1>g DEF Place, Belongs
<1>8. CASE CommitActive(h)
  <2>1. /\ UNCHANGED <<project, active, current, enabled>>
        /\ Place(h) /\ handler[h].at = "activated"
    BY <1>8, <1>i DEF CommitActive, tables
  <2>2. ActiveProject' = ActiveProject
    BY <2>1 DEF ActiveProject
  <2>3. CASE handler[h].project = NoProject
    <3>1. handler'[h] = Idle
      BY <1>8, <2>3, <1>e, <1>f DEF CommitActive
    <3> QED BY <2>1, <2>2, <2>3, <3>1, <1>b, <1>g DEF Place, Belongs
  <2>4. CASE handler[h].project # NoProject
    <3>1. /\ handler'[h].ses = handler[h].ses /\ handler'[h].project = handler[h].project
          /\ handler'[h].at = "project"
      BY <1>8, <2>4, <1>e, <1>f DEF CommitActive
    <3> QED BY <2>1, <2>2, <2>4, <3>1, <1>b, <1>g DEF Place, Belongs
  <2> QED BY <2>3, <2>4
<1>9. CASE SetProject(h)
  <2>1. /\ UNCHANGED <<project, active, enabled>> /\ current' = handler[h].project
        /\ Place(h) /\ handler[h].at = "project"
    BY <1>9, <1>i DEF SetProject
  <2>2. /\ handler'[h].project = handler[h].project /\ handler'[h].at = "saved"
    BY <1>9, <1>e, <1>f DEF SetProject
  <2> QED BY <2>1, <2>2, <1>b, <1>g DEF Place
\* Without an active project the default one was in effect; it is the same one.
<1>10. CASE StartCommand(h)
  <2>1. /\ UNCHANGED <<project, active, current, enabled>> /\ InProject(ActiveProject)
        /\ current = NoProject /\ StartProject \in Projects
    BY <1>10, <1>c DEF StartCommand, tables
  <2>2. handler'[h] = Update("project", 0, 0, StartProject)
    BY <1>10, <1>t DEF StartCommand
  <2>3. InProject(StartProject)
    BY <2>1, <1>b, OneDefault DEF ActiveProject, OneDefault
  <2> QED BY <2>1, <2>2, <2>3, <1>b, <1>g DEF Place
<1>11. ASSUME NEW p \in Projects, Use(h, p) PROVE PlaceInv'
  <2>1. UNCHANGED <<project, active>> /\ handler'[h] = Update("saved", 0, 0, NoProject)
    BY <1>11, <1>t DEF Use
  <2> QED BY <2>1, <1>b, <1>g DEF Place
<1>12. CASE CommitProject(h)
  <2>1. /\ UNCHANGED <<project, active, current, enabled>>
        /\ Place(h) /\ handler[h].at = "saved"
    BY <1>12, <1>i DEF CommitProject, tables
  <2>2. CASE handler[h].project = NoProject
    <3>1. handler'[h].at = "clear"
      BY <1>12, <2>2, <1>e, <1>f DEF CommitProject
    <3> QED BY <2>1, <3>1, <1>b, <1>g DEF Place
  <2>3. CASE handler[h].project # NoProject
    <3>1. handler'[h] = Idle
      BY <1>12, <2>3, <1>e, <1>f DEF CommitProject
    <3>2. ActiveProject' = current /\ InProject(current)
      BY <2>1, <2>3, <1>b, <1>t DEF ActiveProject, Place
    <3> QED BY <2>1, <3>1, <3>2, <1>b, <1>g
  <2> QED BY <2>2, <2>3
<1>13. CASE CommitClear(h)
  <2>1. UNCHANGED <<project, active, current, enabled>> /\ active = {} /\ handler'[h] = Idle
    BY <1>13, <1>i, <1>f DEF CommitClear, tables, Place
  <2> QED BY <2>1, <1>g
<1>14. CASE (\E m \in Messages : Queue(h, m)) \/ CommitTask(h)
  <2>1. /\ UNCHANGED <<project, active, current, enabled>>
        /\ Place(h) /\ handler[h].at \in {"queue", "queued"}
    BY <1>14, <1>i DEF Queue, CommitTask, tables
  <2>2. ActiveProject' = ActiveProject
    BY <2>1 DEF ActiveProject
  <2>3. handler'[h] = Idle \/ handler'[h].at = "queued"
    BY <1>14, <1>e, <1>f DEF Queue, CommitTask
  <2> QED BY <2>1, <2>2, <2>3, <1>b, <1>g DEF Place
<1> QED BY <1>1, <1>2, <1>3, <1>4, <1>5, <1>6, <1>7, <1>8, <1>9, <1>10, <1>11, <1>12, <1>13,
           <1>14 DEF Handle

LEMMA PlaceStep ==
    ASSUME WellFormed, OneInv, PlaceInv, [Next]_vars
    PROVE  PlaceInv'
<1> SUFFICES ASSUME alone', crashes' = 0, OneDefault PROVE PlaceInv'
  BY DEF PlaceInv
<1> USE DEF PlaceInv, InProject, ActiveProject, Quiet, Place, Belongs
<1>1. ASSUME NEW h \in Handlers, Handle(h) PROVE PlaceInv'
  BY <1>1, PlaceHandler
<1>2. ASSUME NEW m \in Messages, Start(m) \/ Touch(m) \/ EndMessage(m) PROVE PlaceInv'
  <2>1. UNCHANGED <<project, active, current, handler, enabled, alone, crashes>>
    BY <1>2 DEF Start, Touch, EndMessage
  <2> QED BY <2>1
<1>3. CASE OtherCommit
  BY <1>3 DEF OtherCommit, tables
<1>4. CASE Restart
  BY <1>4 DEF Restart, WellFormed, TypeOK
<1>5. CASE UNCHANGED vars
  BY <1>5 DEF vars
<1> QED BY <1>1, <1>2, <1>3, <1>4, <1>5 DEF Next

\* For a user who sends one update at a time, and with one default project, the active
\* session belongs to the active project until the bot restarts, whatever /new, /continue,
\* /use and /start the user has sent (task_manager.py:124, 149, 200, bot.py:179).
THEOREM ActiveBelongs == Spec => []ActiveInProject
<1>1. Init => OneInv
  BY DEF Init, OneInv, Single, Snapshot, Idle, Update
<1>2. Init => PlaceInv
  BY DEF Init, PlaceInv, InProject
<1>3. WellFormed /\ OneInv /\ [Next]_vars => OneInv'
  BY OneStep DEF OneInv
<1>4. WellFormed /\ OneInv /\ PlaceInv /\ [Next]_vars => PlaceInv'
  BY PlaceStep
<1>5. PlaceInv => ActiveInProject
  BY DEF PlaceInv, ActiveInProject, InProject
<1> QED BY FormInit, FormStep, <1>1, <1>2, <1>3, <1>4, <1>5, PTL DEF Spec

-----------------------------------------------------------------------------
(* One conversation per session, for a user who waits for answers.           *)

Talks(h) == handler[h].at \in {"check", "queue", "queued"}

\* Ids are given in order, and only the last message of a session is not over.
Orderly(tasks) ==
    \A m, n \in Messages :
        /\ tasks[m].st # "absent" => tasks[m].ses # 0
        /\ m < n /\ tasks[n].st # "absent" => tasks[m].st # "absent"
        /\ m # n /\ tasks[m].st \notin {"absent", "over"} /\ tasks[n].st # "absent"
             /\ tasks[m].ses = tasks[n].ses => n < m /\ tasks[n].st = "over"

\* Once a conversation is known it is in the session's row, and in every message that
\* is still to be sent.
KeptIn(ocs, tasks) ==
    \A m \in kept :
        /\ conv[m] # 0
        /\ tasks[m].st = "over"
        /\ ocs[tasks[m].ses] = conv[m]
        /\ \A n \in Messages : tasks[n].st = "queued" /\ tasks[n].ses = tasks[m].ses
                                 => tasks[n].uses = conv[m]

\* A message that is worked on has a conversation.
Sent == \A m \in Messages : task[m].st \in {"running", "touched"} => conv[m] # 0

\* The user is talking in a session once at a time, and knows what is to be known.
TalkOK ==
    \A h \in Handlers : Talks(h) =>
        /\ handler[h].ses # 0
        /\ \A k \in Handlers \ {h} : Talks(k) => handler[k].ses # handler[h].ses
        /\ handler[h].at # "queued" =>
              \A m \in Messages : task[m].ses = handler[h].ses =>
                  /\ task[m].st \in {"absent", "over"}
                  /\ m \in kept => handler[h].oc = conv[m]

\* Continuity is not inductive: what the bot knows has to get through the row of the
\* session and a handler to the task, and back from the disk after a crash.
ContInv ==
    /\ Orderly(task) /\ Orderly(disk.task)
    /\ KeptIn(oc, task) /\ KeptIn(disk.oc, disk.task)
    /\ Sent /\ TalkOK /\ Continuity

\* What a handler does that queues no message.
LEMMA ContKept ==
    ASSUME ContInv, UNCHANGED <<oc, task, conv, kept>>, disk' = disk \/ disk' = Snapshot, TalkOK'
    PROVE  ContInv'
BY DEF ContInv, Orderly, KeptIn, Sent, Continuity, Snapshot

\* A handler that was talking goes on talking about the same, or is through.
LEMMA TalkKept ==
    ASSUME TalkOK, UNCHANGED <<task, kept, conv>>, NEW h \in Handlers,
           \A k \in Handlers \ {h} : handler'[k] = handler[k],
           Talks(h)' => /\ Talks(h) /\ handler'[h].ses = handler[h].ses
                        /\ handler'[h].oc = handler[h].oc
                        /\ handler[h].at = "queued" => handler'[h].at = "queued"
    PROVE  TalkOK'
BY DEF TalkOK, Talks

LEMMA ContHandler ==
    ASSUME WellFormed, OwnInv, ContInv, Patient, NEW h \in Handlers, Handle(h)
    PROVE  ContInv'
<1> USE SessionsAssumption
<1>t. /\ handler \in [Handlers -> Updates] /\ task \in [Messages -> Tasks]
      /\ oc \in [SessionIds -> Conversations]
  BY DEF WellFormed, TypeOK
<1>o. \A k \in Handlers \ {h} : handler'[k] = handler[k]
  BY <1>t DEF Handle, New, CommitSession, StartCommand, InsertSession, Continue, Message, Use,
     LookUp, Deactivate, Activate, CommitActive, SetProject, CommitProject, Clear, CommitClear,
     Check, CommitTask, Queue, Goto, Finish
<1>1. ASSUME NEW s \in SessionIds, Message(h, s) PROVE ContInv'
  <2>1. UNCHANGED <<oc, task, conv, kept, disk>>
    BY <1>1 DEF Message, tables
  <2>2. TalkOK'
    <3>1. CASE Talks(h)'
      <4>1. handler'[h].ses = s /\ handler'[h].oc = oc[s] /\ handler'[h].at # "queued"
        BY <1>1, <1>t, <3>1 DEF Message, Update, Talks
      <4>2. /\ \A m \in Messages : task[m].ses = s => task[m].st = "over"
            /\ \A k \in Handlers : Talks(k) => handler[k].ses # s
        BY <1>1 DEF Message, Talking, Unfinished, Talks
      <4>3. \A m \in kept : task[m].ses = s => oc[s] = conv[m]
        BY DEF ContInv, KeptIn
      <4>4. s # 0
        BY DEF SessionIds
      <4> QED BY <2>1, <4>1, <4>2, <4>3, <4>4, <1>o DEF TalkOK, ContInv, Talks
    <3>2. CASE ~Talks(h)'
      BY <2>1, <3>2, <1>o, TalkKept DEF ContInv
    <3> QED BY <3>1, <3>2
  <2> QED BY <2>1, <2>2, ContKept
<1>2. ASSUME NEW m \in Messages, Queue(h, m) PROVE ContInv'
  <2>1. /\ UNCHANGED <<oc, conv, kept, disk>> /\ task[m].st = "absent" /\ m \notin kept
        /\ task'[m] = [ses |-> handler[h].ses, uses |-> handler[h].oc, st |-> "queued"]
        /\ \A n \in Messages \ {m} : task'[n] = task[n]
        /\ \A n \in Messages : n < m => task[n].st # "absent"
        /\ conv[m] = 0
    BY <1>2, <1>t DEF Queue, OwnInv, SentCommitted, ContInv, KeptIn
  <2>2. /\ Talks(h) /\ handler[h].at = "queue" /\ handler'[h].ses = handler[h].ses
        /\ handler'[h].at = "queued"
    BY <1>2, <1>t DEF Queue, At, Goto, Talks, Updates
  <2>3. /\ handler[h].ses # 0
        /\ \A n \in Messages : task[n].ses = handler[h].ses =>
              /\ task[n].st \in {"absent", "over"}
              /\ n \in kept => handler[h].oc = conv[n]
    BY <2>2 DEF ContInv, TalkOK
  <2>4. Orderly(task)'
    <3>1. ASSUME NEW n \in Messages, n # m, task[n].st # "absent" PROVE n < m
      BY <3>1, <2>1 DEF ContInv, Orderly, Messages
    <3> QED BY <2>1, <2>3, <3>1 DEF ContInv, Orderly
  <2>5. KeptIn(oc, task)'
    <3>1. \A n \in kept : task'[n] = task[n] /\ n \in Messages
      BY <2>1 DEF WellFormed, TypeOK
    <3> QED BY <2>1, <2>3, <3>1 DEF ContInv, KeptIn
  <2>6. TalkOK'
    <3>1. ASSUME NEW k \in Handlers, k # h, Talks(k) PROVE handler[k].ses # handler[h].ses
      BY <3>1, <2>2 DEF ContInv, TalkOK
    <3> QED BY <2>1, <2>2, <2>3, <3>1, <1>o DEF ContInv, TalkOK, Talks
  <2>7. Continuity'
    BY <2>1 DEF ContInv, Continuity
  <2>8. Orderly(disk.task)' /\ KeptIn(disk.oc, disk.task)' /\ Sent'
    BY <2>1 DEF ContInv, Orderly, KeptIn, Sent
  <2> QED BY <2>4, <2>5, <2>6, <2>7, <2>8 DEF ContInv
<1>3. CASE \/ New(h) \/ StartCommand(h) \/ \E p \in Projects : Use(h, p)
           \/ \E s \in SessionIds : InsertSession(h, s) \/ Continue(h, s)
           \/ CommitSession(h) \/ Check(h)
           \/ LookUp(h) \/ Deactivate(h) \/ Activate(h) \/ CommitActive(h) \/ SetProject(h)
           \/ CommitProject(h) \/ Clear(h) \/ CommitClear(h) \/ CommitTask(h)
  <2>1. UNCHANGED <<oc, task, conv, kept>> /\ (disk' = disk \/ disk' = Snapshot)
    BY <1>3 DEF New, CommitSession, StartCommand, InsertSession, Continue, Use,
       LookUp, Deactivate, Activate, CommitActive, SetProject, CommitProject, Clear, CommitClear,
       Check, CommitTask, Commit, tables
  <2>2. Talks(h)' => /\ Talks(h) /\ handler'[h].ses = handler[h].ses
                     /\ handler'[h].oc = handler[h].oc
                     /\ handler[h].at = "queued" => handler'[h].at = "queued"
    <3>1. ASSUME NEW s \in SessionIds, InsertSession(h, s) PROVE ~Talks(h)'
      BY <3>1, <1>t DEF InsertSession, Talks, Updates
    <3>0. ASSUME NEW s \in SessionIds, Continue(h, s) PROVE ~Talks(h)'
      BY <3>0, <1>t DEF Continue, Update, Talks
    <3>2. CASE New(h) \/ StartCommand(h) \/ \E p \in Projects : Use(h, p)
      BY <3>2, <1>t DEF New, StartCommand, Use, Update, Talks
    <3>3. CASE CommitSession(h)
      BY <3>3, <1>t DEF CommitSession, Talks, Updates
    <3>4. CASE Finish(h)
      BY <3>4, <1>t DEF Finish, Idle, Update, Talks
    <3>5. ASSUME NEW x, Goto(h, x), x \notin {"check", "queue", "queued"} PROVE ~Talks(h)'
      BY <3>5, <1>t DEF Goto, Talks, Updates
    <3>6. CASE Check(h)
      BY <3>6, <3>4, <1>t DEF Check, At, Goto, Talks, Updates
    <3>7. CASE \/ LookUp(h) \/ Deactivate(h) \/ Activate(h) \/ CommitActive(h) \/ SetProject(h)
               \/ CommitProject(h) \/ Clear(h) \/ CommitClear(h) \/ CommitTask(h)
      <4>1. Finish(h) \/ \E x \in {"deactivate", "activate", "activated", "project", "saved",
                                   "clear", "cleared"} : Goto(h, x)
        BY <3>7 DEF LookUp, Deactivate, Activate, CommitActive, SetProject, CommitProject, Clear,
           CommitClear, CommitTask
      <4> QED BY <4>1, <3>4, <3>5
    <3> QED BY <1>3, <3>0, <3>1, <3>2, <3>3, <3>6, <3>7
  <2>3. TalkOK'
    BY <2>1, <2>2, <1>o, TalkKept DEF ContInv
  <2> QED BY <2>1, <2>3, ContKept
<1> QED BY <1>1, <1>2, <1>3 DEF Handle

LEMMA ContStep ==
    ASSUME WellFormed, OwnInv, ContInv, Patient, [Next]_vars
    PROVE  ContInv'
<1> USE SessionsAssumption
<1>t. /\ handler \in [Handlers -> Updates] /\ task \in [Messages -> Tasks]
      /\ oc \in [SessionIds -> Conversations] /\ conv \in [Messages -> Conversations]
      /\ disk.task \in [Messages -> Tasks] /\ kept \subseteq Messages
  BY DEF WellFormed, TypeOK, Contents
<1>1. ASSUME NEW h \in Handlers, Handle(h) PROVE ContInv'
  BY <1>1, ContHandler
<1>2. ASSUME NEW m \in Messages, Start(m) PROVE ContInv'
  <2>1. /\ UNCHANGED <<oc, handler, kept>> /\ task[m].st = "queued"
        /\ task'[m].st = "running" /\ task'[m].ses = task[m].ses
        /\ \A n \in Messages \ {m} : task'[n] = task[n] /\ conv'[n] = conv[n]
        /\ conv'[m] = IF task[m].uses = 0 THEN m ELSE task[m].uses
        /\ disk'.task = task' /\ disk'.oc = oc'
        /\ m \notin kept
    BY <1>2, <1>t DEF Start, Snapshot, ContInv, KeptIn, Tasks
  <2>2. Orderly(task)'
    BY <2>1 DEF ContInv, Orderly
  <2>3. KeptIn(oc, task)'
    <3>1. \A n \in kept : n # m /\ task'[n] = task[n] /\ conv'[n] = conv[n]
      BY <2>1, <1>t
    <3> QED BY <2>1, <3>1 DEF ContInv, KeptIn
  <2>4. Sent'
    BY <2>1 DEF ContInv, Sent, Messages
  <2>5. TalkOK'
    BY <2>1, <1>t DEF ContInv, TalkOK, Talks
  <2>6. Continuity'
    <3>1. ASSUME NEW a \in kept, task[a].ses = task[m].ses PROVE conv'[m] = conv[a]
      BY <3>1, <2>1, <1>t DEF ContInv, KeptIn
    <3> QED BY <2>1, <3>1 DEF ContInv, Continuity
  <2>7. Orderly(disk.task)' /\ KeptIn(disk.oc, disk.task)'
    BY <2>1, <2>2, <2>3 DEF Orderly, KeptIn
  <2> QED BY <2>2, <2>3, <2>4, <2>5, <2>6, <2>7 DEF ContInv
\* The execution of a message whose conversation is known has nothing to store.
<1>3. ASSUME NEW m \in Messages, Touch(m) PROVE ContInv'
  <2>1. /\ UNCHANGED <<handler, kept, conv, disk>> /\ task[m].st = "running"
        /\ task'[m].st = "touched" /\ task'[m].ses = task[m].ses
        /\ \A n \in Messages \ {m} : task'[n] = task[n]
        /\ oc' = [oc EXCEPT ![task[m].ses] = conv[m]] /\ oc[task[m].ses] # conv[m]
    BY <1>3, <1>t DEF Touch, Tasks
  <2>2. Orderly(task)'
    BY <2>1 DEF ContInv, Orderly
  <2>3. ASSUME NEW a \in kept
        PROVE  a # m /\ task[a].ses # task[m].ses /\ task[a].ses \in SessionIds
    <3>1. task[a].st = "over" /\ a \in Messages /\ a # m
      BY <2>1, <1>t DEF ContInv, KeptIn
    <3>2. task[a].ses = task[m].ses => a < m
      BY <3>1, <2>1 DEF ContInv, Orderly
    <3>3. task[a].ses # task[m].ses
      BY <3>1, <3>2, <2>1 DEF ContInv, Continuity, Sent, KeptIn
    <3>4. task[a].ses # 0
      BY <3>1 DEF ContInv, Orderly
    <3> QED BY <3>1, <3>3, <3>4, <1>t DEF Tasks
  <2>4. KeptIn(oc, task)'
    <3>1. \A n \in kept : oc'[task[n].ses] = oc[task[n].ses] /\ task'[n] = task[n]
      BY <2>1, <2>3, <1>t
    <3> QED BY <2>1, <3>1 DEF ContInv, KeptIn
  <2>5. Sent'
    BY <2>1 DEF ContInv, Sent
  <2>6. TalkOK'
    BY <2>1 DEF ContInv, TalkOK, Talks
  <2>7. Continuity'
    BY <2>1 DEF ContInv, Continuity
  <2>8. Orderly(disk.task)' /\ KeptIn(disk.oc, disk.task)'
    BY <2>1 DEF ContInv, Orderly, KeptIn
  <2> QED BY <2>2, <2>4, <2>5, <2>6, <2>7, <2>8 DEF ContInv
<1>4. ASSUME NEW m \in Messages, EndMessage(m) PROVE ContInv'
  <2>1. /\ UNCHANGED <<oc, handler, conv>> /\ task[m].st \in {"running", "touched"}
        /\ task'[m].st = "over" /\ task'[m].ses = task[m].ses
        /\ \A n \in Messages \ {m} : task'[n] = task[n]
        /\ disk'.task = task' /\ disk'.oc = oc'
        /\ kept' = kept \/ (kept' = kept \cup {m} /\ oc[task[m].ses] = conv[m])
    BY <1>4, <1>t DEF EndMessage, Snapshot, Tasks
  <2>2. Orderly(task)'
    BY <2>1 DEF ContInv, Orderly
  <2>3. conv[m] # 0 /\ m \notin kept
    BY <2>1 DEF ContInv, Sent, KeptIn
  \* The others of the session are over, and were before it.
  <2>4. \A n \in Messages \ {m} : task[n].ses = task[m].ses /\ task[n].st # "absent"
                                    => n < m /\ task[n].st = "over"
    BY <2>1 DEF ContInv, Orderly
  <2>5. KeptIn(oc, task)'
    <3>1. \A n \in kept : n # m /\ task'[n] = task[n] /\ n \in Messages
      BY <2>3, <2>1, <1>t
    <3> QED BY <2>1, <2>3, <2>4, <3>1 DEF ContInv, KeptIn
  <2>6. Sent'
    BY <2>1 DEF ContInv, Sent
  <2>7. TalkOK'
    BY <2>1 DEF ContInv, TalkOK, Talks
  <2>8. Continuity'
    <3>1. \A n \in Messages : conv[n] # 0 => task[n].st # "absent"
      BY DEF OwnInv, SentCommitted
    <3>2. \A n \in Messages : task'[n].ses = task[n].ses
      BY <2>1
    <3>3. ASSUME NEW n \in Messages, m < n, conv[n] # 0, task[n].ses = task[m].ses PROVE FALSE
      BY <3>3, <3>1, <2>4 DEF Messages
    <3> QED BY <2>1, <3>2, <3>3 DEF ContInv, Continuity
  <2>9. Orderly(disk.task)' /\ KeptIn(disk.oc, disk.task)'
    BY <2>1, <2>2, <2>5 DEF Orderly, KeptIn
  <2> QED BY <2>2, <2>5, <2>6, <2>7, <2>8, <2>9 DEF ContInv
<1>5. CASE OtherCommit
  <2>1. UNCHANGED <<oc, task, conv, kept, handler>> /\ disk' = Snapshot
    BY <1>5 DEF OtherCommit, Commit, tables
  <2>2. TalkOK'
    BY <2>1 DEF ContInv, TalkOK, Talks
  <2> QED BY <2>1, <2>2, ContKept
\* What the bot knew was committed with the end of its message.
<1>6. CASE Restart
  <2>1. /\ UNCHANGED <<conv, kept>> /\ oc' = disk.oc
        /\ \A h \in Handlers : handler'[h] = Idle
        /\ disk'.task = task' /\ disk'.oc = oc'
    BY <1>6 DEF Restart, Snapshot
  <2>2. ASSUME NEW n \in Messages
        PROVE  /\ task'[n].ses = disk.task[n].ses /\ task'[n].uses = disk.task[n].uses
               /\ task'[n].st \notin {"running", "touched"}
               /\ disk.task[n].st \notin {"running", "touched"} => task'[n].st = disk.task[n].st
               /\ disk.task[n].st \in {"running", "touched"} => task'[n].st = "over"
    <3>1. task'[n] = IF disk.task[n].st \in {"running", "touched"}
                       THEN [disk.task[n] EXCEPT !.st = "over"] ELSE disk.task[n]
      BY <1>6 DEF Restart
    <3> QED BY <3>1, <1>t DEF Tasks
  <2>3. Orderly(task)'
    BY <2>2 DEF ContInv, Orderly
  <2>4. KeptIn(oc, task)'
    BY <2>1, <2>2, <1>t DEF ContInv, KeptIn
  <2>5. Sent'
    BY <2>2 DEF Sent
  <2>6. TalkOK'
    BY <2>1 DEF TalkOK, Talks, Idle, Update
  <2>7. Continuity'
    <3>1. \A n \in Messages : conv[n] # 0 => task'[n].ses = task[n].ses
      BY <2>2 DEF OwnInv, SentCommitted
    <3>2. \A n \in kept : conv[n] # 0
      BY DEF ContInv, KeptIn
    <3> QED BY <2>1, <3>1, <3>2, <1>t DEF ContInv, Continuity
  <2>8. Orderly(disk.task)' /\ KeptIn(disk.oc, disk.task)'
    BY <2>1, <2>3, <2>4 DEF Orderly, KeptIn
  <2> QED BY <2>3, <2>4, <2>5, <2>6, <2>7, <2>8 DEF ContInv
<1>7. CASE UNCHANGED vars
  BY <1>7 DEF vars, ContInv, Orderly, KeptIn, Sent, TalkOK, Talks, Continuity
<1> QED BY <1>1, <1>2, <1>3, <1>4, <1>5, <1>6, <1>7 DEF Next

\* Once the bot knows the conversation of a session, every later message of a user who
\* waits for answers is sent to it, over any interleaving of handlers and executions and
\* any number of restarts (task_manager.py:107, task_executor.py:126).
THEOREM OneConversation ==
    ASSUME Patient
    PROVE  Spec => []Continuity
<1>1. Init => ContInv
  BY DEF Init, ContInv, Orderly, KeptIn, Sent, TalkOK, Talks, Continuity, Snapshot, Idle, Update,
         NoTask
<1>2. WellFormed /\ OwnInv /\ ContInv /\ [Next]_vars => ContInv'
  BY ContStep
<1>3. ContInv => Continuity
  BY DEF ContInv
<1> QED BY FormInit, FormStep, OwnInit, OwnStep, <1>1, <1>2, <1>3, PTL DEF Spec

-----------------------------------------------------------------------------
(* What is on disk stays there.                                              *)

\* The rows of new are those of old, further on: a session keeps its project and does not
\* forget that it has a conversation, a task keeps its session and its conversation, and
\* what is over stays over.
Follows(new, old) ==
    /\ \A s \in SessionIds :
         /\ old.project[s] # NoProject => new.project[s] = old.project[s]
         /\ old.oc[s] # 0 => new.oc[s] # 0
    /\ \A m \in Messages :
         /\ old.task[m].st # "absent" =>
              /\ new.task[m].st # "absent"
              /\ new.task[m].ses = old.task[m].ses
              /\ new.task[m].uses = old.task[m].uses
         /\ old.task[m].st = "over" => new.task[m].st = "over"

\* Not inductive without the tables in memory: they follow those on disk, and a message
\* that is being worked on was sent to a conversation.
DiskInv ==
    /\ Follows(Snapshot, disk)
    /\ \A m \in Messages : task[m].st \in {"running", "touched"} => conv[m] # 0

LEMMA FollowsOn ==
    ASSUME NEW a, NEW b, NEW c, Follows(a, b), Follows(b, c)
    PROVE  Follows(a, c)
BY DEF Follows

\* No step but a restart takes anything back.
LEMMA DiskForward ==
    ASSUME WellFormed, DiskInv, [Next]_vars, ~Restart
    PROVE  /\ Follows(Snapshot', Snapshot)
           /\ disk' \in {disk, Snapshot, Snapshot'}
           /\ \A m \in Messages : task'[m].st \in {"running", "touched"} => conv'[m] # 0
<1>a. /\ project \in [SessionIds -> Projects \cup {NoProject}] /\ oc \in [SessionIds -> Conversations]
      /\ task \in [Messages -> Tasks] /\ conv \in [Messages -> Conversations]
  BY DEF WellFormed, TypeOK
<1>s. ASSUME UNCHANGED <<project, oc, task>> PROVE Follows(Snapshot', Snapshot)
  BY <1>s DEF Follows, Snapshot
<1>1. ASSUME NEW h \in Handlers, NEW s \in SessionIds, InsertSession(h, s)
      PROVE  /\ Follows(Snapshot', Snapshot)
             /\ UNCHANGED <<disk, task, conv>>
  BY <1>1, <1>a DEF InsertSession, Follows, Snapshot
<1>2. ASSUME NEW h \in Handlers, NEW m \in Messages, Queue(h, m)
      PROVE  /\ Follows(Snapshot', Snapshot)
             /\ UNCHANGED <<disk, conv>> /\ \A n \in Messages : n # m => task'[n] = task[n]
             /\ task'[m].st = "queued"
  <2>1. /\ \A n \in Messages : n # m => task'[n] = task[n]
        /\ task'[m].st = "queued" /\ task[m].st = "absent"
        /\ UNCHANGED <<project, oc, disk, conv>>
    BY <1>2, <1>a DEF Queue
  <2> QED BY <2>1 DEF Follows, Snapshot
<1>3. ASSUME NEW m \in Messages, Start(m) \/ Touch(m) \/ EndMessage(m)
      PROVE  /\ Follows(Snapshot', Snapshot)
             /\ disk' \in {disk, Snapshot'}
             /\ \A n \in Messages : task'[n].st \in {"running", "touched"} => conv'[n] # 0
  <2>1. PICK x \in {"running", "touched", "over"} :
           task' = [task EXCEPT ![m].st = x] /\ task[m].st \notin {"absent", "over"}
    BY <1>3 DEF Start, Touch, EndMessage
  <2>2. /\ \A n \in Messages : n # m => task'[n] = task[n]
        /\ task'[m].ses = task[m].ses /\ task'[m].uses = task[m].uses /\ task'[m].st = x
    BY <2>1, <1>a DEF Tasks
  <2>3. /\ conv'[m] # 0 \/ x = "over"
        /\ \A n \in Messages : n # m => conv'[n] = conv[n]
    <3>1. CASE Start(m)
      BY <3>1, <1>a DEF Start, Messages
    <3>2. CASE Touch(m)
      BY <3>2 DEF Touch, DiskInv
    <3>3. CASE EndMessage(m)
      BY <2>2, <3>3, <1>a DEF EndMessage
    <3> QED BY <1>3, <3>1, <3>2, <3>3
  <2>4. \A s \in SessionIds : oc[s] # 0 => oc'[s] # 0
    <3>1. CASE Touch(m)
      <4>1. conv[m] # 0
        BY <3>1 DEF Touch, DiskInv
      <4> QED BY <3>1, <4>1, <1>a DEF Touch
    <3>2. CASE ~Touch(m)
      BY <1>3, <3>2 DEF Start, EndMessage
    <3> QED BY <3>1, <3>2
  <2>5. UNCHANGED project /\ disk' \in {disk, Snapshot'}
    BY <1>3 DEF Start, Touch, EndMessage
  <2>6. Follows(Snapshot', Snapshot)
    BY <2>1, <2>2, <2>4, <2>5 DEF Follows, Snapshot
  <2> QED BY <2>2, <2>3, <2>5, <2>6 DEF DiskInv
<1>4. ASSUME UNCHANGED <<project, oc, task, conv>>, disk' \in {disk, Snapshot}
      PROVE  /\ Follows(Snapshot', Snapshot)
             /\ disk' \in {disk, Snapshot, Snapshot'}
             /\ \A m \in Messages : task'[m].st \in {"running", "touched"} => conv'[m] # 0
  BY <1>4, <1>s DEF DiskInv
<1>5. ASSUME NEW h \in Handlers, Handle(h),
             ~ \E s \in SessionIds : InsertSession(h, s), ~ \E m \in Messages : Queue(h, m)
      PROVE  UNCHANGED <<project, oc, task, conv>> /\ disk' \in {disk, Snapshot}
  BY <1>5 DEF Handle, tables, Commit, New, CommitSession, StartCommand, Continue,
     Message, Use, LookUp, Deactivate, Activate, CommitActive, SetProject, CommitProject,
     Clear, CommitClear, Check, CommitTask
<1>6. CASE OtherCommit \/ UNCHANGED vars
  BY <1>4, <1>6 DEF OtherCommit, Commit, tables, vars
<1> QED BY <1>1, <1>2, <1>3, <1>4, <1>5, <1>6 DEF Next, DiskInv

LEMMA DiskStep ==
    ASSUME WellFormed, DiskInv, [Next]_vars
    PROVE  DiskInv' /\ Follows(disk', disk)
<1>1. CASE Restart
  <2>1. /\ project' = disk.project /\ oc' = disk.oc
        /\ disk' = Snapshot' /\ UNCHANGED conv
        /\ \A m \in Messages :
             task'[m] = IF disk.task[m].st \in {"running", "touched"}
                          THEN [disk.task[m] EXCEPT !.st = "over"] ELSE disk.task[m]
    BY <1>1 DEF Restart
  <2>2. \A m \in Messages : /\ task'[m].ses = disk.task[m].ses /\ task'[m].uses = disk.task[m].uses
                            /\ task'[m].st \notin {"running", "touched"}
                            /\ disk.task[m].st # "absent" => task'[m].st # "absent"
                            /\ disk.task[m].st = "over" => task'[m].st = "over"
    <3>1. \A m \in Messages : disk.task[m] \in Tasks
      BY DEF WellFormed, TypeOK, Contents
    <3> QED BY <2>1, <3>1 DEF Tasks
  <2>3. Follows(Snapshot', disk)
    BY <2>1, <2>2 DEF Follows, Snapshot
  <2>4. Follows(Snapshot', Snapshot')
    BY DEF Follows
  <2> QED BY <2>1, <2>2, <2>3, <2>4 DEF DiskInv
<1>2. CASE ~Restart
  <2>1. Follows(Snapshot', Snapshot) /\ Follows(Snapshot, disk)
    BY <1>2, DiskForward DEF DiskInv
  <2>2. Follows(Snapshot', disk) /\ Follows(Snapshot', Snapshot') /\ Follows(disk, disk)
    <3>1. Follows(Snapshot', disk)
      BY <2>1, FollowsOn
    <3> QED BY <3>1 DEF Follows
  <2>3. \/ disk' = disk
        \/ disk' = Snapshot
        \/ disk' = Snapshot'
    BY <1>2, DiskForward
  <2>4. Follows(disk', disk)
    BY <2>1, <2>2, <2>3
  <2>5. Follows(Snapshot', disk')
    BY <2>1, <2>2, <2>3
  <2> QED BY <1>2, <2>4, <2>5, DiskForward DEF DiskInv
<1> QED BY <1>1, <1>2

\* What was committed is never taken back, whatever the updates, the executions, the
\* commits of others and the restarts do: a session stays in its project and does not lose
\* its conversation, a message stays with the session and the conversation it was queued
\* for, and one that is over is not run again after a restart (repository.py:
\* create_session, touch_session, recover_interrupted).
THEOREM CommittedStays == Spec => [][Follows(disk', disk)]_vars
<1>1. Init => DiskInv
  BY DEF Init, DiskInv, Follows, Snapshot, NoTask
<1>2. WellFormed /\ DiskInv /\ [Next]_vars => DiskInv' /\ [Follows(disk', disk)]_vars
  BY DiskStep
<1> QED BY <1>1, <1>2, FormInit, FormStep, PTL DEF Spec
=============================================================================
