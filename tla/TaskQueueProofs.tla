-------------------------- MODULE TaskQueueProofs --------------------------
(***************************************************************************)
(* Proofs about TaskQueue, for any number of tasks, projects, sessions,    *)
(* requests and crashes, any limit and any page size.                      *)
(***************************************************************************)
EXTENDS TaskQueue, FiniteSetTheorems, TLAPS

-----------------------------------------------------------------------------
(* Types.                                                                    *)

\* The selected page consists of ids.
LEMMA NextPendingType == NextPending \in SUBSET TaskIds
  BY DEF NextPending

\* Every variable of the queue keeps its type.
LEMMA TypeStep == TypeOK /\ [Next]_vars => TypeOK'
<1> SUFFICES ASSUME TypeOK, [Next]_vars PROVE TypeOK'
  OBVIOUS
<1> USE QueueAssumption DEF TypeOK, Status, Terminal
<1>1. ASSUME NEW t \in TaskIds, NEW j \in Jobs, InsertTask(t, j) PROVE TypeOK'
  BY <1>1 DEF InsertTask
<1>2. CASE Submitting
  BY <1>2 DEF Submitting, CommitTask
<1>3. ASSUME NEW t \in TaskIds, SenderTimeout(t) PROVE TypeOK'
  BY <1>3 DEF SenderTimeout
<1>4. ASSUME NEW c \in Cancellers, NEW t \in TaskIds, CancelRead(c, t) PROVE TypeOK'
  BY <1>4 DEF CancelRead, Idle, Done
<1>5. ASSUME NEW c \in Cancellers, Cancelling(c) PROVE TypeOK'
  <2>1. cancel[c].at \in {"request", "write", "commit", "tell"} => cancel[c].task \in TaskIds
    BY DEF Idle, Done
  <2>2. CASE CancelRequest(c)
    BY <2>1, <2>2 DEF CancelRequest
  <2>3. CASE CancelWrite(c)
    BY <2>1, <2>3 DEF CancelWrite, Idle, Done
  <2>4. CASE CancelCommit(c)
    BY <2>1, <2>4 DEF CancelCommit, Idle, Done
  <2>5. CASE CancelTell(c)
    BY <2>1, <2>5 DEF CancelTell, Tell
  <2> QED BY <1>5, <2>2, <2>3, <2>4, <2>5 DEF Cancelling
<1>6. CASE Booting
  <2>1. CASE ReadInterrupted
    BY <2>1 DEF ReadInterrupted, Running
  <2>2. CASE Recovered
    BY <2>2 DEF Recovered
  <2>3. CASE StartWorker
    BY <2>3 DEF StartWorker
  <2>4. ASSUME NEW t \in TaskIds, RecoverTask(t) PROVE TypeOK'
    BY <2>4 DEF RecoverTask
  <2>5. ASSUME NEW t \in TaskIds, NotifyInterrupted(t) PROVE TypeOK'
    BY <2>5 DEF NotifyInterrupted
  <2> QED BY <1>6, <2>1, <2>2, <2>3, <2>4, <2>5 DEF Booting
<1>7. CASE Dispatching
  <2>1. CASE CountRunning
    <3>1. IsFiniteSet(Running)
      BY FS_Interval, FS_Subset DEF TaskIds, Running
    <3>2. Cardinality(Running) \in Nat
      BY <3>1, FS_CardinalityType
    <3> QED BY <2>1, <3>2 DEF CountRunning
  <2>2. CASE SelectPending
    BY <2>2, NextPendingType DEF SelectPending
  <2>3. CASE EndDispatch
    BY <2>3 DEF EndDispatch
  <2>4. ASSUME NEW t \in TaskIds, CheckProject(t) PROVE TypeOK'
    BY <2>4 DEF CheckProject, SkipOrGoOn
  <2>5. ASSUME NEW t \in TaskIds, CheckSession(t) PROVE TypeOK'
    BY <2>5 DEF CheckSession, SkipOrGoOn
  <2>6. ASSUME NEW t \in TaskIds, MarkStarted(t) PROVE TypeOK'
    BY <2>6 DEF MarkStarted
  <2>7. ASSUME NEW t \in TaskIds, CommitStarted(t) PROVE TypeOK'
    BY <2>7 DEF CommitStarted
  <2> QED BY <1>7, <2>1, <2>2, <2>3, <2>4, <2>5, <2>6, <2>7 DEF Dispatching
<1>8. ASSUME NEW t \in TaskIds, Executing(t) PROVE TypeOK'
  <2>1. CASE BeginExecution(t)
    BY <2>1 DEF BeginExecution
  <2>2. ASSUME NEW o \in {"CRASHED"} \cup Terminal, Settle(t, o) PROVE TypeOK'
    BY <2>2 DEF Settle
  <2>3. CASE WriteOutcome(t)
    BY <2>3 DEF WriteOutcome
  <2>4. CASE CommitOutcome(t)
    BY <2>4 DEF CommitOutcome
  <2>5. CASE ReportOutcome(t)
    BY <2>5 DEF ReportOutcome, Tell
  <2> QED BY <1>8, <2>1, <2>2, <2>3, <2>4, <2>5
          DEF Executing, ProjectGone, StartFails, ProcessEnds, ProcessCancelled, ExecutionCrashes
<1>9. CASE Crash
  BY <1>9 DEF Crash, Idle, Done
<1>10. CASE UNCHANGED vars
  BY <1>10 DEF vars
<1> QED BY <1>1, <1>2, <1>3, <1>4, <1>5, <1>6, <1>7, <1>8, <1>9, <1>10 DEF Next

-----------------------------------------------------------------------------
(* Every step is one of these, which the proofs below go through in turn.    *)

LEMMA StepCases ==
    ASSUME [Next]_vars
    PROVE  \/ \E t \in TaskIds : \E j \in Jobs : InsertTask(t, j)
           \/ \E t \in TaskIds : CommitTask(t) \/ SenderTimeout(t)
           \/ \E c \in Cancellers : \/ \E t \in TaskIds : CancelRead(c, t)
                                    \/ CancelRequest(c) \/ CancelWrite(c)
                                    \/ CancelCommit(c) \/ CancelTell(c)
           \/ ReadInterrupted \/ Recovered \/ StartWorker
           \/ \E t \in TaskIds : RecoverTask(t) \/ NotifyInterrupted(t)
           \/ CountRunning \/ SelectPending \/ EndDispatch
           \/ \E t \in TaskIds : \/ CheckProject(t) \/ CheckSession(t)
                                 \/ MarkStarted(t) \/ CommitStarted(t)
           \/ \E t \in TaskIds :
                \/ BeginExecution(t)
                \/ /\ exec[t] \in {"spawned", "executing"}
                   /\ \E o \in {"CRASHED"} \cup Terminal :
                        /\ o # "FAILED" => exec[t] = "executing"
                        /\ o = "COMPLETED" => t \notin cancelSet
                        /\ o = "CANCELLED" => t \in cancelSet
                        /\ Settle(t, o)
                \/ WriteOutcome(t) \/ CommitOutcome(t) \/ ReportOutcome(t)
           \/ Crash
           \/ UNCHANGED vars
  BY DEF Next, Submitting, Cancelling, Booting, Dispatching, Executing, ProjectGone,
         StartFails, ProcessEnds, ProcessCancelled, ExecutionCrashes, Terminal

\* Subsets of the ids are finite, and a smaller one has no more elements.
LEMMA SmallerSet ==
    ASSUME NEW T \in SUBSET TaskIds, NEW S \in SUBSET T
    PROVE  /\ IsFiniteSet(T) /\ IsFiniteSet(S)
           /\ Cardinality(T) \in Nat /\ Cardinality(S) \in Nat
           /\ Cardinality(S) <= Cardinality(T)
<1>1. IsFiniteSet(TaskIds)
  BY QueueAssumption, FS_Interval DEF TaskIds
<1>2. IsFiniteSet(T)
  BY <1>1, FS_Subset
<1> QED BY <1>2, FS_Subset, FS_CardinalityType

\* The task the loop works on is determined by its snapshot.
LEMMA OldestUnique ==
    ASSUME TypeOK, NEW t \in TaskIds, Oldest(t)
    PROVE  \A u \in page : Oldest(u) => u = t
  BY DEF Oldest, TypeOK, TaskIds

-----------------------------------------------------------------------------
(* The limit.                                                                *)

\* A step that lets the loop be and adds no RUNNING row preserves CountInv.
LEMMA QuietCount ==
    ASSUME TypeOK, CountInv, UNCHANGED <<dispatcher, running>>,
           Running' \subseteq Running,
           DurablyRunning' \subseteq DurablyRunning \/ DurablyRunning' \subseteq Running
    PROVE  CountInv'
<1>1. Cardinality(Running') <= Cardinality(Running) /\ Cardinality(Running') \in Nat
  BY SmallerSet DEF Running
<1>2. Cardinality(Running) \in Nat /\ Cardinality(DurablyRunning) \in Nat
  BY SmallerSet DEF Running, DurablyRunning
<1>3. Cardinality(DurablyRunning') <= Capacity /\ Cardinality(DurablyRunning') \in Nat
  <2>1. CASE DurablyRunning' \subseteq DurablyRunning
    BY <1>2, <2>1, SmallerSet, QueueAssumption DEF CountInv, DurablyRunning
  <2>2. CASE DurablyRunning' \subseteq Running
    BY <1>2, <2>2, SmallerSet, QueueAssumption DEF CountInv, RunningBound, Running
  <2> QED BY <2>1, <2>2
<1> QED BY <1>1, <1>2, <1>3, QueueAssumption DEF CountInv, RunningBound, TypeOK

LEMMA CountStep ==
    ASSUME TypeOK, CountInv, [Next]_vars
    PROVE  CountInv'
<1>0. Cardinality(Running) \in Nat /\ Cardinality(DurablyRunning) \in Nat
  BY SmallerSet DEF Running, DurablyRunning
<1>1. ASSUME NEW t \in TaskIds, NEW j \in Jobs, InsertTask(t, j) PROVE CountInv'
  BY <1>1, QuietCount DEF InsertTask, Running, DurablyRunning, TypeOK
<1>2. ASSUME NEW t \in TaskIds, CommitTask(t) PROVE CountInv'
  BY <1>2, QuietCount DEF CommitTask, Running, DurablyRunning
<1>3. ASSUME NEW t \in TaskIds, SenderTimeout(t) PROVE CountInv'
  BY <1>3, QuietCount DEF SenderTimeout, Running, DurablyRunning
<1>4. ASSUME NEW c \in Cancellers, NEW t \in TaskIds, CancelRead(c, t) PROVE CountInv'
  BY <1>4, QuietCount DEF CancelRead, Running, DurablyRunning
<1>5. ASSUME NEW c \in Cancellers, CancelRequest(c) \/ CancelTell(c) PROVE CountInv'
  BY <1>5, QuietCount DEF CancelRequest, CancelTell, Running, DurablyRunning
<1>6. ASSUME NEW c \in Cancellers, CancelWrite(c) PROVE CountInv'
  BY <1>6, QuietCount DEF CancelWrite, Running, DurablyRunning, TypeOK
<1>7. ASSUME NEW c \in Cancellers, CancelCommit(c) PROVE CountInv'
  BY <1>7, QuietCount DEF CancelCommit, Running, DurablyRunning
<1>8. CASE ReadInterrupted \/ Recovered \/ StartWorker
  BY <1>8, <1>0 DEF ReadInterrupted, Recovered, StartWorker, CountInv, RunningBound,
                    Running, DurablyRunning
<1>9. ASSUME NEW t \in TaskIds, RecoverTask(t) PROVE CountInv'
  BY <1>9, QuietCount DEF RecoverTask, Running, DurablyRunning, TypeOK
<1>10. ASSUME NEW t \in TaskIds, NotifyInterrupted(t) PROVE CountInv'
  BY <1>10, QuietCount DEF NotifyInterrupted, Running, DurablyRunning
<1>11. CASE CountRunning
  BY <1>11, <1>0 DEF CountRunning, CountInv, RunningBound, Running, DurablyRunning
<1>12. CASE SelectPending
  BY <1>12 DEF SelectPending, CountInv, RunningBound, Running, DurablyRunning
<1>13. CASE EndDispatch
  BY <1>13, QueueAssumption DEF EndDispatch, CountInv, RunningBound, Running, DurablyRunning
<1>14. ASSUME NEW t \in TaskIds, CheckProject(t) PROVE CountInv'
  BY <1>14, <1>0, QueueAssumption
     DEF CheckProject, SkipOrGoOn, CountInv, RunningBound, Running, DurablyRunning, TypeOK
<1>15. ASSUME NEW t \in TaskIds, CheckSession(t) PROVE CountInv'
  BY <1>15, <1>0, QueueAssumption
     DEF CheckSession, SkipOrGoOn, CountInv, RunningBound, Running, DurablyRunning, TypeOK
<1>16. ASSUME NEW t \in TaskIds, MarkStarted(t) PROVE CountInv'
  <2>1. Running' \subseteq Running \cup {t}
    BY <1>16 DEF MarkStarted, Running, TypeOK
  <2>2. Cardinality(Running \cup {t}) <= Cardinality(Running) + 1
    BY <1>0, SmallerSet, FS_AddElement DEF Running
  <2>3. Cardinality(Running') <= Cardinality(Running \cup {t}) /\ Cardinality(Running') \in Nat
        /\ Cardinality(Running \cup {t}) \in Nat
    BY <2>1, SmallerSet DEF Running
  <2>4. Cardinality(Running') <= Capacity /\ Cardinality(Running') <= running
    BY <1>0, <1>16, <2>2, <2>3, QueueAssumption DEF MarkStarted, CountInv, TypeOK
  <2>5. DurablyRunning' = DurablyRunning
    BY <1>16 DEF MarkStarted, DurablyRunning
  <2> QED BY <1>16, <2>4, <2>5 DEF MarkStarted, CountInv, RunningBound
<1>17. ASSUME NEW t \in TaskIds, CommitStarted(t) PROVE CountInv'
  <2>1. Running' = Running /\ DurablyRunning' = Running
    BY <1>17 DEF CommitStarted, Running, DurablyRunning
  <2> QED BY <1>17, <2>1 DEF CommitStarted, CountInv, RunningBound
<1>18. ASSUME NEW t \in TaskIds, BeginExecution(t) PROVE CountInv'
  BY <1>18, QuietCount DEF BeginExecution, Running, DurablyRunning
<1>19. ASSUME NEW t \in TaskIds, NEW o \in {"CRASHED"} \cup Terminal, Settle(t, o)
       PROVE CountInv'
  BY <1>19, QuietCount DEF Settle, Running, DurablyRunning
<1>20. ASSUME NEW t \in TaskIds, WriteOutcome(t) PROVE CountInv'
  <2>1. status'[t] # "RUNNING" /\ \A u \in TaskIds : u # t => status'[u] = status[u]
    BY <1>20 DEF WriteOutcome, TypeOK, Terminal
  <2> QED BY <1>20, <2>1, QuietCount DEF WriteOutcome, Running, DurablyRunning
<1>21. ASSUME NEW t \in TaskIds, CommitOutcome(t) PROVE CountInv'
  BY <1>21, QuietCount DEF CommitOutcome, Running, DurablyRunning
<1>22. ASSUME NEW t \in TaskIds, ReportOutcome(t) PROVE CountInv'
  BY <1>22, QuietCount DEF ReportOutcome, Running, DurablyRunning
<1>23. CASE Crash
  <2>1. Running' = DurablyRunning /\ DurablyRunning' = DurablyRunning
    BY <1>23 DEF Crash, Running, DurablyRunning
  <2> QED BY <1>23, <2>1, QueueAssumption DEF Crash, CountInv, RunningBound
<1>24. CASE UNCHANGED vars
  BY <1>24, QuietCount DEF vars, Running, DurablyRunning
<1> QED BY StepCases, <1>1, <1>2, <1>3, <1>4, <1>5, <1>6, <1>7, <1>8, <1>9, <1>10, <1>11,
           <1>12, <1>13, <1>14, <1>15, <1>16, <1>17, <1>18, <1>19, <1>20, <1>21, <1>22,
           <1>23, <1>24

-----------------------------------------------------------------------------
(* At most once.                                                             *)

\* Executions come from durable RUNNING rows and are begun once.
LEMMA ExecStep ==
    ASSUME TypeOK, ExecInv, PageInv, [Next]_vars
    PROVE  ExecInv'
<1> USE QueueAssumption DEF TypeOK, Status, Terminal, ExecInv, PageInv, DispatchPhases, Up, Oldest
<1>1. ASSUME NEW t \in TaskIds, NEW j \in Jobs, InsertTask(t, j) PROVE ExecInv'
  BY <1>1 DEF InsertTask
<1>2. ASSUME NEW t \in TaskIds, CommitTask(t) PROVE ExecInv'
  BY <1>2 DEF CommitTask
<1>3. ASSUME NEW t \in TaskIds, SenderTimeout(t) PROVE ExecInv'
  BY <1>3 DEF SenderTimeout
<1>4. ASSUME NEW c \in Cancellers, NEW t \in TaskIds, CancelRead(c, t) PROVE ExecInv'
  BY <1>4 DEF CancelRead
<1>5. ASSUME NEW c \in Cancellers, CancelRequest(c) PROVE ExecInv'
  BY <1>5 DEF CancelRequest
<1>6. ASSUME NEW c \in Cancellers, CancelWrite(c) PROVE ExecInv'
  BY <1>6 DEF CancelWrite, Idle, Done
<1>7. ASSUME NEW c \in Cancellers, CancelCommit(c) PROVE ExecInv'
  BY <1>7 DEF CancelCommit
<1>8. ASSUME NEW c \in Cancellers, CancelTell(c) PROVE ExecInv'
  BY <1>8 DEF CancelTell
<1>9. CASE ReadInterrupted
  BY <1>9 DEF ReadInterrupted
<1>10. CASE Recovered
  BY <1>10 DEF Recovered
<1>11. CASE StartWorker
  BY <1>11 DEF StartWorker
<1>12. ASSUME NEW t \in TaskIds, RecoverTask(t) PROVE ExecInv'
  BY <1>12 DEF RecoverTask
<1>13. ASSUME NEW t \in TaskIds, NotifyInterrupted(t) PROVE ExecInv'
  BY <1>13 DEF NotifyInterrupted
<1>14. CASE CountRunning
  BY <1>14 DEF CountRunning
<1>15. CASE SelectPending
  BY <1>15 DEF SelectPending
<1>16. CASE EndDispatch
  BY <1>16 DEF EndDispatch
<1>17. ASSUME NEW t \in TaskIds, CheckProject(t) PROVE ExecInv'
  BY <1>17 DEF CheckProject, SkipOrGoOn
<1>18. ASSUME NEW t \in TaskIds, CheckSession(t) PROVE ExecInv'
  BY <1>18 DEF CheckSession, SkipOrGoOn
<1>19. ASSUME NEW t \in TaskIds, MarkStarted(t) PROVE ExecInv'
  BY <1>19 DEF MarkStarted
<1>20. ASSUME NEW t \in TaskIds, CommitStarted(t) PROVE ExecInv'
  BY <1>20 DEF CommitStarted
<1>21. ASSUME NEW t \in TaskIds, BeginExecution(t) PROVE ExecInv'
  BY <1>21 DEF BeginExecution
<1>22. ASSUME NEW t \in TaskIds, NEW o \in {"CRASHED"} \cup Terminal,
              exec[t] \in {"spawned", "executing"}, Settle(t, o) PROVE ExecInv'
  BY <1>22 DEF Settle
<1>23. ASSUME NEW t \in TaskIds, WriteOutcome(t) PROVE ExecInv'
  BY <1>23 DEF WriteOutcome
<1>24. ASSUME NEW t \in TaskIds, CommitOutcome(t) PROVE ExecInv'
  BY <1>24 DEF CommitOutcome
<1>25. ASSUME NEW t \in TaskIds, ReportOutcome(t) PROVE ExecInv'
  BY <1>25 DEF ReportOutcome
<1>26. CASE Crash
  BY <1>26 DEF Crash
<1>27. CASE UNCHANGED vars
  BY <1>27 DEF vars
<1> QED BY StepCases, <1>1, <1>2, <1>3, <1>4, <1>5, <1>6, <1>7, <1>8, <1>9, <1>10, <1>11,
          <1>12, <1>13, <1>14, <1>15, <1>16, <1>17, <1>18, <1>19, <1>20, <1>21,
          <1>22, <1>23, <1>24, <1>25, <1>26, <1>27

\* Only tasks that were never started are in the snapshot.
LEMMA PageStep ==
    ASSUME TypeOK, ExecInv, PageInv, [Next]_vars
    PROVE  PageInv'
<1> USE QueueAssumption DEF TypeOK, Status, Terminal, ExecInv, PageInv, DispatchPhases, Up, Oldest
<1>1. ASSUME NEW t \in TaskIds, NEW j \in Jobs, InsertTask(t, j) PROVE PageInv'
  BY <1>1 DEF InsertTask
<1>2. ASSUME NEW t \in TaskIds, CommitTask(t) PROVE PageInv'
  BY <1>2 DEF CommitTask
<1>3. ASSUME NEW t \in TaskIds, SenderTimeout(t) PROVE PageInv'
  BY <1>3 DEF SenderTimeout
<1>4. ASSUME NEW c \in Cancellers, NEW t \in TaskIds, CancelRead(c, t) PROVE PageInv'
  BY <1>4 DEF CancelRead
<1>5. ASSUME NEW c \in Cancellers, CancelRequest(c) PROVE PageInv'
  BY <1>5 DEF CancelRequest
<1>6. ASSUME NEW c \in Cancellers, CancelWrite(c) PROVE PageInv'
  BY <1>6 DEF CancelWrite, Idle, Done
<1>7. ASSUME NEW c \in Cancellers, CancelCommit(c) PROVE PageInv'
  BY <1>7 DEF CancelCommit
<1>8. ASSUME NEW c \in Cancellers, CancelTell(c) PROVE PageInv'
  BY <1>8 DEF CancelTell
<1>9. CASE ReadInterrupted
  BY <1>9 DEF ReadInterrupted
<1>10. CASE Recovered
  BY <1>10 DEF Recovered
<1>11. CASE StartWorker
  BY <1>11 DEF StartWorker
<1>12. ASSUME NEW t \in TaskIds, RecoverTask(t) PROVE PageInv'
  BY <1>12 DEF RecoverTask
<1>13. ASSUME NEW t \in TaskIds, NotifyInterrupted(t) PROVE PageInv'
  BY <1>13 DEF NotifyInterrupted
<1>14. CASE CountRunning
  BY <1>14 DEF CountRunning
<1>15. CASE SelectPending
  BY <1>15 DEF SelectPending, NextPending
<1>16. CASE EndDispatch
  BY <1>16 DEF EndDispatch
<1>17. ASSUME NEW t \in TaskIds, CheckProject(t) PROVE PageInv'
  BY <1>17 DEF CheckProject, SkipOrGoOn
<1>18. ASSUME NEW t \in TaskIds, CheckSession(t) PROVE PageInv'
  BY <1>18 DEF CheckSession, SkipOrGoOn
<1>19. ASSUME NEW t \in TaskIds, MarkStarted(t) PROVE PageInv'
  <2>1. \A u \in page : Oldest(u) => u = t
    BY <1>19, OldestUnique DEF MarkStarted
  <2> QED BY <1>19, <2>1 DEF MarkStarted
<1>20. ASSUME NEW t \in TaskIds, CommitStarted(t) PROVE PageInv'
  <2>1. \A u \in page : Oldest(u) => u = t
    BY <1>20, OldestUnique DEF CommitStarted
  <2> QED BY <1>20, <2>1 DEF CommitStarted
<1>21. ASSUME NEW t \in TaskIds, BeginExecution(t) PROVE PageInv'
  BY <1>21 DEF BeginExecution
<1>22. ASSUME NEW t \in TaskIds, NEW o \in {"CRASHED"} \cup Terminal,
              exec[t] \in {"spawned", "executing"}, Settle(t, o) PROVE PageInv'
  BY <1>22 DEF Settle
<1>23. ASSUME NEW t \in TaskIds, WriteOutcome(t) PROVE PageInv'
  BY <1>23 DEF WriteOutcome
<1>24. ASSUME NEW t \in TaskIds, CommitOutcome(t) PROVE PageInv'
  BY <1>24 DEF CommitOutcome
<1>25. ASSUME NEW t \in TaskIds, ReportOutcome(t) PROVE PageInv'
  BY <1>25 DEF ReportOutcome
<1>26. CASE Crash
  BY <1>26 DEF Crash
<1>27. CASE UNCHANGED vars
  BY <1>27 DEF vars
<1> QED BY StepCases, <1>1, <1>2, <1>3, <1>4, <1>5, <1>6, <1>7, <1>8, <1>9, <1>10, <1>11,
          <1>12, <1>13, <1>14, <1>15, <1>16, <1>17, <1>18, <1>19, <1>20, <1>21,
          <1>22, <1>23, <1>24, <1>25, <1>26, <1>27

\* The durable rows do not lag behind in a way that a crash could requeue.
LEMMA DurableStep ==
    ASSUME TypeOK, ExecInv, PageInv, DurableInv, [Next]_vars
    PROVE  DurableInv'
<1> USE QueueAssumption DEF TypeOK, Status, Terminal, ExecInv, PageInv, DurableInv, DispatchPhases, Oldest
<1>1. ASSUME NEW t \in TaskIds, NEW j \in Jobs, InsertTask(t, j) PROVE DurableInv'
  BY <1>1 DEF InsertTask
<1>2. ASSUME NEW t \in TaskIds, CommitTask(t) PROVE DurableInv'
  BY <1>2 DEF CommitTask
<1>3. ASSUME NEW t \in TaskIds, SenderTimeout(t) PROVE DurableInv'
  BY <1>3 DEF SenderTimeout
<1>4. ASSUME NEW c \in Cancellers, NEW t \in TaskIds, CancelRead(c, t) PROVE DurableInv'
  BY <1>4 DEF CancelRead
<1>5. ASSUME NEW c \in Cancellers, CancelRequest(c) PROVE DurableInv'
  BY <1>5 DEF CancelRequest
<1>6. ASSUME NEW c \in Cancellers, CancelWrite(c) PROVE DurableInv'
  BY <1>6 DEF CancelWrite, Idle, Done
<1>7. ASSUME NEW c \in Cancellers, CancelCommit(c) PROVE DurableInv'
  BY <1>7 DEF CancelCommit
<1>8. ASSUME NEW c \in Cancellers, CancelTell(c) PROVE DurableInv'
  BY <1>8 DEF CancelTell
<1>9. CASE ReadInterrupted
  BY <1>9 DEF ReadInterrupted
<1>10. CASE Recovered
  BY <1>10 DEF Recovered
<1>11. CASE StartWorker
  BY <1>11 DEF StartWorker
<1>12. ASSUME NEW t \in TaskIds, RecoverTask(t) PROVE DurableInv'
  BY <1>12 DEF RecoverTask
<1>13. ASSUME NEW t \in TaskIds, NotifyInterrupted(t) PROVE DurableInv'
  BY <1>13 DEF NotifyInterrupted
<1>14. CASE CountRunning
  BY <1>14 DEF CountRunning
<1>15. CASE SelectPending
  BY <1>15 DEF SelectPending
<1>16. CASE EndDispatch
  BY <1>16 DEF EndDispatch
<1>17. ASSUME NEW t \in TaskIds, CheckProject(t) PROVE DurableInv'
  BY <1>17 DEF CheckProject, SkipOrGoOn
<1>18. ASSUME NEW t \in TaskIds, CheckSession(t) PROVE DurableInv'
  BY <1>18 DEF CheckSession, SkipOrGoOn
<1>19. ASSUME NEW t \in TaskIds, MarkStarted(t) PROVE DurableInv'
  BY <1>19 DEF MarkStarted
<1>20. ASSUME NEW t \in TaskIds, CommitStarted(t) PROVE DurableInv'
  BY <1>20 DEF CommitStarted
<1>21. ASSUME NEW t \in TaskIds, BeginExecution(t) PROVE DurableInv'
  BY <1>21 DEF BeginExecution
<1>22. ASSUME NEW t \in TaskIds, NEW o \in {"CRASHED"} \cup Terminal,
              exec[t] \in {"spawned", "executing"}, Settle(t, o) PROVE DurableInv'
  BY <1>22 DEF Settle
<1>23. ASSUME NEW t \in TaskIds, WriteOutcome(t) PROVE DurableInv'
  BY <1>23 DEF WriteOutcome
<1>24. ASSUME NEW t \in TaskIds, CommitOutcome(t) PROVE DurableInv'
  BY <1>24 DEF CommitOutcome
<1>25. ASSUME NEW t \in TaskIds, ReportOutcome(t) PROVE DurableInv'
  BY <1>25 DEF ReportOutcome
<1>26. CASE Crash
  BY <1>26 DEF Crash
<1>27. CASE UNCHANGED vars
  BY <1>27 DEF vars
<1> QED BY StepCases, <1>1, <1>2, <1>3, <1>4, <1>5, <1>6, <1>7, <1>8, <1>9, <1>10, <1>11,
          <1>12, <1>13, <1>14, <1>15, <1>16, <1>17, <1>18, <1>19, <1>20, <1>21,
          <1>22, <1>23, <1>24, <1>25, <1>26, <1>27

\* A RUNNING row always has somebody who will finish it.
LEMMA OrphanStep ==
    ASSUME TypeOK, ExecInv, PageInv, OrphanInv, [Next]_vars
    PROVE  OrphanInv'
<1> USE QueueAssumption DEF TypeOK, Status, Terminal, ExecInv, PageInv, OrphanInv, NoOrphanRunning, Running, Up, DispatchPhases, Oldest
<1>1. ASSUME NEW t \in TaskIds, NEW j \in Jobs, InsertTask(t, j) PROVE OrphanInv'
  BY <1>1 DEF InsertTask
<1>2. ASSUME NEW t \in TaskIds, CommitTask(t) PROVE OrphanInv'
  BY <1>2 DEF CommitTask
<1>3. ASSUME NEW t \in TaskIds, SenderTimeout(t) PROVE OrphanInv'
  BY <1>3 DEF SenderTimeout
<1>4. ASSUME NEW c \in Cancellers, NEW t \in TaskIds, CancelRead(c, t) PROVE OrphanInv'
  BY <1>4 DEF CancelRead
<1>5. ASSUME NEW c \in Cancellers, CancelRequest(c) PROVE OrphanInv'
  BY <1>5 DEF CancelRequest
<1>6. ASSUME NEW c \in Cancellers, CancelWrite(c) PROVE OrphanInv'
  BY <1>6 DEF CancelWrite, Idle, Done
<1>7. ASSUME NEW c \in Cancellers, CancelCommit(c) PROVE OrphanInv'
  BY <1>7 DEF CancelCommit
<1>8. ASSUME NEW c \in Cancellers, CancelTell(c) PROVE OrphanInv'
  BY <1>8 DEF CancelTell
<1>9. CASE ReadInterrupted
  BY <1>9 DEF ReadInterrupted
<1>10. CASE Recovered
  BY <1>10 DEF Recovered
<1>11. CASE StartWorker
  BY <1>11 DEF StartWorker
<1>12. ASSUME NEW t \in TaskIds, RecoverTask(t) PROVE OrphanInv'
  BY <1>12 DEF RecoverTask
<1>13. ASSUME NEW t \in TaskIds, NotifyInterrupted(t) PROVE OrphanInv'
  BY <1>13 DEF NotifyInterrupted
<1>14. CASE CountRunning
  BY <1>14 DEF CountRunning
<1>15. CASE SelectPending
  BY <1>15 DEF SelectPending
<1>16. CASE EndDispatch
  BY <1>16 DEF EndDispatch
<1>17. ASSUME NEW t \in TaskIds, CheckProject(t) PROVE OrphanInv'
  BY <1>17 DEF CheckProject, SkipOrGoOn
<1>18. ASSUME NEW t \in TaskIds, CheckSession(t) PROVE OrphanInv'
  BY <1>18 DEF CheckSession, SkipOrGoOn
<1>19. ASSUME NEW t \in TaskIds, MarkStarted(t) PROVE OrphanInv'
  BY <1>19 DEF MarkStarted
<1>20. ASSUME NEW t \in TaskIds, CommitStarted(t) PROVE OrphanInv'
  <2>1. \A u \in page : Oldest(u) => u = t
    BY <1>20, OldestUnique DEF CommitStarted
  <2> QED BY <1>20, <2>1 DEF CommitStarted
<1>21. ASSUME NEW t \in TaskIds, BeginExecution(t) PROVE OrphanInv'
  BY <1>21 DEF BeginExecution
<1>22. ASSUME NEW t \in TaskIds, NEW o \in {"CRASHED"} \cup Terminal,
              exec[t] \in {"spawned", "executing"}, Settle(t, o) PROVE OrphanInv'
  BY <1>22 DEF Settle
<1>23. ASSUME NEW t \in TaskIds, WriteOutcome(t) PROVE OrphanInv'
  BY <1>23 DEF WriteOutcome
<1>24. ASSUME NEW t \in TaskIds, CommitOutcome(t) PROVE OrphanInv'
  BY <1>24 DEF CommitOutcome
<1>25. ASSUME NEW t \in TaskIds, ReportOutcome(t) PROVE OrphanInv'
  BY <1>25 DEF ReportOutcome
<1>26. CASE Crash
  BY <1>26 DEF Crash
<1>27. CASE UNCHANGED vars
  BY <1>27 DEF vars
<1> QED BY StepCases, <1>1, <1>2, <1>3, <1>4, <1>5, <1>6, <1>7, <1>8, <1>9, <1>10, <1>11,
          <1>12, <1>13, <1>14, <1>15, <1>16, <1>17, <1>18, <1>19, <1>20, <1>21,
          <1>22, <1>23, <1>24, <1>25, <1>26, <1>27

\* The RUNNING rows, visible and durable, are of different projects.
LEMMA ProjectStep ==
    ASSUME TypeOK, ExecInv, PageInv, DurableInv, ProjectInv, [Next]_vars
    PROVE  ProjectInv'
<1> USE QueueAssumption DEF TypeOK, Status, Terminal, ExecInv, PageInv, DurableInv, ProjectInv, ProjectBusy, Running, DispatchPhases, Oldest
<1>1. ASSUME NEW t \in TaskIds, NEW j \in Jobs, InsertTask(t, j) PROVE ProjectInv'
  BY <1>1 DEF InsertTask
<1>2. ASSUME NEW t \in TaskIds, CommitTask(t) PROVE ProjectInv'
  BY <1>2 DEF CommitTask
<1>3. ASSUME NEW t \in TaskIds, SenderTimeout(t) PROVE ProjectInv'
  BY <1>3 DEF SenderTimeout
<1>4. ASSUME NEW c \in Cancellers, NEW t \in TaskIds, CancelRead(c, t) PROVE ProjectInv'
  BY <1>4 DEF CancelRead
<1>5. ASSUME NEW c \in Cancellers, CancelRequest(c) PROVE ProjectInv'
  BY <1>5 DEF CancelRequest
<1>6. ASSUME NEW c \in Cancellers, CancelWrite(c) PROVE ProjectInv'
  <2>1. \A u \in TaskIds : status'[u] = "RUNNING" => status[u] = "RUNNING"
    BY <1>6 DEF CancelWrite
  <2> QED BY <1>6, <2>1 DEF CancelWrite
<1>7. ASSUME NEW c \in Cancellers, CancelCommit(c) PROVE ProjectInv'
  BY <1>7 DEF CancelCommit
<1>8. ASSUME NEW c \in Cancellers, CancelTell(c) PROVE ProjectInv'
  BY <1>8 DEF CancelTell
<1>9. CASE ReadInterrupted
  BY <1>9 DEF ReadInterrupted
<1>10. CASE Recovered
  BY <1>10 DEF Recovered
<1>11. CASE StartWorker
  BY <1>11 DEF StartWorker
<1>12. ASSUME NEW t \in TaskIds, RecoverTask(t) PROVE ProjectInv'
  BY <1>12 DEF RecoverTask
<1>13. ASSUME NEW t \in TaskIds, NotifyInterrupted(t) PROVE ProjectInv'
  BY <1>13 DEF NotifyInterrupted
<1>14. CASE CountRunning
  BY <1>14 DEF CountRunning
<1>15. CASE SelectPending
  BY <1>15 DEF SelectPending
<1>16. CASE EndDispatch
  BY <1>16 DEF EndDispatch
<1>17. ASSUME NEW t \in TaskIds, CheckProject(t) PROVE ProjectInv'
  <2>1. \A u \in page : Oldest(u) => u = t
    BY <1>17, OldestUnique DEF CheckProject
  <2> QED BY <1>17, <2>1 DEF CheckProject, SkipOrGoOn
<1>18. ASSUME NEW t \in TaskIds, CheckSession(t) PROVE ProjectInv'
  BY <1>18 DEF CheckSession, SkipOrGoOn
<1>19. ASSUME NEW t \in TaskIds, MarkStarted(t) PROVE ProjectInv'
  BY <1>19 DEF MarkStarted
<1>20. ASSUME NEW t \in TaskIds, CommitStarted(t) PROVE ProjectInv'
  BY <1>20 DEF CommitStarted
<1>21. ASSUME NEW t \in TaskIds, BeginExecution(t) PROVE ProjectInv'
  BY <1>21 DEF BeginExecution
<1>22. ASSUME NEW t \in TaskIds, NEW o \in {"CRASHED"} \cup Terminal,
              exec[t] \in {"spawned", "executing"}, Settle(t, o) PROVE ProjectInv'
  BY <1>22 DEF Settle
<1>23. ASSUME NEW t \in TaskIds, WriteOutcome(t) PROVE ProjectInv'
  BY <1>23 DEF WriteOutcome
<1>24. ASSUME NEW t \in TaskIds, CommitOutcome(t) PROVE ProjectInv'
  BY <1>24 DEF CommitOutcome
<1>25. ASSUME NEW t \in TaskIds, ReportOutcome(t) PROVE ProjectInv'
  BY <1>25 DEF ReportOutcome
<1>26. CASE Crash
  BY <1>26 DEF Crash
<1>27. CASE UNCHANGED vars
  BY <1>27 DEF vars
<1> QED BY StepCases, <1>1, <1>2, <1>3, <1>4, <1>5, <1>6, <1>7, <1>8, <1>9, <1>10, <1>11,
          <1>12, <1>13, <1>14, <1>15, <1>16, <1>17, <1>18, <1>19, <1>20, <1>21,
          <1>22, <1>23, <1>24, <1>25, <1>26, <1>27

-----------------------------------------------------------------------------
(* The inductive invariant.                                                  *)

LEMMA InitInv == Init => IInv
<1> SUFFICES ASSUME Init PROVE IInv
  OBVIOUS
<1> USE QueueAssumption DEF Init
<1>1. TypeOK
  BY DEF TypeOK, Status, Idle
<1>2. Cardinality(Running) = 0 /\ Cardinality(DurablyRunning) = 0
  <2>1. Running = {} /\ DurablyRunning = {}
    BY DEF Running, DurablyRunning
  <2> QED BY <2>1, FS_EmptySet
<1>3. CountInv
  BY <1>2 DEF CountInv, RunningBound
<1>4. ProjectInv /\ PageInv /\ ExecInv /\ DurableInv /\ OrphanInv
  BY DEF ProjectInv, PageInv, ExecInv, DurableInv, OrphanInv, NoOrphanRunning, Up,
         DispatchPhases, Running
<1> QED BY <1>1, <1>3, <1>4 DEF IInv

LEMMA InvStep == IInv /\ [Next]_vars => IInv'
  BY TypeStep, CountStep, ProjectStep, PageStep, ExecStep, DurableStep, OrphanStep DEF IInv

\* The inductive invariant holds in every behaviour of the queue.
THEOREM Invariance == Spec => []IInv
  BY InitInv, InvStep, PTL DEF Spec

\* Every variable of the queue keeps its type.
THEOREM TypeCorrect == Spec => []TypeOK
  BY Invariance, PTL DEF IInv

\* At most Capacity rows are RUNNING (queue_worker.py:5).
THEOREM LimitRespected == Spec => []RunningBound
  BY Invariance, PTL DEF IInv, CountInv

\* RUNNING rows never share a project or a conversation (queue_worker.py:6-7).
THEOREM RowsIsolated == Spec => []RowIsolation
<1>1. IInv => RowIsolation
  <2> SUFFICES ASSUME IInv, NEW t \in Running, NEW u \in Running, t # u
               PROVE  /\ job[t].project # job[u].project
                      /\ Interactive(t) => job[t].session # job[u].session
    BY DEF RowIsolation
  <2>1. job[t].project # job[u].project
    BY DEF IInv, ProjectInv, Running
  <2>2. ASSUME Interactive(t), job[t].session = job[u].session
        PROVE  job[t].project = job[u].project
    <3>1. job[t] \in Jobs \cup {NoJob} /\ job[u] \in Jobs \cup {NoJob}
      BY DEF IInv, TypeOK, Running
    <3> QED BY <2>2, <3>1 DEF Jobs, NoJob, Interactive
  <2> QED BY <2>1, <2>2
<1> QED BY <1>1, Invariance, PTL

\* OpenCode is started at most once per task, over all restarts.
THEOREM StartedAtMostOnce == Spec => []AtMostOnce
<1>1. IInv => AtMostOnce
  BY DEF IInv, ExecInv, AtMostOnce
<1> QED BY <1>1, Invariance, PTL

\* No row stays RUNNING without an execution that will finish it.
THEOREM NoneOrphaned == Spec => []NoOrphanRunning
  BY Invariance, PTL DEF IInv, OrphanInv

\* OpenCode works on a task only while its row is RUNNING or was cancelled.
THEOREM WorkAccounted == Spec => []WorkingIsAccounted
<1>1. IInv => WorkingIsAccounted
  BY DEF IInv, ExecInv, WorkingIsAccounted, Working
<1> QED BY <1>1, Invariance, PTL

-----------------------------------------------------------------------------
(* Every task goes through the stages of TaskLifecycle.                      *)

LEMMA LifecycleInit == Init => Lifecycle!Init
  BY DEF Init, Lifecycle!Init, Stage

\* A task never goes back to an earlier stage, whatever the step.
Moves(x) == Stage(x)' = Stage(x) \/ <<Stage(x), Stage(x)'>> \in Lifecycle!Arcs

\* Each step of the queue moves each task along an arc, or not at all.
LEMMA StageStep ==
    ASSUME IInv, NEW x \in TaskIds, [Next]_vars
    PROVE  Moves(x)
<1> USE QueueAssumption DEF IInv, TypeOK, Status, Terminal, ExecInv, PageInv,
       DurableInv, DispatchPhases, Oldest, Moves, Stage, MayBeStarted, Lifecycle!Arcs
<1>1. ASSUME NEW t \in TaskIds, NEW j \in Jobs, InsertTask(t, j) PROVE Moves(x)
  BY <1>1 DEF InsertTask
<1>2. ASSUME NEW t \in TaskIds, CommitTask(t) PROVE Moves(x)
  BY <1>2 DEF CommitTask
<1>3. ASSUME NEW t \in TaskIds, SenderTimeout(t) PROVE Moves(x)
  BY <1>3 DEF SenderTimeout
<1>4. ASSUME NEW c \in Cancellers, NEW t \in TaskIds, CancelRead(c, t) PROVE Moves(x)
  BY <1>4 DEF CancelRead
<1>5. ASSUME NEW c \in Cancellers, CancelRequest(c) PROVE Moves(x)
  BY <1>5 DEF CancelRequest
<1>6. ASSUME NEW c \in Cancellers, CancelWrite(c) PROVE Moves(x)
  BY <1>6 DEF CancelWrite, Idle, Done
<1>7. ASSUME NEW c \in Cancellers, CancelCommit(c) PROVE Moves(x)
  BY <1>7 DEF CancelCommit
<1>8. ASSUME NEW c \in Cancellers, CancelTell(c) PROVE Moves(x)
  BY <1>8 DEF CancelTell
<1>9. CASE ReadInterrupted
  BY <1>9 DEF ReadInterrupted
<1>10. CASE Recovered
  BY <1>10 DEF Recovered
<1>11. CASE StartWorker
  BY <1>11 DEF StartWorker
<1>12. ASSUME NEW t \in TaskIds, RecoverTask(t) PROVE Moves(x)
  BY <1>12 DEF RecoverTask
<1>13. ASSUME NEW t \in TaskIds, NotifyInterrupted(t) PROVE Moves(x)
  BY <1>13 DEF NotifyInterrupted
<1>14. CASE CountRunning
  BY <1>14 DEF CountRunning
<1>15. CASE SelectPending
  BY <1>15 DEF SelectPending, NextPending
<1>16. CASE EndDispatch
  BY <1>16 DEF EndDispatch
<1>17. ASSUME NEW t \in TaskIds, CheckProject(t) PROVE Moves(x)
  BY <1>17 DEF CheckProject, SkipOrGoOn
<1>18. ASSUME NEW t \in TaskIds, CheckSession(t) PROVE Moves(x)
  BY <1>18 DEF CheckSession, SkipOrGoOn
<1>19. ASSUME NEW t \in TaskIds, MarkStarted(t) PROVE Moves(x)
  BY <1>19 DEF MarkStarted
<1>20. ASSUME NEW t \in TaskIds, CommitStarted(t) PROVE Moves(x)
  BY <1>20 DEF CommitStarted
<1>21. ASSUME NEW t \in TaskIds, BeginExecution(t) PROVE Moves(x)
  BY <1>21 DEF BeginExecution
<1>22. ASSUME NEW t \in TaskIds, NEW o \in {"CRASHED"} \cup Terminal,
              exec[t] \in {"spawned", "executing"}, Settle(t, o) PROVE Moves(x)
  BY <1>22 DEF Settle
<1>23. ASSUME NEW t \in TaskIds, WriteOutcome(t) PROVE Moves(x)
  BY <1>23 DEF WriteOutcome
<1>24. ASSUME NEW t \in TaskIds, CommitOutcome(t) PROVE Moves(x)
  BY <1>24 DEF CommitOutcome
<1>25. ASSUME NEW t \in TaskIds, ReportOutcome(t) PROVE Moves(x)
  BY <1>25 DEF ReportOutcome
<1>26. CASE Crash
  BY <1>26 DEF Crash
<1>27. CASE UNCHANGED vars
  BY <1>27 DEF vars
<1> QED BY StepCases, <1>1, <1>2, <1>3, <1>4, <1>5, <1>6, <1>7, <1>8, <1>9, <1>10, <1>11,
          <1>12, <1>13, <1>14, <1>15, <1>16, <1>17, <1>18, <1>19, <1>20, <1>21,
          <1>22, <1>23, <1>24, <1>25, <1>26, <1>27

LEMMA LifecycleStep == IInv /\ [Next]_vars => [Lifecycle!Next]_([t \in TaskIds |-> Stage(t)])
<1> SUFFICES ASSUME IInv, [Next]_vars PROVE Lifecycle!Next
  OBVIOUS
<1>1. \A x \in TaskIds : Moves(x)
  BY StageStep
<1> QED BY <1>1 DEF Lifecycle!Next, Moves

\* The queue implements TaskLifecycle: once a task's row is durable, OpenCode is
\* started for it at most once, and what is over is never taken up again.
THEOREM ImplementsLifecycle == Spec => FollowsLifecycle
  BY LifecycleInit, LifecycleStep, Invariance, PTL DEF Spec, FollowsLifecycle, Lifecycle!Spec

-----------------------------------------------------------------------------
(* What cancelling a waiting task does to the others, and to the records.    *)

\* Two OpenCode processes work in one project only if the task of one of them was
\* cancelled while it waited.
OverlapOnlyCancelled ==
    \A t, u \in TaskIds :
        Working(t) /\ Working(u) /\ t # u /\ job[t].project = job[u].project
            => "CANCELLED" \in {status[t], status[u]}

\* Rows are isolated, and only the stale snapshot of the dispatch loop makes a row differ
\* from what runs for it: that is the one way to lose the isolation of queue_worker.py:6.
THEOREM OverlapNeedsCancel == Spec => []OverlapOnlyCancelled
<1>1. WorkingIsAccounted /\ RowIsolation => OverlapOnlyCancelled
  BY DEF WorkingIsAccounted, RowIsolation, OverlapOnlyCancelled, Running
<1> QED BY <1>1, WorkAccounted, RowsIsolated, PTL

Ended == {"COMPLETED", "FAILED"}

\* What is durably over has nothing at work for it, and at most a cancellation is about
\* to be written over it.
RecordInv ==
    \A x \in TaskIds :
        durable[x] \in Ended =>
            /\ status[x] \in {durable[x], "CANCELLED"}
            /\ exec[x] \notin {"spawned", "executing", "write"}
            /\ x \in page => dispatcher \notin DispatchPhases

LEMMA RecordStep == IInv /\ RecordInv /\ [Next]_vars => RecordInv'
<1> SUFFICES ASSUME IInv, RecordInv, [Next]_vars PROVE RecordInv'
  OBVIOUS
<1> USE QueueAssumption DEF IInv, TypeOK, Status, Terminal, ExecInv, PageInv,
       DurableInv, DispatchPhases, Oldest, Ended, RecordInv
<1>1. ASSUME NEW t \in TaskIds, NEW j \in Jobs, InsertTask(t, j) PROVE RecordInv'
  BY <1>1 DEF InsertTask
<1>2. ASSUME NEW t \in TaskIds, CommitTask(t) PROVE RecordInv'
  BY <1>2 DEF CommitTask
<1>3. ASSUME NEW t \in TaskIds, SenderTimeout(t) PROVE RecordInv'
  BY <1>3 DEF SenderTimeout
<1>4. ASSUME NEW c \in Cancellers, NEW t \in TaskIds, CancelRead(c, t) PROVE RecordInv'
  BY <1>4 DEF CancelRead
<1>5. ASSUME NEW c \in Cancellers, CancelRequest(c) PROVE RecordInv'
  BY <1>5 DEF CancelRequest
<1>6. ASSUME NEW c \in Cancellers, CancelWrite(c) PROVE RecordInv'
  BY <1>6 DEF CancelWrite, Idle, Done
<1>7. ASSUME NEW c \in Cancellers, CancelCommit(c) PROVE RecordInv'
  BY <1>7 DEF CancelCommit
<1>8. ASSUME NEW c \in Cancellers, CancelTell(c) PROVE RecordInv'
  BY <1>8 DEF CancelTell
<1>9. CASE ReadInterrupted
  BY <1>9 DEF ReadInterrupted
<1>10. CASE Recovered
  BY <1>10 DEF Recovered
<1>11. CASE StartWorker
  BY <1>11 DEF StartWorker
<1>12. ASSUME NEW t \in TaskIds, RecoverTask(t) PROVE RecordInv'
  BY <1>12 DEF RecoverTask, Up
<1>13. ASSUME NEW t \in TaskIds, NotifyInterrupted(t) PROVE RecordInv'
  BY <1>13 DEF NotifyInterrupted
<1>14. CASE CountRunning
  BY <1>14 DEF CountRunning
<1>15. CASE SelectPending
  BY <1>15 DEF SelectPending, NextPending
<1>16. CASE EndDispatch
  BY <1>16 DEF EndDispatch
<1>17. ASSUME NEW t \in TaskIds, CheckProject(t) PROVE RecordInv'
  BY <1>17 DEF CheckProject, SkipOrGoOn
<1>18. ASSUME NEW t \in TaskIds, CheckSession(t) PROVE RecordInv'
  BY <1>18 DEF CheckSession, SkipOrGoOn
<1>19. ASSUME NEW t \in TaskIds, MarkStarted(t) PROVE RecordInv'
  BY <1>19 DEF MarkStarted
<1>20. ASSUME NEW t \in TaskIds, CommitStarted(t) PROVE RecordInv'
  BY <1>20 DEF CommitStarted
<1>21. ASSUME NEW t \in TaskIds, BeginExecution(t) PROVE RecordInv'
  BY <1>21 DEF BeginExecution
<1>22. ASSUME NEW t \in TaskIds, NEW o \in {"CRASHED"} \cup Terminal,
              exec[t] \in {"spawned", "executing"}, Settle(t, o) PROVE RecordInv'
  BY <1>22 DEF Settle
<1>23. ASSUME NEW t \in TaskIds, WriteOutcome(t) PROVE RecordInv'
  BY <1>23 DEF WriteOutcome
<1>24. ASSUME NEW t \in TaskIds, CommitOutcome(t) PROVE RecordInv'
  BY <1>24 DEF CommitOutcome
<1>25. ASSUME NEW t \in TaskIds, ReportOutcome(t) PROVE RecordInv'
  BY <1>25 DEF ReportOutcome
<1>26. CASE Crash
  BY <1>26 DEF Crash
<1>27. CASE UNCHANGED vars
  BY <1>27 DEF vars
<1> QED BY StepCases, <1>1, <1>2, <1>3, <1>4, <1>5, <1>6, <1>7, <1>8, <1>9, <1>10, <1>11,
          <1>12, <1>13, <1>14, <1>15, <1>16, <1>17, <1>18, <1>19, <1>20, <1>21,
          <1>22, <1>23, <1>24, <1>25, <1>26, <1>27

\* A task that is recorded as COMPLETED or FAILED stays so, over all crashes and restarts,
\* unless a /cancel that saw it waiting writes over it (task_manager.py, cancel_task): no
\* execution, recovery or dispatch ever takes it up again.
THEOREM RecordsStay ==
    Spec => [][\A t \in TaskIds : durable[t] \in Ended => durable'[t] \in {durable[t], "CANCELLED"}]_vars
<1>1. Init => RecordInv
  BY DEF Init, RecordInv, Ended
<1>2. IInv /\ RecordInv /\ RecordInv' /\ [Next]_vars
        => [\A t \in TaskIds : durable[t] \in Ended => durable'[t] \in {durable[t], "CANCELLED"}]_vars
  <2> SUFFICES ASSUME IInv, RecordInv, Next, NEW t \in TaskIds, durable[t] \in Ended
               PROVE  durable'[t] \in {durable[t], "CANCELLED"}
    OBVIOUS
  <2>1. durable' \in {durable, status} \/ \E u \in TaskIds : RecoverTask(u)
    BY StepCases DEF InsertTask, CommitTask, SenderTimeout, CancelRead, CancelRequest, CancelWrite,
       CancelCommit, CancelTell, ReadInterrupted, Recovered, StartWorker, NotifyInterrupted,
       CountRunning, SelectPending, EndDispatch, CheckProject, CheckSession, MarkStarted,
       CommitStarted, BeginExecution, Settle, WriteOutcome, CommitOutcome, ReportOutcome, Crash, vars
  <2>2. ASSUME NEW u \in TaskIds, RecoverTask(u) PROVE durable'[t] \in {durable[t], "CANCELLED"}
    BY <2>2 DEF RecoverTask, RecordInv, IInv, TypeOK, Ended
  <2>3. CASE durable' \in {durable, status}
    BY <2>3 DEF RecordInv
  <2> QED BY <2>1, <2>2, <2>3
<1> QED BY <1>1, <1>2, RecordStep, Invariance, PTL DEF Spec

\* Without cancellations no row is ever CANCELLED, and whom the bot has told of the end of
\* a task was told of one that is on record.
SettledInv ==
    /\ cancelSet = {}
    /\ dispatcher = "recover" => \A x \in page : status[x] \in {"RUNNING"} \cup Terminal
    /\ dispatcher = "notify" => \A x \in page : durable[x] \in Terminal
    /\ \A x \in TaskIds :
        /\ "CANCELLED" \notin {outcome[x], status[x], durable[x]}
        /\ ~Up => status[x] = durable[x]
        /\ exec[x] = "report" => durable[x] \in Terminal
        /\ owner[x] = "told" => durable[x] \in Terminal

LEMMA SettledStep ==
    ASSUME Cancellers = {}, IInv, RecordInv, SettledInv, [Next]_vars
    PROVE  SettledInv'
<1> USE QueueAssumption DEF IInv, TypeOK, Status, Terminal, ExecInv, DurableInv, Ended,
       RecordInv, SettledInv, Up
<1>1. ASSUME NEW t \in TaskIds, NEW j \in Jobs, InsertTask(t, j) PROVE SettledInv'
  BY <1>1 DEF InsertTask
<1>2. ASSUME NEW t \in TaskIds, CommitTask(t) PROVE SettledInv'
  BY <1>2 DEF CommitTask
<1>3. ASSUME NEW t \in TaskIds, SenderTimeout(t) PROVE SettledInv'
  BY <1>3 DEF SenderTimeout
<1>4. ASSUME NEW c \in Cancellers, NEW t \in TaskIds, CancelRead(c, t) PROVE SettledInv'
  BY <1>4 DEF CancelRead
<1>5. ASSUME NEW c \in Cancellers, CancelRequest(c) PROVE SettledInv'
  BY <1>5 DEF CancelRequest
<1>6. ASSUME NEW c \in Cancellers, CancelWrite(c) PROVE SettledInv'
  BY <1>6 DEF CancelWrite, Idle, Done
<1>7. ASSUME NEW c \in Cancellers, CancelCommit(c) PROVE SettledInv'
  BY <1>7 DEF CancelCommit
<1>8. ASSUME NEW c \in Cancellers, CancelTell(c) PROVE SettledInv'
  BY <1>8 DEF CancelTell, Tell
<1>9. CASE ReadInterrupted
  BY <1>9 DEF ReadInterrupted, Running
<1>10. CASE Recovered
  BY <1>10 DEF Recovered, Running
<1>11. CASE StartWorker
  BY <1>11 DEF StartWorker
<1>12. ASSUME NEW t \in TaskIds, RecoverTask(t) PROVE SettledInv'
  BY <1>12 DEF RecoverTask
<1>13. ASSUME NEW t \in TaskIds, NotifyInterrupted(t) PROVE SettledInv'
  BY <1>13 DEF NotifyInterrupted
<1>14. CASE CountRunning
  BY <1>14 DEF CountRunning
<1>15. CASE SelectPending
  BY <1>15 DEF SelectPending, NextPending
<1>16. CASE EndDispatch
  BY <1>16 DEF EndDispatch
<1>17. ASSUME NEW t \in TaskIds, CheckProject(t) PROVE SettledInv'
  BY <1>17 DEF CheckProject, SkipOrGoOn
<1>18. ASSUME NEW t \in TaskIds, CheckSession(t) PROVE SettledInv'
  BY <1>18 DEF CheckSession, SkipOrGoOn
<1>19. ASSUME NEW t \in TaskIds, MarkStarted(t) PROVE SettledInv'
  BY <1>19 DEF MarkStarted
<1>20. ASSUME NEW t \in TaskIds, CommitStarted(t) PROVE SettledInv'
  BY <1>20 DEF CommitStarted
<1>21. ASSUME NEW t \in TaskIds, BeginExecution(t) PROVE SettledInv'
  BY <1>21 DEF BeginExecution
<1>22. ASSUME NEW t \in TaskIds, NEW o \in {"CRASHED"} \cup Terminal,
              exec[t] \in {"spawned", "executing"}, o = "CANCELLED" => t \in cancelSet, Settle(t, o) PROVE SettledInv'
  <2>1. o # "CANCELLED"
    BY <1>22
  <2> QED BY <1>22, <2>1 DEF Settle
<1>23. ASSUME NEW t \in TaskIds, WriteOutcome(t) PROVE SettledInv'
  BY <1>23 DEF WriteOutcome
<1>24. ASSUME NEW t \in TaskIds, CommitOutcome(t) PROVE SettledInv'
  <2>1. Up /\ status[t] \in Terminal /\ durable' = status /\ dispatcher' = dispatcher
    BY <1>24 DEF CommitOutcome
  <2>2. \A x \in TaskIds : durable[x] \in Terminal => status[x] = durable[x]
    OBVIOUS
  <2> QED BY <1>24, <2>1, <2>2 DEF CommitOutcome
<1>25. ASSUME NEW t \in TaskIds, ReportOutcome(t) PROVE SettledInv'
  BY <1>25 DEF ReportOutcome, Tell
<1>26. CASE Crash
  BY <1>26 DEF Crash
<1>27. CASE UNCHANGED vars
  BY <1>27 DEF vars
<1> QED BY StepCases, <1>1, <1>2, <1>3, <1>4, <1>5, <1>6, <1>7, <1>8, <1>9, <1>10, <1>11,
          <1>12, <1>13, <1>14, <1>15, <1>16, <1>17, <1>18, <1>19, <1>20, <1>21,
          <1>22, <1>23, <1>24, <1>25, <1>26, <1>27

LEMMA InitSettled == Init => RecordInv /\ SettledInv
BY DEF Init, RecordInv, SettledInv, Ended

\* The invariant holds in every behaviour without a /cancel.
LEMMA SettledUncancelled == ASSUME Cancellers = {} PROVE Spec => []SettledInv
<1>1. IInv /\ RecordInv /\ [Next]_vars => RecordInv'
  BY RecordStep
<1>2. IInv /\ RecordInv /\ SettledInv /\ [Next]_vars => SettledInv'
  BY SettledStep
<1> QED BY <1>1, <1>2, InitSettled, Invariance, PTL DEF Spec

\* As long as nobody cancels anything, the workspaces are isolated, and not only the rows
\* (queue_worker.py:6): the overlap that the run queue_overlap shows needs a /cancel.
THEOREM IsolatedUncancelled == ASSUME Cancellers = {} PROVE Spec => []WorkspaceIsolation
<1>1. OverlapOnlyCancelled /\ SettledInv => WorkspaceIsolation
  BY DEF OverlapOnlyCancelled, SettledInv, WorkspaceIsolation
<1> QED BY <1>1, OverlapNeedsCancel, SettledUncancelled, PTL

\* As long as nobody cancels anything, a user is told that a task is over only when its
\* end is durable, so that no crash makes the news untrue (queue_worker.py, main.py).
NewsIsTrue == \A t \in TaskIds : owner[t] = "told" => durable[t] \in Terminal

THEOREM NewsTrueUncancelled == ASSUME Cancellers = {} PROVE Spec => []NewsIsTrue
<1>1. SettledInv => NewsIsTrue
  BY DEF SettledInv, NewsIsTrue
<1> QED BY <1>1, SettledUncancelled, PTL

-----------------------------------------------------------------------------
(* The executions of the queue and their contract, ExecutionOutcome.         *)

ExecutionStage(t) == IF exec[t] \in {"spawned", "executing"} THEN exec[t] ELSE "settled"

Execution(t) == INSTANCE ExecutionOutcome
    WITH stage <- ExecutionStage(t), event <- t \in cancelSet, outcome <- outcome[t]

\* An execution that has not settled has decided nothing.
UndecidedInv == \A x \in TaskIds : exec[x] \in {"none", "spawned", "executing"} => outcome[x] = "none"

LEMMA UndecidedStep == IInv /\ UndecidedInv /\ [Next]_vars => UndecidedInv'
<1> SUFFICES ASSUME IInv, UndecidedInv, [Next]_vars PROVE UndecidedInv'
  OBVIOUS
<1> USE DEF IInv, TypeOK, UndecidedInv
<1>1. ASSUME NEW t \in TaskIds, NEW j \in Jobs, InsertTask(t, j) PROVE UndecidedInv'
  BY <1>1 DEF InsertTask
<1>2. ASSUME NEW t \in TaskIds, CommitTask(t) PROVE UndecidedInv'
  BY <1>2 DEF CommitTask
<1>3. ASSUME NEW t \in TaskIds, SenderTimeout(t) PROVE UndecidedInv'
  BY <1>3 DEF SenderTimeout
<1>4. ASSUME NEW c \in Cancellers, NEW t \in TaskIds, CancelRead(c, t) PROVE UndecidedInv'
  BY <1>4 DEF CancelRead
<1>5. ASSUME NEW c \in Cancellers, CancelRequest(c) PROVE UndecidedInv'
  BY <1>5 DEF CancelRequest
<1>6. ASSUME NEW c \in Cancellers, CancelWrite(c) PROVE UndecidedInv'
  BY <1>6 DEF CancelWrite, Idle, Done
<1>7. ASSUME NEW c \in Cancellers, CancelCommit(c) PROVE UndecidedInv'
  BY <1>7 DEF CancelCommit
<1>8. ASSUME NEW c \in Cancellers, CancelTell(c) PROVE UndecidedInv'
  BY <1>8 DEF CancelTell
<1>9. CASE ReadInterrupted
  BY <1>9 DEF ReadInterrupted
<1>10. CASE Recovered
  BY <1>10 DEF Recovered
<1>11. CASE StartWorker
  BY <1>11 DEF StartWorker
<1>12. ASSUME NEW t \in TaskIds, RecoverTask(t) PROVE UndecidedInv'
  BY <1>12 DEF RecoverTask
<1>13. ASSUME NEW t \in TaskIds, NotifyInterrupted(t) PROVE UndecidedInv'
  BY <1>13 DEF NotifyInterrupted
<1>14. CASE CountRunning
  BY <1>14 DEF CountRunning
<1>15. CASE SelectPending
  BY <1>15 DEF SelectPending
<1>16. CASE EndDispatch
  BY <1>16 DEF EndDispatch
<1>17. ASSUME NEW t \in TaskIds, CheckProject(t) PROVE UndecidedInv'
  BY <1>17 DEF CheckProject, SkipOrGoOn
<1>18. ASSUME NEW t \in TaskIds, CheckSession(t) PROVE UndecidedInv'
  BY <1>18 DEF CheckSession, SkipOrGoOn
<1>19. ASSUME NEW t \in TaskIds, MarkStarted(t) PROVE UndecidedInv'
  BY <1>19 DEF MarkStarted
<1>20. ASSUME NEW t \in TaskIds, CommitStarted(t) PROVE UndecidedInv'
  BY <1>20 DEF CommitStarted, PageInv, DispatchPhases, Oldest
<1>21. ASSUME NEW t \in TaskIds, BeginExecution(t) PROVE UndecidedInv'
  BY <1>21 DEF BeginExecution
<1>22. ASSUME NEW t \in TaskIds, NEW o \in {"CRASHED"} \cup Terminal,
              exec[t] \in {"spawned", "executing"}, Settle(t, o) PROVE UndecidedInv'
  BY <1>22 DEF Settle
<1>23. ASSUME NEW t \in TaskIds, WriteOutcome(t) PROVE UndecidedInv'
  BY <1>23 DEF WriteOutcome
<1>24. ASSUME NEW t \in TaskIds, CommitOutcome(t) PROVE UndecidedInv'
  BY <1>24 DEF CommitOutcome
<1>25. ASSUME NEW t \in TaskIds, ReportOutcome(t) PROVE UndecidedInv'
  BY <1>25 DEF ReportOutcome
<1>26. CASE Crash
  BY <1>26 DEF Crash
<1>27. CASE UNCHANGED vars
  BY <1>27 DEF vars
<1> QED BY StepCases, <1>1, <1>2, <1>3, <1>4, <1>5, <1>6, <1>7, <1>8, <1>9, <1>10, <1>11,
          <1>12, <1>13, <1>14, <1>15, <1>16, <1>17, <1>18, <1>19, <1>20, <1>21,
          <1>22, <1>23, <1>24, <1>25, <1>26, <1>27

\* A step of the queue, as the execution of task x sees it.
Contracted(x) ==
    exec'[x] # "none" =>
        IF exec[x] = "none" THEN Execution(x)!Init'
        ELSE Execution(x)!Next \/ UNCHANGED Execution(x)!vars

LEMMA ContractedStep ==
    ASSUME IInv, UndecidedInv, NEW x \in TaskIds, [Next]_vars
    PROVE  Contracted(x)
<1> USE DEF IInv, TypeOK, UndecidedInv, Contracted, ExecutionStage, Execution!vars
<1>1. ASSUME NEW t \in TaskIds, NEW j \in Jobs, InsertTask(t, j) PROVE Contracted(x)
  BY <1>1 DEF InsertTask
<1>2. ASSUME NEW t \in TaskIds, CommitTask(t) PROVE Contracted(x)
  BY <1>2 DEF CommitTask
<1>3. ASSUME NEW t \in TaskIds, SenderTimeout(t) PROVE Contracted(x)
  BY <1>3 DEF SenderTimeout
<1>4. ASSUME NEW c \in Cancellers, NEW t \in TaskIds, CancelRead(c, t) PROVE Contracted(x)
  BY <1>4 DEF CancelRead
<1>5. ASSUME NEW c \in Cancellers, CancelRequest(c) PROVE Contracted(x)
  BY <1>5 DEF CancelRequest, Execution!Next, Execution!RequestCancel
<1>6. ASSUME NEW c \in Cancellers, CancelWrite(c) PROVE Contracted(x)
  BY <1>6 DEF CancelWrite, Idle, Done
<1>7. ASSUME NEW c \in Cancellers, CancelCommit(c) PROVE Contracted(x)
  BY <1>7 DEF CancelCommit
<1>8. ASSUME NEW c \in Cancellers, CancelTell(c) PROVE Contracted(x)
  BY <1>8 DEF CancelTell
<1>9. CASE ReadInterrupted
  BY <1>9 DEF ReadInterrupted
<1>10. CASE Recovered
  BY <1>10 DEF Recovered
<1>11. CASE StartWorker
  BY <1>11 DEF StartWorker
<1>12. ASSUME NEW t \in TaskIds, RecoverTask(t) PROVE Contracted(x)
  BY <1>12 DEF RecoverTask
<1>13. ASSUME NEW t \in TaskIds, NotifyInterrupted(t) PROVE Contracted(x)
  BY <1>13 DEF NotifyInterrupted
<1>14. CASE CountRunning
  BY <1>14 DEF CountRunning
<1>15. CASE SelectPending
  BY <1>15 DEF SelectPending
<1>16. CASE EndDispatch
  BY <1>16 DEF EndDispatch
<1>17. ASSUME NEW t \in TaskIds, CheckProject(t) PROVE Contracted(x)
  BY <1>17 DEF CheckProject, SkipOrGoOn
<1>18. ASSUME NEW t \in TaskIds, CheckSession(t) PROVE Contracted(x)
  BY <1>18 DEF CheckSession, SkipOrGoOn
<1>19. ASSUME NEW t \in TaskIds, MarkStarted(t) PROVE Contracted(x)
  BY <1>19 DEF MarkStarted
<1>20. ASSUME NEW t \in TaskIds, CommitStarted(t) PROVE Contracted(x)
  BY <1>20 DEF CommitStarted, Execution!Init, PageInv, DispatchPhases, Oldest
<1>21. ASSUME NEW t \in TaskIds, BeginExecution(t) PROVE Contracted(x)
  BY <1>21 DEF BeginExecution, Execution!Next, Execution!Begin
<1>22. ASSUME NEW t \in TaskIds, NEW o \in {"CRASHED"} \cup Terminal,
              exec[t] \in {"spawned", "executing"},
              o # "FAILED" => exec[t] = "executing",
              o = "COMPLETED" => t \notin cancelSet, o = "CANCELLED" => t \in cancelSet,
              Settle(t, o) PROVE Contracted(x)
  BY <1>22 DEF Settle, Terminal, Execution!Next, Execution!Settle
<1>23. ASSUME NEW t \in TaskIds, WriteOutcome(t) PROVE Contracted(x)
  BY <1>23 DEF WriteOutcome
<1>24. ASSUME NEW t \in TaskIds, CommitOutcome(t) PROVE Contracted(x)
  BY <1>24 DEF CommitOutcome
<1>25. ASSUME NEW t \in TaskIds, ReportOutcome(t) PROVE Contracted(x)
  BY <1>25 DEF ReportOutcome
<1>26. CASE Crash
  BY <1>26 DEF Crash
<1>27. CASE UNCHANGED vars
  BY <1>27 DEF vars
<1> QED BY StepCases, <1>1, <1>2, <1>3, <1>4, <1>5, <1>6, <1>7, <1>8, <1>9, <1>10, <1>11,
          <1>12, <1>13, <1>14, <1>15, <1>16, <1>17, <1>18, <1>19, <1>20, <1>21,
          <1>22, <1>23, <1>24, <1>25, <1>26, <1>27

\* Every execution of the queue, from the moment it is spawned until it has reported or the
\* bot crashes, does what ExecutionOutcome says: what TaskExecution and TaskReport are shown
\* to do, each on its own (task_executor.py, execute; queue_worker.py, _run_task).
THEOREM ExecutionsKeepContract == Spec => [][\A x \in TaskIds : Contracted(x)]_vars
<1>1. Init => UndecidedInv
  BY DEF Init, UndecidedInv
<1>2. IInv /\ UndecidedInv /\ [Next]_vars => [\A x \in TaskIds : Contracted(x)]_vars
  BY ContractedStep
<1> QED BY <1>1, <1>2, UndecidedStep, Invariance, PTL DEF Spec

\* And the queue takes whatever the contract lets an execution do at its end: each way to
\* settle that ExecutionOutcome allows is a step of the queue, so nothing that is proved of
\* the queue excludes it.
THEOREM QueueTakesContract ==
    ASSUME NEW t \in TaskIds, TypeOK, exec[t] \in {"spawned", "executing"}, SubmitterAhead(t),
           Execution(t)!Next, ExecutionStage(t)' = "settled",
           exec' = [exec EXCEPT ![t] = "write"],
           outcome' = [outcome EXCEPT ![t] = outcome'[t]],
           cancelSet' \in SUBSET TaskIds, cancelSet' \ {t} = cancelSet \ {t},
           UNCHANGED <<status, durable, job, dispatcher, running, page, cancel, owner, runs, crashes>>
    PROVE  Executing(t)
<1> USE DEF TypeOK, ExecutionStage
<1>1. PICK o \in {"COMPLETED", "FAILED", "CANCELLED", "CRASHED"} :
        /\ Execution(t)!Settle(o)
        /\ o = "COMPLETED" => exec[t] = "executing" /\ t \notin cancelSet
        /\ o = "CANCELLED" => exec[t] = "executing" /\ t \in cancelSet
        /\ o = "CRASHED" => exec[t] = "executing"
  BY DEF Execution!Next, Execution!RequestCancel, Execution!Begin
<1>2. outcome'[t] = o /\ (t \in cancelSet' <=> t \in cancelSet /\ o = "CRASHED")
  BY <1>1 DEF Execution!Settle
<1>3. cancelSet' = IF o = "CRASHED" THEN cancelSet ELSE cancelSet \ {t}
  BY <1>2
<1>4. Settle(t, o)
  BY <1>2, <1>3 DEF Settle
<1>5. CASE exec[t] = "spawned"
  BY <1>1, <1>4, <1>5 DEF Executing, ProjectGone
<1>6. CASE exec[t] = "executing"
  BY <1>1, <1>4, <1>6 DEF Executing, StartFails, ProcessEnds, ProcessCancelled, ExecutionCrashes
<1> QED BY <1>5, <1>6

-----------------------------------------------------------------------------
(* First come, first served, under the default limit of one task.            *)

\* Ids are handed out in order, and nothing is started, nor about to be, while
\* an older task waits.
FifoInv ==
    /\ \A t, u \in TaskIds : t < u =>
          /\ status[u] # "absent" => status[t] # "absent"
          /\ durable[u] # "absent" => durable[t] # "absent"
          /\ runs[u] > 0 \/ exec[u] # "none" => status[t] # "PENDING" /\ durable[t] # "PENDING"
    /\ dispatcher \in DispatchPhases /\ ~(dispatcher = "scan" /\ running >= 1) =>
          \A t \in TaskIds : \A u \in page : status[t] = "PENDING" /\ t < u => t \in page
    /\ dispatcher \in {"mark", "commit"} => running >= 1
    /\ \A c \in Cancellers : cancel[c].at = "write" => status[cancel[c].task] # "absent"

\* With the limit at one, nothing is busy as long as the loop has counted nothing.
LEMMA NothingBusy ==
    ASSUME Capacity = 1, TypeOK, CountInv, dispatcher \in {"scan", "session"},
           running < Capacity, NEW t \in TaskIds
    PROVE  ~ProjectBusy(t) /\ ~SessionBusy(t)
<1>1. IsFiniteSet(Running) /\ Cardinality(Running) \in Nat
  BY SmallerSet DEF Running
<1>2. Cardinality(Running) = 0
  BY <1>1 DEF TypeOK, CountInv
<1>3. Running = {}
  BY <1>1, <1>2, FS_EmptySet
<1> QED BY <1>3 DEF ProjectBusy, SessionBusy

\* A page holds every waiting task that is older than one of its tasks.
LEMMA PageIsPrefix ==
    ASSUME NEW t \in TaskIds, NEW u \in NextPending, status[t] = "PENDING", t < u
    PROVE  t \in NextPending
<1> DEFINE before(x) == {v \in TaskIds : status[v] = "PENDING" /\ v < x}
<1>1. before(t) \subseteq before(u)
  BY DEF NextPending, TaskIds
<1>2. /\ Cardinality(before(t)) \in Nat /\ Cardinality(before(u)) \in Nat
      /\ Cardinality(before(t)) <= Cardinality(before(u))
  BY <1>1, SmallerSet
<1>3. \A x \in TaskIds : before(x) =
          {v \in {w \in TaskIds : status[w] = "PENDING"} : v < x}
  OBVIOUS
<1>4. Cardinality(before(u)) < PageSize
  BY <1>3 DEF NextPending
<1>5. Cardinality(before(t)) < PageSize
  BY <1>2, <1>4, QueueAssumption
<1> QED BY <1>3, <1>5 DEF NextPending

\* FifoInv is inductive when the limit is one.
LEMMA FifoStep ==
    ASSUME Capacity = 1, IInv, FifoInv, [Next]_vars
    PROVE  FifoInv'
<1> USE QueueAssumption DEF IInv, TypeOK, Status, Terminal, ExecInv, PageInv,
       DurableInv, DispatchPhases, Oldest, FifoInv
<1>1. ASSUME NEW t \in TaskIds, NEW j \in Jobs, InsertTask(t, j) PROVE FifoInv'
  BY <1>1 DEF InsertTask
<1>2. ASSUME NEW t \in TaskIds, CommitTask(t) PROVE FifoInv'
  BY <1>2 DEF CommitTask
<1>3. ASSUME NEW t \in TaskIds, SenderTimeout(t) PROVE FifoInv'
  BY <1>3 DEF SenderTimeout
<1>4. ASSUME NEW c \in Cancellers, NEW t \in TaskIds, CancelRead(c, t) PROVE FifoInv'
  BY <1>4 DEF CancelRead
<1>5. ASSUME NEW c \in Cancellers, CancelRequest(c) PROVE FifoInv'
  BY <1>5 DEF CancelRequest, Idle, Done
<1>6. ASSUME NEW c \in Cancellers, CancelWrite(c) PROVE FifoInv'
  <2>1. cancel[c].task \in TaskIds /\ status[cancel[c].task] # "absent"
    BY <1>6 DEF CancelWrite, Idle, Done
  <2> QED BY <1>6, <2>1 DEF CancelWrite
<1>7. ASSUME NEW c \in Cancellers, CancelCommit(c) PROVE FifoInv'
  BY <1>7 DEF CancelCommit
<1>8. ASSUME NEW c \in Cancellers, CancelTell(c) PROVE FifoInv'
  BY <1>8 DEF CancelTell, Idle, Done
<1>9. CASE ReadInterrupted
  BY <1>9 DEF ReadInterrupted
<1>10. CASE Recovered
  BY <1>10 DEF Recovered
<1>11. CASE StartWorker
  BY <1>11 DEF StartWorker
<1>12. ASSUME NEW t \in TaskIds, RecoverTask(t) PROVE FifoInv'
  BY <1>12 DEF RecoverTask
<1>13. ASSUME NEW t \in TaskIds, NotifyInterrupted(t) PROVE FifoInv'
  BY <1>13 DEF NotifyInterrupted
<1>14. CASE CountRunning
  BY <1>14 DEF CountRunning
<1>15. CASE SelectPending
  <2>1. page' = NextPending /\ UNCHANGED <<status, durable, exec, runs, cancel, running>>
        /\ dispatcher' = "scan"
    BY <1>15 DEF SelectPending
  <2>2. \A t \in TaskIds : \A u \in page' : status'[t] = "PENDING" /\ t < u => t \in page'
    BY <2>1, PageIsPrefix
  <2> QED BY <2>1, <2>2
<1>16. CASE EndDispatch
  BY <1>16 DEF EndDispatch
<1>17. ASSUME NEW t \in TaskIds, CheckProject(t) PROVE FifoInv'
  <2>1. ~ProjectBusy(t)
    BY <1>17, NothingBusy DEF CheckProject
  <2> QED BY <1>17, <2>1 DEF CheckProject, SkipOrGoOn
<1>18. ASSUME NEW t \in TaskIds, CheckSession(t) PROVE FifoInv'
  <2>1. ~SessionBusy(t)
    BY <1>18, NothingBusy DEF CheckSession, CountInv
  <2> QED BY <1>18, <2>1 DEF CheckSession, SkipOrGoOn
<1>19. ASSUME NEW t \in TaskIds, MarkStarted(t) PROVE FifoInv'
  BY <1>19 DEF MarkStarted
<1>20. ASSUME NEW t \in TaskIds, CommitStarted(t) PROVE FifoInv'
  <2>1. \A x \in TaskIds : x < t => status[x] # "PENDING"
    BY <1>20 DEF CommitStarted, TaskIds
  <2>2. page' \subseteq page /\ running' = running /\ running >= 1 /\ dispatcher' = "scan"
    BY <1>20 DEF CommitStarted
  <2> QED BY <1>20, <2>1, <2>2 DEF CommitStarted
<1>21. ASSUME NEW t \in TaskIds, BeginExecution(t) PROVE FifoInv'
  BY <1>21 DEF BeginExecution
<1>22. ASSUME NEW t \in TaskIds, NEW o \in {"CRASHED"} \cup Terminal,
              exec[t] \in {"spawned", "executing"}, Settle(t, o) PROVE FifoInv'
  BY <1>22 DEF Settle
<1>23. ASSUME NEW t \in TaskIds, WriteOutcome(t) PROVE FifoInv'
  BY <1>23 DEF WriteOutcome
<1>24. ASSUME NEW t \in TaskIds, CommitOutcome(t) PROVE FifoInv'
  BY <1>24 DEF CommitOutcome
<1>25. ASSUME NEW t \in TaskIds, ReportOutcome(t) PROVE FifoInv'
  BY <1>25 DEF ReportOutcome
<1>26. CASE Crash
  BY <1>26 DEF Crash, Idle, Done
<1>27. CASE UNCHANGED vars
  BY <1>27 DEF vars
<1> QED BY StepCases, <1>1, <1>2, <1>3, <1>4, <1>5, <1>6, <1>7, <1>8, <1>9, <1>10, <1>11,
          <1>12, <1>13, <1>14, <1>15, <1>16, <1>17, <1>18, <1>19, <1>20, <1>21,
          <1>22, <1>23, <1>24, <1>25, <1>26, <1>27

\* With max_concurrent_tasks = 1 tasks are started oldest first (queue_worker.py:8).
THEOREM FirstComeFirstServed == ASSUME Capacity = 1 PROVE Spec => []OldestFirst
<1>1. Init => FifoInv
  BY DEF Init, FifoInv, DispatchPhases, Idle
<1>2. IInv /\ FifoInv /\ [Next]_vars => FifoInv'
  BY FifoStep
<1>3. FifoInv => OldestFirst
  BY DEF FifoInv, OldestFirst
<1> QED BY <1>1, <1>2, <1>3, Invariance, PTL DEF Spec
=============================================================================
