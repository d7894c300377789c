---------------------------- MODULE MCTaskQueue ----------------------------
(* Small instances of TaskQueue: two projects, one conversation in the first; *)
(* and a scenario of three tasks without conversations for the liveness of    *)
(* the queue, where a page of one is headed by a task that cannot start.      *)
EXTENDS TaskQueue

CONSTANTS p1, p2, s1

MCProjects == {p1, p2}
MCSessions == {s1}
MCSessionProject == [s \in MCSessions |-> p1]
MCNoSessions == {}
MCNoSessionProject == [s \in MCNoSessions |-> p1]

\* The first two tasks share a project: while the first runs and the second heads
\* the page, the third waits although a slot and its project are free.
PagedOut == \A t \in TaskIds : job[t] # NoJob => job[t].project = IF t = 3 THEN p2 ELSE p1

\* One disturbance: a crash, or a /cancel that finds the task at the head of the page
\* waiting (and may be overtaken by its start).
Disturbed ==
    /\ crashes + Cardinality({c \in Cancellers : cancel[c] # Idle}) <= 1
    /\ \A c \in Cancellers : cancel[c].task \in {0, 2} /\ cancel[c].at # "request"

PagedOutSpec == Init /\ [][Next /\ PagedOut' /\ Disturbed']_vars /\ Fairness
=============================================================================
