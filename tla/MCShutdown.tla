------------------------------ MODULE MCShutdown ------------------------------
(* Shutdown for TLC: two tasks, two starts, and one file that is played.         *)
EXTENDS Shutdown
CONSTANTS t1, t2, p1
MCTasks == {t1, t2}
MCPlays == {p1}
===============================================================================
