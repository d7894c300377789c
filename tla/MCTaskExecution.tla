-------------------------- MODULE MCTaskExecution --------------------------
(* One execution with a timeout of three ticks and a grace period of one.    *)
EXTENDS TaskExecution
=============================================================================
