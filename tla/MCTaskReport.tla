----------------------------- MODULE MCTaskReport -----------------------------
(* TaskReport for TLC: the constants are numbers and come from the .cfg.       *)
EXTENDS TaskReport
=============================================================================
