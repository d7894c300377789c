----------------------------- MODULE MCSessions -----------------------------
(* Small instances of Sessions: two projects, the first one the default.     *)
EXTENDS Sessions

CONSTANTS p1, p2

MCProjects == {p1, p2}
MCOneProject == {p1}
=============================================================================
