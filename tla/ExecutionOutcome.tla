-------------------------- MODULE ExecutionOutcome --------------------------
(***************************************************************************)
(* What the worker may expect of one execution, and what TaskQueue assumes *)
(* of each: it begins once, settles on one outcome, is CANCELLED exactly   *)
(* when its cancel event was set before it looked, and drops the event     *)
(* unless it crashed.                                                      *)
(***************************************************************************)

VARIABLES stage, event, outcome

vars == <<stage, event, outcome>>

Init ==
    /\ stage = "spawned"
    /\ event \in BOOLEAN
    /\ outcome = "none"

RequestCancel ==
    /\ event' = TRUE
    /\ UNCHANGED <<stage, outcome>>

Begin ==
    /\ stage = "spawned"
    /\ stage' = "executing"
    /\ UNCHANGED <<event, outcome>>

Settle(o) ==
    /\ stage' = "settled"
    /\ outcome' = o
    /\ event' = (event /\ o = "CRASHED")

Next ==
    \/ RequestCancel
    \/ Begin
    \/ stage \in {"spawned", "executing"} /\ Settle("FAILED")
    \/ stage = "executing" /\ ~event /\ Settle("COMPLETED")
    \/ stage = "executing" /\ event /\ Settle("CANCELLED")
    \/ stage = "executing" /\ Settle("CRASHED")

Spec == Init /\ [][Next]_vars
=============================================================================
