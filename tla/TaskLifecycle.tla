--------------------------- MODULE TaskLifecycle ---------------------------
(***************************************************************************)
(* What the queue promises about each task, whatever the interleaving of   *)
(* handlers, dispatch loop, executions and crashes: once its row is        *)
(* durable it is queued, OpenCode is started for it at most once, and a    *)
(* task that is over stays over.  One database commit can make several     *)
(* rows durable and one crash can end several executions, so a step moves  *)
(* any number of tasks, each along one arc.                                *)
(***************************************************************************)

CONSTANT Task

VARIABLE stage

Arcs == { <<"new", "queued">>, <<"new", "started">>, <<"new", "over">>,
          <<"queued", "started">>, <<"queued", "over">>, <<"started", "over">> }

Init == stage = [t \in Task |-> "new"]

Next ==
    /\ DOMAIN stage' = Task
    /\ \A t \in Task : stage'[t] = stage[t] \/ <<stage[t], stage'[t]>> \in Arcs

Spec == Init /\ [][Next]_stage
=============================================================================
