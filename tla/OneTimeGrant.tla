----------------------------- MODULE OneTimeGrant -----------------------------
(***************************************************************************)
(* What the power commands promise about one request: it can be used once, *)
(* while it is valid, and never again after it was used or is void; only   *)
(* what was granted is done, only what was done is recorded for good, and  *)
(* only what is recorded is reported as executed.                          *)
(***************************************************************************)
EXTENDS Naturals

VARIABLES time, grant, expires, done, recorded, told

vars == <<time, grant, expires, done, recorded, told>>

Init ==
    /\ time = 0
    /\ grant = "none"
    /\ expires = 0
    /\ done = FALSE
    /\ recorded = FALSE
    /\ told = FALSE

Offer ==
    /\ grant = "none"
    /\ grant' = "open"
    /\ expires' > time
    /\ UNCHANGED <<time, done, recorded, told>>

Use ==
    /\ grant = "open"
    /\ time < expires
    /\ grant' = "used"
    /\ UNCHANGED <<time, expires, done, recorded, told>>

Void ==
    /\ grant = "open"
    /\ grant' = "void"
    /\ UNCHANGED <<time, expires, done, recorded, told>>

Act ==
    /\ grant = "used"
    /\ done' = TRUE
    /\ UNCHANGED <<time, grant, expires, recorded, told>>

Record ==
    /\ done
    /\ recorded' = TRUE
    /\ told' \in {told, TRUE}
    /\ UNCHANGED <<time, grant, expires, done>>

Tick ==
    /\ time' = time + 1
    /\ UNCHANGED <<grant, expires, done, recorded, told>>

Next == Offer \/ Use \/ Void \/ Act \/ Record \/ Tick

Spec == Init /\ [][Next]_vars
=============================================================================
