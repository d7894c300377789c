------------------------- MODULE MCPowerConfirmation -------------------------
(* PowerConfirmation for TLC: an admin and a read-only user, two actions.    *)
EXTENDS PowerConfirmation
CONSTANTS admin, guest, reboot, sleep
MCUsers == {admin, guest}
MCReadOnly == {guest}
MCActions == {reboot, sleep}
=============================================================================
