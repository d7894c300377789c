---------------------------- MODULE MCHealthRounds ----------------------------
(* HealthRounds for TLC: the first service is read in place, the second is the   *)
(* VPN with its two commands, the third Docker with its one.                     *)
EXTENDS HealthRounds
MCVpn == {2}
MCDocker == {3}

\* Nothing changes about the first service, though its check may raise.
FirstInOrder == real[1] = 0
MCInit == Init /\ FirstInOrder
MCSpec == MCInit /\ [][Next /\ FirstInOrder']_vars /\ Fairness
===============================================================================
