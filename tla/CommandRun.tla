------------------------------ MODULE CommandRun ------------------------------
(***************************************************************************)
(* One CommandRunner.run of core/process.py: the command in a process      *)
(* group of its own, communicate under the mandatory timeout, and the      *)
(* termination of the group when the timeout expires.  Every capability    *)
(* (system, network, VPN, Docker, desktop, camera, microphone, power) runs *)
(* its commands this way.                                                  *)
(*                                                                         *)
(* Time is a discrete clock that advances only while the call waits.  That *)
(* a process has exited and that the loop has reaped it are one event.     *)
(***************************************************************************)
EXTENDS Naturals

CONSTANTS
    Limit,     \* the timeout of the call
    Grace,     \* _KILL_GRACE_SECONDS
    Horizon    \* how far the clock goes (model bound)

VARIABLES
    now,       \* the clock
    pc,        \* where run and _terminate_group stand
    deadline,  \* when the current wait_for gives up
    leader,    \* the command
    helper,    \* a process it started that has the pipes open: in its process
               \* group, or detached from it
    signal,    \* the last signal the group got
    result     \* what run returns or raises

vars == <<now, pc, deadline, leader, helper, signal, result>>

Exited == leader \in {"ok", "failed"}

Init ==
    /\ now = 0
    /\ pc = "start"
    /\ deadline = 0
    /\ leader = "none"
    /\ helper = "none"
    /\ signal = "none"
    /\ result = "none"

Return(r) == pc' = "done" /\ result' = r

\* signal_group: the group is found through its leader, so that nothing is sent
\* once that is gone.  A SIGKILL ends the other members of the group at once.
Signal(s) ==
    IF leader = "running"
      THEN /\ signal' = s
           /\ helper' = IF s = "KILL" /\ helper = "group" THEN "none" ELSE helper
      ELSE UNCHANGED <<signal, helper>>

\* The binary is not on PATH, or it cannot be started.
NotStarted ==
    /\ pc = "start"
    /\ Return("error")
    /\ UNCHANGED <<now, deadline, leader, helper, signal>>

Spawn ==
    /\ pc = "start"
    /\ pc' = "waiting"
    /\ leader' = "running"
    /\ deadline' = now + Limit
    /\ UNCHANGED <<now, helper, signal, result>>

\* Mutant of Communicated: run waits for the exit instead of the end of output.
ExitAwaited ==
    /\ pc = "waiting"
    /\ Exited
    /\ Return(leader)
    /\ UNCHANGED <<now, deadline, leader, helper, signal>>

\* communicate: the command has exited and nobody has its pipes open any more.
Communicated ==
    /\ pc = "waiting"
    /\ Exited
    /\ helper = "none"
    /\ Return(leader)
    /\ UNCHANGED <<now, deadline, leader, helper, signal>>

\* Mutant of Expires: the command gets its whole timeout once more, and the grace period.
ExpiresWithLimit ==
    /\ pc = "waiting"
    /\ now >= deadline
    /\ Signal("TERM")
    /\ pc' = "term"
    /\ deadline' = now + Limit + Grace
    /\ UNCHANGED <<now, leader, result>>

\* The timeout: SIGTERM to the group.
Expires ==
    /\ pc = "waiting"
    /\ now >= deadline
    /\ Signal("TERM")
    /\ pc' = "term"
    /\ deadline' = now + Grace
    /\ UNCHANGED <<now, leader, result>>

\* The command does not react: SIGKILL to the group.
TermExpires ==
    /\ pc = "term"
    /\ now >= deadline
    /\ Signal("KILL")
    /\ pc' = "kill"
    /\ deadline' = now + Grace
    /\ UNCHANGED <<now, leader, result>>

\* The command is gone: CommandTimeoutError.
Terminated ==
    /\ pc \in {"term", "kill"}
    /\ Exited
    /\ Return("timeout")
    /\ UNCHANGED <<now, deadline, leader, helper, signal>>

\* Mutant of KillExpires: the wait for a killed command has no timeout.
KillNeverExpires == FALSE /\ UNCHANGED vars

\* It is not, and run gives up on it: CommandTimeoutError as well.
KillExpires ==
    /\ pc = "kill"
    /\ now >= deadline
    /\ Return("timeout")
    /\ UNCHANGED <<now, deadline, leader, helper, signal>>

-----------------------------------------------------------------------------
(* The command, and the clock.                                               *)

\* The command exits, by itself or on a signal.
LeaderExits ==
    /\ leader = "running"
    /\ \/ leader' = "failed"
       \/ signal # "KILL" /\ leader' = "ok"
    /\ UNCHANGED <<now, pc, deadline, helper, signal, result>>

\* It starts a process that inherits its pipes.
Forks ==
    /\ leader = "running"
    /\ signal # "KILL"
    /\ helper = "none"
    /\ helper' \in {"group", "detached"}
    /\ UNCHANGED <<now, pc, deadline, leader, signal, result>>

HelperEnds ==
    /\ helper # "none"
    /\ helper' = "none"
    /\ UNCHANGED <<now, pc, deadline, leader, signal, result>>

\* A killed process may still be around for a while.
Waiting ==
    \/ pc = "waiting" /\ ~(Exited /\ helper = "none") /\ now < deadline
    \/ pc \in {"term", "kill"} /\ leader = "running" /\ now < deadline

Tick ==
    /\ Waiting
    /\ now < Horizon
    /\ now' = now + 1
    /\ UNCHANGED <<pc, deadline, leader, helper, signal, result>>

Run ==
    \/ NotStarted \/ Spawn \/ Communicated \/ Expires
    \/ TermExpires \/ Terminated \/ KillExpires

Next == Run \/ LeaderExits \/ Forks \/ HelperEnds \/ Tick

\* The loop goes on and time passes; no process has to end.
Fairness == WF_vars(Run) /\ WF_vars(Tick)

Spec == Init /\ [][Next]_vars
FairSpec == Spec /\ Fairness

-----------------------------------------------------------------------------

TypeOK ==
    /\ now \in Nat
    /\ pc \in {"start", "waiting", "term", "kill", "done"}
    /\ deadline \in Nat
    /\ leader \in {"none", "running", "ok", "failed"}
    /\ helper \in {"none", "group", "detached"}
    /\ signal \in {"none", "TERM", "KILL"}
    /\ result \in {"none", "error", "ok", "failed", "timeout"}

\* "no external process can block the bot indefinitely" (process.py:8): a call is
\* over after its timeout and the two grace periods, whatever keeps running.
EndsInTime == pc # "done" => now <= Limit + Grace + Grace

\* What run returns is the whole output: nobody can write to the pipes any more.
WholeOutput == [][result' \in {"ok", "failed"} /\ result = "none" => helper = "none"]_vars

\* A timeout is reported only after the command was told to end, with the SIGKILL
\* if it had not exited by then.
ToldToEnd ==
    pc = "done" /\ leader = "running" => signal = "KILL"

\* The SIGKILL takes the whole group with it ("Terminate the process group
\* (SIGTERM, then SIGKILL)", process.py:181).
KillTakesGroup == signal = "KILL" => helper # "group"

\* Every call returns, even if the command and all it started run for ever.
AlwaysReturns == <>(pc = "done")
=============================================================================
