---------------------------- MODULE HealthRounds ----------------------------
(***************************************************************************)
(* The health loop (HealthMonitor) together with the commands it waits for *)
(* (CommandRun): the check of Docker runs a command, that of the VPN two,  *)
(* those of the system and of the network read files in place.  What a     *)
(* command says is how the service was when it exited; how the check ends  *)
(* is up to how the call ends.                                             *)
(*                                                                         *)
(* One call is followed at a time, each with a clock of its own; what      *)
(* outlives a call that gave up on it is not followed any further.         *)
(***************************************************************************)
EXTENDS Naturals

CONSTANTS
    Services,  \* how many services are checked
    Vpn,       \* those whose check runs `nordvpn status` and `nordvpn settings`
    Docker,    \* those whose check runs `docker ps`
    Absent,    \* those that are not set up (a bot without VPN)
    Limit,     \* the timeout of these commands
    Grace,     \* _KILL_GRACE_SECONDS
    Horizon    \* how far the clock of a call goes (model bound)

ASSUME RoundsAssumption ==
    /\ Services \in Nat
    /\ Vpn \subseteq 1..Services /\ Docker \subseteq 1..Services
    /\ Absent \subseteq 1..Services
    /\ Vpn \cap Docker = {} /\ Absent \cap (Vpn \cup Docker) = {}
    /\ Limit \in Nat /\ Grace \in Nat /\ Horizon \in Nat

VARIABLES
    settings, \* whether the check of the VPN is at its second command
    real, pc, next, sight, checks, last, stop, before, alerted, standing, \* HealthMonitor
    call, now, deadline, leader, helper, signal, result                   \* CommandRun

Monitor == INSTANCE HealthMonitor WITH Excused <- Docker
Run == INSTANCE CommandRun WITH pc <- call

monitorVars == <<real, pc, next, sight, checks, last, stop, before, alerted, standing>>
runVars == <<call, now, deadline, leader, helper, signal, result>>
vars == <<settings, real, pc, next, sight, checks, last, stop, before, alerted, standing,
          call, now, deadline, leader, helper, signal, result>>

Init == settings = FALSE /\ Monitor!Init /\ Run!Init

\* The loop is at a check that runs a command.
Asking == pc = "check" /\ next \in Vpn \cup Docker

\* The call goes on, and so does what the command has started.
Calls == Asking /\ Run!Run /\ UNCHANGED <<settings, monitorVars>>
Surrounds == Asking /\ (Run!Forks \/ Run!HelperEnds) /\ UNCHANGED <<settings, monitorVars>>
Ticks == Asking /\ Run!Tick /\ UNCHANGED <<settings, monitorVars>>

\* The command exits, by itself or by the signal it got.  It tells the state of the
\* service, and does not fail by itself unless that is out of order.
Answers ==
    /\ Asking
    /\ ~settings
    /\ Run!LeaderExits
    /\ signal = "none" /\ leader' = "failed" => real[next] = 1
    /\ Monitor!Look
    /\ UNCHANGED settings

\* `nordvpn settings` exits: what it says is no part of the result.
AnswersSettings ==
    /\ Asking
    /\ settings
    /\ Run!LeaderExits
    /\ UNCHANGED <<settings, monitorVars>>

\* The next call knows nothing of this one.
Forget ==
    /\ call' = "start" /\ now' = 0 /\ deadline' = 0
    /\ leader' = "none" /\ helper' = "none" /\ signal' = "none" /\ result' = "none"

\* `nordvpn status` runs with check=False: it has answered, however it exited, unless
\* there is no status in its output.
AsksSettings ==
    /\ Asking
    /\ next \in Vpn
    /\ ~settings
    /\ result \in {"ok", "failed"}
    /\ settings' = TRUE
    /\ Forget
    /\ UNCHANGED monitorVars

\* The check ends with what the command said.  A connected VPN is never told without
\* its settings having been asked for; that they could not be had is ignored.
Answered ==
    /\ Asking
    /\ \/ next \in Docker /\ result = "ok"
       \/ next \in Vpn /\ ~settings /\ result \in {"ok", "failed"} /\ sight = 1
       \/ next \in Vpn /\ settings /\ result # "none"
    /\ Monitor!Check
    /\ settings' = FALSE
    /\ Forget

\* The call raises: CommandNotFoundError or OSError, CommandTimeoutError, and
\* CommandFailedError for Docker.  Docker's OSError is excused; the settings of the
\* VPN can only raise OSError.
Unanswered ==
    /\ Asking
    /\ \/ result = "error"
       \/ result = "timeout" /\ ~settings
       \/ result = "failed" /\ next \in Docker
    /\ \E r \in {1, 2} : (r = 1 => result = "error") /\ Monitor!Fails(r)
    /\ settings' = FALSE
    /\ Forget

\* A check that runs no command.
InPlace ==
    /\ ~Asking
    /\ Monitor!Look \/ Monitor!Check \/ Monitor!Fails(2)
    /\ UNCHANGED <<settings, runVars>>

\* The rest of the loop.
Turns ==
    /\ Monitor!Checked \/ Monitor!Report \/ Monitor!Reported \/ Monitor!Wake
    /\ UNCHANGED <<settings, runVars>>

Control == (Monitor!Start \/ Monitor!Stop) /\ UNCHANGED <<settings, runVars>>
Changes(n) == Monitor!Changes(n) /\ UNCHANGED <<settings, runVars>>

Loop == Calls \/ AsksSettings \/ Answered \/ Unanswered \/ InPlace \/ Turns

Next ==
    \/ Loop \/ Ticks \/ Surrounds \/ Answers \/ AnswersSettings
    \/ Control
    \/ \E n \in 1..Services : Changes(n)

(* The event loop goes on and time passes.  No command has to end.          *)
Fairness == WF_vars(Loop) /\ WF_vars(Ticks)

Spec == Init /\ [][Next]_vars
FairSpec == Spec /\ Fairness

-----------------------------------------------------------------------------

TypeOK == settings \in BOOLEAN /\ Monitor!TypeOK /\ Run!TypeOK

\* "no external process can block the bot indefinitely" (process.py:8): a call is over
\* after its timeout and the two grace periods, whatever keeps running.
EndsInTime == Run!EndsInTime

\* What run returns is the whole output: nobody can write to the pipes any more.
WholeOutput == Run!WholeOutput

\* "proactive alerts are only sent on degradation" (pc-control.md:85): a round alerts
\* about exactly the checks that are worse than in the round before, also if these
\* were given up, although the services change and commands hang meanwhile.
AlertsAreDegradations == Monitor!AlertsAreDegradations

\* A service that stays out of order becomes known as warn or error and remains so,
\* although its commands may answer, fail, hang, or leave processes behind that keep
\* their pipes open.
OutageNoticed == Monitor!OutageNoticed

\* The rounds with their commands are those of HealthMonitor, which knows no commands:
\* also they go on for ever, since every call returns.
ImplementsMonitor == Monitor!FairSpec
=============================================================================
