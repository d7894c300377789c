------------------------------- MODULE PcControl -------------------------------
(***************************************************************************)
(* The PC-control commands: /vpn, /vpn_dedicated, /vpn_change,             *)
(* /vpn_status, /ip, /docker_restart, /docker_logs, /lock, /screenshot,    *)
(* /photo, /record_mic and the plain queries.  Each is a handler of        *)
(* commands/ that checks the user, has a manager of services/ run one or   *)
(* more system commands through CommandRunner, writes an audit row and     *)
(* answers; several handlers are under way at once and share the machine.  *)
(*                                                                         *)
(* A run of CommandRunner is what CommandRun shows it to be: the command   *)
(* exits, with or without success, or the run times out, and then what the *)
(* command was to do may still happen (nordvpn only talks to a daemon).    *)
(* Arguments, allowlists and installed tools are the early return Reject.  *)
(***************************************************************************)
EXTENDS Integers, Sequences, FiniteSets

CONSTANTS
    Updates,   \* messages with a PC-control command
    Nobody     \* no message: the network or another user of the machine

ASSUME PcAssumption == Nobody \notin Updates

VARIABLES
    tunnel,    \* is the VPN connected
    downBy,    \* whose command last disconnected it
    late,      \* what commands that timed out may still do
    file,      \* the file a capture writes
    did,       \* messages whose action was carried out
    kind,      \* the command of the message
    pc,        \* where its handler stands
    at,        \* the system command it is at
    took,      \* that command has done what it does
    audited,   \* messages with an audit row
    answer     \* what the user was sent: an error, a result or a file

machine == <<tunnel, downBy, late, file, did>>
handler == <<kind, pc, at, took, audited, answer>>
vars == <<machine, handler>>

\* The system commands of the managers, in order.
VpnStatus == <<"status", "settings">>
Connection == <<"connect">> \o VpnStatus
Reconnection == <<"disconnect">> \o Connection
NetworkStatus == <<"addr">>
ContainerRestart == <<"known", "restart">>
ContainerLogs == <<"known", "logs">>
Screenshot == <<"grim">>
Lock == <<"locker">>
Capture == <<"ffmpeg">>
Containers == <<"query">>

\* What each handler runs.  The dedicated server is a /vpn, a photo or a recording
\* a capture, and every other question that takes one command a query.
Script ==
    [vpn_status     |-> VpnStatus,
     ip             |-> NetworkStatus \o VpnStatus,
     vpn            |-> Connection,
     vpn_change     |-> Reconnection,
     docker_restart |-> ContainerRestart,
     docker_logs    |-> ContainerLogs,
     lock           |-> Lock,
     screenshot     |-> Screenshot,
     capture        |-> Capture,
     query          |-> Containers]

Kinds == DOMAIN Script
Captures == {"screenshot", "capture"}
Audited == Captures \cup {"vpn", "vpn_change", "docker_restart", "lock"}

\* The system commands that do what a message of an audited kind asks for.
Deeds == {"connect", "restart", "locker", "grim", "ffmpeg"}

Command(u) == Script[kind[u]][at[u]]

Init ==
    /\ tunnel \in BOOLEAN
    /\ downBy = Nobody
    /\ late = {}
    /\ file = [u \in Updates |-> "none"]
    /\ did = {}
    /\ kind = [u \in Updates |-> "query"]
    /\ pc = [u \in Updates |-> "idle"]
    /\ at = [u \in Updates |-> 1]
    /\ took = [u \in Updates |-> FALSE]
    /\ audited = {}
    /\ answer = [u \in Updates |-> "none"]

-----------------------------------------------------------------------------
(* The machine.                                                              *)

\* nordvpn connects or disconnects for message u.
Connects(u) ==
    /\ tunnel' = TRUE
    /\ did' = did \cup {u}
    /\ UNCHANGED downBy

Disconnects(u) ==
    /\ tunnel' = FALSE
    /\ downBy' = IF tunnel THEN u ELSE downBy
    /\ UNCHANGED did

\* The tunnel breaks, or somebody else disconnects it.
Drops ==
    /\ tunnel
    /\ Disconnects(Nobody)
    /\ UNCHANGED <<late, file, handler>>

\* A command that timed out has its effect after all, or never.
Straggles(u, c) ==
    /\ <<u, c>> \in late
    /\ late' = late \ {<<u, c>>}
    /\ \/ c = "connect" /\ Connects(u)
       \/ c = "disconnect" /\ Disconnects(u)
       \/ UNCHANGED <<tunnel, downBy, did>>
    /\ UNCHANGED <<file, handler>>

\* The running command does what it does.
Takes(u) ==
    /\ pc[u] = "running"
    /\ ~took[u]
    /\ took' = [took EXCEPT ![u] = TRUE]
    /\ file' = IF kind[u] \in Captures THEN [file EXCEPT ![u] = "whole"] ELSE file
    /\ CASE Command(u) = "connect"    -> Connects(u)
         [] Command(u) = "disconnect" -> Disconnects(u)
         [] OTHER -> /\ did' = IF Command(u) \in Deeds THEN did \cup {u} ELSE did
                     /\ UNCHANGED <<tunnel, downBy>>
    /\ UNCHANGED <<late, kind, pc, at, audited, answer>>

\* A capture is written bit by bit.
Writes(u) ==
    /\ pc[u] = "running"
    /\ kind[u] \in Captures
    /\ ~took[u]
    /\ file' = [file EXCEPT ![u] = "partial"]
    /\ UNCHANGED <<tunnel, downBy, late, did, handler>>

-----------------------------------------------------------------------------
(* The handlers.                                                             *)

Tell(u, a) ==
    /\ pc' = [pc EXCEPT ![u] = "done"]
    /\ answer' = [answer EXCEPT ![u] = a]

\* The result is complete: to the audit row, or straight to the answer.
Finish(u) ==
    /\ pc' = [pc EXCEPT ![u] = IF kind[u] \in Audited THEN "audit" ELSE "tell"]
    /\ UNCHANGED <<at, answer>>

Proceed(u) ==
    IF at[u] = Len(Script[kind[u]])
      THEN Finish(u)
      ELSE /\ at' = [at EXCEPT ![u] = @ + 1]
           /\ pc' = [pc EXCEPT ![u] = "ready"]
           /\ UNCHANGED answer

GiveUp(u) == Tell(u, "error") /\ UNCHANGED at

Arrive(u, k) ==
    /\ pc[u] = "idle"
    /\ kind' = [kind EXCEPT ![u] = k]
    /\ pc' = [pc EXCEPT ![u] = "ready"]
    /\ UNCHANGED <<machine, at, took, audited, answer>>

\* The user may not, the capability is missing, or the argument is no good.
Reject(u) ==
    /\ pc[u] = "ready"
    /\ at[u] = 1
    /\ GiveUp(u)
    /\ UNCHANGED <<machine, kind, took, audited>>

\* The next system command.  A screenshot has its file created for it first.
Begin(u) ==
    /\ pc[u] = "ready"
    /\ pc' = [pc EXCEPT ![u] = "running"]
    /\ took' = [took EXCEPT ![u] = FALSE]
    /\ file' = IF kind[u] = "screenshot" THEN [file EXCEPT ![u] = "empty"] ELSE file
    /\ UNCHANGED <<tunnel, downBy, late, did, kind, at, audited, answer>>

Succeeds(u) ==
    /\ pc[u] = "running"
    /\ took[u]
    /\ Proceed(u)
    /\ UNCHANGED <<machine, kind, took, audited>>

\* Mutant of IgnoresExit: a reconnection does not look at how connect ended.
IgnoresEveryExit(u) == Command(u) \in {"disconnect", "connect", "settings", "addr"}

\* The exit code of disconnect and settings is not looked at, and ip has a fallback.
IgnoresExit(u) == Command(u) \in {"disconnect", "settings", "addr"}

\* Any other exit.  A status without output is shown as such.
Fails(u) ==
    /\ pc[u] = "running"
    /\ CASE IgnoresExit(u) -> Proceed(u)
         [] Command(u) = "status" -> Finish(u)
         [] OTHER -> GiveUp(u)
    /\ file' = IF kind[u] = "capture" THEN [file EXCEPT ![u] = "none"] ELSE file
    /\ UNCHANGED <<tunnel, downBy, late, did, kind, took, audited>>

\* Exit code 0 and nothing captured.
Empty(u) ==
    /\ pc[u] = "running"
    /\ kind[u] \in Captures
    /\ file[u] \in {"none", "empty"}
    /\ file' = [file EXCEPT ![u] = "none"]
    /\ GiveUp(u)
    /\ UNCHANGED <<tunnel, downBy, late, did, kind, took, audited>>

\* What a command that is no longer waited for may still do.
Abandon(u) ==
    late' = IF Command(u) \in {"connect", "disconnect"} /\ ~took[u]
              THEN late \cup {<<u, Command(u)>>} ELSE late

\* Mutant of IgnoresTimeout: a reconnection goes on whatever disconnect did.
IgnoresDisconnect(u) == Command(u) \in {"disconnect", "settings", "addr"}

\* Mutant of IgnoresTimeout: any CommandError of ffmpeg is settled by looking at
\* the size of the file.
IgnoresFfmpeg(u) ==
    \/ Command(u) \in {"settings", "addr"}
    \/ Command(u) = "ffmpeg" /\ file[u] # "none"

\* CommandTimeoutError is caught for settings and ip.
IgnoresTimeout(u) == Command(u) \in {"settings", "addr"}

\* Mutant of TimesOut: only what can fail the handler is given a limit.
TimesOutStrictly(u) ==
    /\ pc[u] = "running"
    /\ ~IgnoresTimeout(u)
    /\ GiveUp(u)
    /\ Abandon(u)
    /\ UNCHANGED <<tunnel, downBy, file, did, kind, took, audited>>

\* The run times out.  /ip shows the error of the VPN status.  A file stays.
TimesOut(u) ==
    /\ pc[u] = "running"
    /\ CASE IgnoresTimeout(u) -> Proceed(u)
         [] Command(u) = "status" /\ kind[u] = "ip" -> Finish(u)
         [] OTHER -> GiveUp(u)
    /\ Abandon(u)
    /\ UNCHANGED <<tunnel, downBy, file, did, kind, took, audited>>

Audit(u) ==
    /\ pc[u] = "audit"
    /\ pc' = [pc EXCEPT ![u] = "tell"]
    /\ audited' = audited \cup {u}
    /\ UNCHANGED <<machine, kind, at, took, answer>>

\* The result; of a capture its file, as it is by now.
Answer(u) ==
    /\ pc[u] = "tell"
    /\ Tell(u, IF kind[u] \in Captures THEN file[u] ELSE "ok")
    /\ UNCHANGED <<machine, kind, at, took, audited>>

Handles(u) == Begin(u) \/ TimesOut(u) \/ Audit(u) \/ Answer(u)

Next ==
    \/ Drops
    \/ \E u \in Updates, c \in {"connect", "disconnect"} : Straggles(u, c)
    \/ \E u \in Updates :
        \/ Takes(u) \/ Writes(u) \/ Reject(u) \/ Succeeds(u) \/ Fails(u) \/ Empty(u)
        \/ \E k \in Kinds : Arrive(u, k)
        \/ Handles(u)

\* A run of CommandRunner returns (CommandRun!AlwaysReturns); no command has to end.
Fairness == \A u \in Updates : WF_vars(Handles(u))

Spec == Init /\ [][Next]_vars
FairSpec == Spec /\ Fairness

-----------------------------------------------------------------------------

TypeOK ==
    /\ tunnel \in BOOLEAN
    /\ downBy \in Updates \cup {Nobody}
    /\ late \subseteq Updates \X {"connect", "disconnect"}
    /\ file \in [Updates -> {"none", "empty", "partial", "whole"}]
    /\ did \subseteq Updates
    /\ kind \in [Updates -> Kinds]
    /\ pc \in [Updates -> {"idle", "ready", "running", "audit", "tell", "done"}]
    /\ at \in [Updates -> 1..4]
    /\ took \in [Updates -> BOOLEAN]
    /\ audited \subseteq Updates
    /\ answer \in [Updates -> {"none", "error", "ok", "empty", "partial", "whole"}]

\* Whose command took the tunnel down and left it so was told of an error, however
\* the commands of others, the network and what a killed nordvpn goes on doing
\* come in between (reconnect, services/vpn.py:208).
DownIsTold ==
    \A u \in Updates : pc[u] = "done" /\ downBy = u /\ ~tunnel => answer[u] = "error"

\* An audit row says what was done (docs/pc-control.md:39, "every executed action
\* logged"), and what is reported as done is in the log.
AuditIsTrue ==
    \A u \in Updates :
        /\ u \in audited => u \in did
        /\ answer[u] \in {"ok", "whole"} /\ kind[u] \in Audited => u \in audited

\* Nobody is sent a picture or a recording that was not finished, also when the
\* command that makes it fails, is killed or writes on after its timeout.
SentIsWhole == \A u \in Updates : answer[u] \notin {"empty", "partial"}

\* Every command is answered, also if the tools it runs hang.
EveryCommandAnswered == \A u \in Updates : pc[u] = "ready" ~> pc[u] = "done"
=============================================================================
