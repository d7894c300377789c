--------------------------- MODULE HealthMonitor ---------------------------
(***************************************************************************)
(* The proactive loop of services/monitoring.py: rounds of checks, one     *)
(* service after the other while they all change, and after each round an  *)
(* alert for every check that got worse since the round before.            *)
(*                                                                         *)
(* A status is its rank: 0 for ok, 1 for warn, 2 for error.  A check that  *)
(* goes through finds a service in order or not, ok or warn; error is what *)
(* a check that raises counts as.  The services are numbered in the order  *)
(* they are checked.                                                       *)
(***************************************************************************)
EXTENDS Naturals

CONSTANTS
    Services,  \* how many services are checked
    Excused,   \* those whose check may raise and count as warn (Docker)
    Absent     \* those that are not set up and count as warn unchecked (VPN)

Checks == 1..Services
Ranks == 0..2
Unknown == 3

VARIABLES
    real,     \* the services as they are: 0 in order, 1 not
    pc,       \* where the loop stands
    next,     \* the service the loop checks or reports next
    sight,    \* what the check of the next service has found so far
    checks,   \* the results of this round
    last,     \* _last
    stop,     \* whether the stop event is set
    before,   \* history: the results of the round before
    alerted,  \* history: the services this round alerted about
    standing  \* history: the rank the chat was last alerted to and that has not improved since

vars == <<real, pc, next, sight, checks, last, stop, before, alerted, standing>>

Init ==
    /\ real \in [Checks -> {0, 1}]
    /\ pc = "off"
    /\ next = 1
    /\ sight = Unknown
    /\ checks = [n \in Checks |-> Unknown]
    /\ last = [n \in Checks |-> Unknown]
    /\ stop = FALSE
    /\ before = [n \in Checks |-> Unknown]
    /\ alerted = {}
    /\ standing = [n \in Checks |-> 0]

\* A service gets better or worse, at any time.
Changes(n) ==
    /\ real' = [real EXCEPT ![n] = 1 - @]
    /\ UNCHANGED <<pc, next, sight, checks, last, stop, before, alerted, standing>>

Start ==
    /\ pc = "off"
    /\ ~stop
    /\ pc' = "check"
    /\ UNCHANGED <<real, next, sight, checks, last, stop, before, alerted, standing>>

\* stop only sets the event as far as the loop is concerned.
Stop ==
    /\ pc # "off"
    /\ ~stop
    /\ stop' = TRUE
    /\ UNCHANGED <<real, pc, next, sight, checks, last, before, alerted, standing>>

Checking == pc = "check" /\ next \in Checks

\* check: the next service is looked at, which takes a while, unless it is absent.
Look ==
    /\ Checking
    /\ sight = Unknown
    /\ sight' = IF next \in Absent THEN 1 ELSE real[next]
    /\ UNCHANGED <<real, pc, next, checks, last, stop, before, alerted, standing>>

\* What was found is the result of the check.
Check ==
    /\ Checking
    /\ sight # Unknown
    /\ checks' = [checks EXCEPT ![next] = sight]
    /\ next' = next + 1
    /\ sight' = Unknown
    /\ UNCHANGED <<real, pc, last, stop, before, alerted, standing>>

\* Mutant of Fails: the exception ends the loop.
FailsOut(r) ==
    /\ Checking
    /\ next \notin Absent
    /\ r = 2 \/ (r = 1 /\ next \in Excused)
    /\ pc' = "over"
    /\ sight' = Unknown
    /\ UNCHANGED <<real, next, checks, last, stop, before, alerted, standing>>

\* The check raises, or is given up: error, or warn for what is excused.
Fails(r) ==
    /\ Checking
    /\ next \notin Absent
    /\ r = 2 \/ (r = 1 /\ next \in Excused)
    /\ checks' = [checks EXCEPT ![next] = r]
    /\ next' = next + 1
    /\ sight' = Unknown
    /\ UNCHANGED <<real, pc, last, stop, before, alerted, standing>>

Checked ==
    /\ pc = "check"
    /\ next \notin Checks
    /\ pc' = "report"
    /\ next' = 1
    /\ UNCHANGED <<real, sight, checks, last, stop, before, alerted, standing>>

\* An alert is due for what got worse since it was last checked.
Worse(n) == last[n] # Unknown /\ checks[n] > last[n]

\* Mutant of Report: the status is remembered only when it was alerted.
ReportRemembering ==
    /\ pc = "report"
    /\ next \in Checks
    /\ last' = IF last[next] = Unknown \/ Worse(next) THEN [last EXCEPT ![next] = checks[next]] ELSE last
    /\ alerted' = IF Worse(next) THEN alerted \cup {next} ELSE alerted
    /\ standing' = [standing EXCEPT ![next] = IF Worse(next) THEN checks[next]
                                              ELSE IF checks[next] < @ THEN checks[next] ELSE @]
    /\ next' = next + 1
    /\ UNCHANGED <<real, pc, sight, checks, stop, before>>

\* _run_single_check: the status is remembered, then the alert sent, as far as
\* Telegram takes it.
Report ==
    /\ pc = "report"
    /\ next \in Checks
    /\ last' = [last EXCEPT ![next] = checks[next]]
    /\ alerted' = IF Worse(next) THEN alerted \cup {next} ELSE alerted
    /\ standing' = [standing EXCEPT ![next] = IF Worse(next) THEN checks[next]
                                              ELSE IF checks[next] < @ THEN checks[next] ELSE @]
    /\ next' = next + 1
    /\ UNCHANGED <<real, pc, sight, checks, stop, before>>

Reported ==
    /\ pc = "report"
    /\ next \notin Checks
    /\ pc' = "sleep"
    /\ next' = 1
    /\ UNCHANGED <<real, sight, checks, last, stop, before, alerted, standing>>

\* The interval is over, or the event ends it: while not stop.
Wake ==
    /\ pc = "sleep"
    /\ pc' = IF stop THEN "over" ELSE "check"
    /\ before' = checks
    /\ alerted' = {}
    /\ UNCHANGED <<real, next, sight, checks, last, stop, standing>>

Loop ==
    \/ Look \/ Check \/ (\E r \in Ranks : Fails(r))
    \/ Checked \/ Report \/ Reported \/ Wake

Next == Start \/ Stop \/ Loop \/ \E n \in Checks : Changes(n)

\* The checks have timeouts, and the pause is one.
Fairness == WF_vars(Loop)

Spec == Init /\ [][Next]_vars
FairSpec == Spec /\ Fairness

-----------------------------------------------------------------------------

TypeOK ==
    /\ real \in [Checks -> {0, 1}]
    /\ pc \in {"off", "check", "report", "sleep", "over"}
    /\ next \in 1..(Services + 1)
    /\ sight \in Ranks \cup {Unknown}
    /\ checks \in [Checks -> Ranks \cup {Unknown}]
    /\ last \in [Checks -> Ranks \cup {Unknown}]
    /\ stop \in BOOLEAN
    /\ before \in [Checks -> Ranks \cup {Unknown}]
    /\ alerted \in SUBSET Checks
    /\ standing \in [Checks -> Ranks]

\* "proactive alerts are only sent on degradation" (pc-control.md:85): a round alerts
\* about exactly the checks that are worse than in the round before, whatever the
\* services did meanwhile, and about none in the first round.
AlertsAreDegradations ==
    pc = "sleep" =>
        alerted = {n \in Checks : before[n] # Unknown /\ checks[n] > before[n]}

\* "blind repeat avoided" (pc-control.md:86): after an alert the chat hears of the
\* service again only if it got worse than that, or better in between.
NoBlindRepeat ==
    [][\A n \in Checks : n \in alerted' \ alerted => checks[n] > standing[n]]_vars

\* A service that stays out of order becomes known as warn or error and remains so,
\* while the loop runs, whether its checks find it, raise or are given up.
OutageNoticed ==
    \A n \in Checks :
        <>[](real[n] = 1 /\ pc # "off" /\ ~stop) => <>[](last[n] \in {1, 2})
=============================================================================
