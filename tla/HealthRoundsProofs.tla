-------------------------- MODULE HealthRoundsProofs --------------------------
(***************************************************************************)
(* Proofs about HealthRounds, for any number of services, of which any may *)
(* be asked with a command, and for every timeout and grace period.        *)
(***************************************************************************)
EXTENDS HealthRounds, TLAPS

-----------------------------------------------------------------------------
(* The calls.                                                                *)

\* Where the call stands, its deadline tells how late it can be.
OnTime ==
    /\ call = "start" => now = 0
    /\ call = "waiting" => now <= deadline /\ deadline <= Limit
    /\ call = "term" => now <= deadline /\ deadline <= Limit + Grace
    /\ call = "kill" => now <= deadline /\ deadline <= Limit + Grace + Grace

\* What has been sent by then.
Sent ==
    /\ call \in {"start", "waiting"} => signal = "none"
    /\ call = "start" => leader = "none"
    /\ call = "term" => signal # "KILL"
    /\ call = "kill" /\ leader = "running" => signal = "KILL"
    /\ call = "done" /\ leader = "running" => signal = "KILL"
    /\ signal = "KILL" => helper # "group"
    /\ result # "none" <=> call = "done"

CallInv == Run!TypeOK /\ OnTime /\ Sent

LEMMA InitCallInv == Run!Init => CallInv
BY RoundsAssumption DEF Run!Init, CallInv, Run!TypeOK, OnTime, Sent

\* The steps of a call keep it.
LEMMA CallStep == CallInv /\ Run!Next => CallInv'
<1> SUFFICES ASSUME CallInv, Run!Next PROVE CallInv'
  OBVIOUS
<1> USE RoundsAssumption DEF CallInv, Run!TypeOK, OnTime, Sent
<1>1. CASE Run!NotStarted
  BY <1>1 DEF Run!NotStarted, Run!Return
<1>2. CASE Run!Spawn
  BY <1>2 DEF Run!Spawn
<1>3. CASE Run!Communicated
  BY <1>3 DEF Run!Communicated, Run!Return, Run!Exited
<1>4. CASE Run!Expires
  BY <1>4 DEF Run!Expires, Run!Signal
<1>5. CASE Run!TermExpires
  BY <1>5 DEF Run!TermExpires, Run!Signal
<1>6. CASE Run!Terminated
  BY <1>6 DEF Run!Terminated, Run!Return, Run!Exited
<1>7. CASE Run!KillExpires
  BY <1>7 DEF Run!KillExpires, Run!Return
<1>8. CASE Run!LeaderExits
  BY <1>8 DEF Run!LeaderExits
<1>9. CASE Run!Forks
  BY <1>9 DEF Run!Forks
<1>10. CASE Run!HelperEnds
  BY <1>10 DEF Run!HelperEnds
<1>11. CASE Run!Tick
  BY <1>11 DEF Run!Tick, Run!Waiting, Run!Exited
<1> QED BY <1>1, <1>2, <1>3, <1>4, <1>5, <1>6, <1>7, <1>8, <1>9, <1>10, <1>11
        DEF Run!Next, Run!Run

\* As a call sees a step: one of its own, the end of it, or none.
CallView == Run!Next \/ Forget \/ UNCHANGED runVars

LEMMA NextCallView == [Next]_vars => CallView
<1> SUFFICES ASSUME [Next]_vars PROVE CallView
  OBVIOUS
<1>1. CASE Calls
  BY <1>1 DEF Calls, CallView, Run!Next
<1>2. CASE Surrounds \/ Ticks \/ Answers \/ AnswersSettings
  BY <1>2 DEF Surrounds, Ticks, Answers, AnswersSettings, CallView, Run!Next
<1>3. CASE AsksSettings \/ Answered \/ Unanswered
  BY <1>3 DEF AsksSettings, Answered, Unanswered, CallView
<1>4. CASE InPlace \/ Turns \/ Control \/ \E n \in 1..Services : Changes(n)
  BY <1>4 DEF InPlace, Turns, Control, Changes, CallView
<1>5. CASE UNCHANGED vars
  BY <1>5 DEF vars, runVars, CallView
<1> QED BY <1>1, <1>2, <1>3, <1>4, <1>5 DEF Next, Loop

LEMMA ViewCallInv == CallInv /\ CallView => CallInv'
<1>1. CallInv /\ Forget => CallInv'
  BY RoundsAssumption DEF Forget, CallInv, Run!TypeOK, OnTime, Sent
<1>2. CallInv /\ UNCHANGED runVars => CallInv'
  BY DEF runVars, CallInv, Run!TypeOK, OnTime, Sent
<1> QED BY <1>1, <1>2, CallStep DEF CallView

\* The inductive invariant of the calls, of which the next theorems are consequences.
THEOREM CallInvariant == Spec => []CallInv
<1>1. Init => CallInv
  BY InitCallInv DEF Init
<1> QED BY <1>1, NextCallView, ViewCallInv, PTL DEF Spec

\* A call of CommandRunner.run is over after its timeout and two grace periods,
\* for every timeout and grace period (process.py:116-124, 180-191).
THEOREM RunEnds == Spec => []EndsInTime
<1>1. CallInv => EndsInTime
  BY RoundsAssumption DEF CallInv, Run!TypeOK, OnTime, EndsInTime, Run!EndsInTime
<1> QED BY CallInvariant, <1>1, PTL

\* The SIGKILL of _terminate_group reaches the whole group.
THEOREM RunKillsGroup == Spec => []Run!KillTakesGroup
<1>1. CallInv => Run!KillTakesGroup
  BY DEF CallInv, Sent, Run!KillTakesGroup
<1> QED BY CallInvariant, <1>1, PTL

\* A command that still runs when the call returns was sent a SIGKILL.
THEOREM RunTold == Spec => []Run!ToldToEnd
<1>1. CallInv => Run!ToldToEnd
  BY DEF CallInv, Sent, Run!ToldToEnd
<1> QED BY CallInvariant, <1>1, PTL

\* When the waits of a call run out, and what its command has been sent by then.
Warned ==
    /\ call = "start" => now = 0
    /\ call = "waiting" => deadline = Limit
    /\ call = "term" => deadline >= Limit + Grace
    /\ call = "term" /\ leader = "running" => signal = "TERM"

LEMMA WarnedStep == CallInv /\ Warned /\ CallView => Warned'
<1> SUFFICES ASSUME CallInv, Warned, CallView PROVE Warned'
  OBVIOUS
<1> USE RoundsAssumption DEF CallInv, Run!TypeOK, Sent, Warned
<1>1. CASE Run!NotStarted \/ Run!Communicated \/ Run!Terminated \/ Run!KillExpires
  BY <1>1 DEF Run!NotStarted, Run!Communicated, Run!Terminated, Run!KillExpires, Run!Return
<1>2. CASE Run!Spawn
  BY <1>2 DEF Run!Spawn
<1>3. CASE Run!Expires
  BY <1>3 DEF Run!Expires, Run!Signal
<1>4. CASE Run!TermExpires
  BY <1>4 DEF Run!TermExpires
<1>5. CASE Run!LeaderExits \/ Run!Forks \/ Run!HelperEnds
  BY <1>5 DEF Run!LeaderExits, Run!Forks, Run!HelperEnds
<1>6. CASE Run!Tick
  BY <1>6 DEF Run!Tick, Run!Waiting
<1>7. CASE Forget \/ UNCHANGED runVars
  BY <1>7 DEF Forget, runVars
<1> QED BY <1>1, <1>2, <1>3, <1>4, <1>5, <1>6, <1>7 DEF CallView, Run!Next, Run!Run

\* _terminate_group sends the SIGKILL last: a command has had its whole timeout, the
\* SIGTERM, and the whole grace period to react to it (process.py:180-191).
THEOREM RunKillsLast ==
    Spec => [][signal' = "KILL" /\ signal # "KILL"
                 => signal = "TERM" /\ now >= Limit + Grace]_vars
<1> DEFINE Last == signal' = "KILL" /\ signal # "KILL" => signal = "TERM" /\ now >= Limit + Grace
<1>1. Init => Warned
  BY DEF Init, Run!Init, Warned
<1>2. CallInv /\ Warned /\ CallView => Last
  <2> SUFFICES ASSUME CallInv, Warned, CallView, signal' = "KILL", signal # "KILL"
               PROVE  signal = "TERM" /\ now >= Limit + Grace
    OBVIOUS
  <2>1. Run!TermExpires
    BY DEF CallView, Forget, runVars, Run!Next, Run!Run, Run!NotStarted, Run!Spawn, Run!Expires,
       Run!Signal, Run!Communicated, Run!Terminated, Run!KillExpires, Run!LeaderExits,
       Run!Forks, Run!HelperEnds, Run!Tick
  <2>2. call = "term" /\ now >= deadline /\ leader = "running"
    BY <2>1 DEF Run!TermExpires, Run!Signal
  <2> QED BY <2>2, RoundsAssumption DEF CallInv, Run!TypeOK, Warned
<1>3. CallInv /\ Warned /\ [Next]_vars => Warned' /\ [Last]_vars
  BY <1>2, NextCallView, WarnedStep
<1> QED BY <1>1, <1>3, CallInvariant, PTL DEF Spec

\* A result is only returned with the whole output of the command.
THEOREM RunReturnsAll == Spec => WholeOutput
<1> DEFINE Whole == result' \in {"ok", "failed"} /\ result = "none" => helper = "none"
<1>1. CallView => [Whole]_(Run!vars)
  <2> SUFFICES ASSUME CallView, result = "none", result' \in {"ok", "failed"}
               PROVE  helper = "none"
    OBVIOUS
  <2>1. Run!Next
    BY DEF CallView, Forget, runVars
  <2>2. Run!Communicated
    BY <2>1 DEF Run!Next, Run!Run, Run!NotStarted, Run!Spawn, Run!Expires, Run!TermExpires,
       Run!Terminated, Run!KillExpires, Run!LeaderExits, Run!Forks, Run!HelperEnds,
       Run!Tick, Run!Return
  <2> QED BY <2>2 DEF Run!Communicated
<1> QED BY NextCallView, <1>1, PTL DEF Spec, WholeOutput, Run!WholeOutput

-----------------------------------------------------------------------------
(* The rounds.                                                               *)

\* A step of the rounds is one of the loop's, or leaves it alone.
LEMMA MonitorStep == [Next]_vars => [Monitor!Next]_(Monitor!vars)
<1> SUFFICES ASSUME [Next]_vars PROVE Monitor!Next \/ UNCHANGED Monitor!vars
  OBVIOUS
<1> USE DEF Monitor!Next, Monitor!Loop
<1>1. CASE Calls \/ Surrounds \/ Ticks \/ AnswersSettings \/ AsksSettings
  BY <1>1 DEF Calls, Surrounds, Ticks, AnswersSettings, AsksSettings, monitorVars, Monitor!vars
<1>2. CASE Answers \/ Answered \/ Unanswered \/ InPlace
  BY <1>2 DEF Answers, Answered, Unanswered, InPlace, Monitor!Ranks
<1>3. CASE Turns \/ Control
  BY <1>3 DEF Turns, Control
<1>4. CASE \E n \in 1..Services : Changes(n)
  BY <1>4 DEF Changes, Monitor!Checks
<1>5. CASE UNCHANGED vars
  BY <1>5 DEF vars, Monitor!vars
<1> QED BY <1>1, <1>2, <1>3, <1>4, <1>5 DEF Next, Loop

\* The loop with its commands does what HealthMonitor does, which has none.
THEOREM RoundsAreMonitored == Spec => Monitor!Spec
<1>1. Init => Monitor!Init
  BY DEF Init
<1> QED BY <1>1, MonitorStep, PTL DEF Spec, Monitor!Spec

\* The services this round has been through with its alerts: those before next while
\* it reports, and all of them afterwards.
Through(n) == pc \in {"sleep", "over"} \/ (pc = "report" /\ n < next)

\* _last is of this round for what was reported, and of the round before for the rest.
Remembered ==
    pc # "over" =>
        \A n \in 1..Services :
            IF Through(n)
            THEN /\ last[n] = checks[n]
                 /\ n \in alerted <=> before[n] # 3 /\ checks[n] > before[n]
            ELSE last[n] = before[n] /\ n \notin alerted

\* Every service that is reported was checked.
Read ==
    /\ pc = "off" => next = 1
    /\ \A n \in 1..Services : pc = "check" /\ n < next => checks[n] # 3
    /\ pc \in {"report", "sleep"} => \A n \in 1..Services : checks[n] # 3

\* What the chat was last told of is no better than what was last seen.
Standing == \A n \in 1..Services : standing[n] <= last[n]

RoundInv ==
    /\ Monitor!TypeOK
    /\ Remembered
    /\ Read
    /\ Standing

LEMMA InitRoundInv == Monitor!Init => RoundInv
<1> SUFFICES ASSUME Monitor!Init PROVE RoundInv
  OBVIOUS
<1> USE RoundsAssumption DEF Monitor!Init, Monitor!Checks, Monitor!Ranks, Monitor!Unknown
<1>1. Monitor!TypeOK
  <2>1. next \in 1..(Services + 1)
    OBVIOUS
  <2>2. /\ checks \in [1..Services -> 0..2 \cup {3}]
        /\ last \in [1..Services -> 0..2 \cup {3}]
        /\ before \in [1..Services -> 0..2 \cup {3}]
        /\ standing \in [1..Services -> 0..2]
    OBVIOUS
  <2> QED BY <2>1, <2>2 DEF Monitor!TypeOK
<1>2. Remembered
  BY DEF Remembered, Through
<1>3. Read
  BY DEF Read
<1>4. Standing
  BY DEF Standing
<1> QED BY <1>1, <1>2, <1>3, <1>4 DEF RoundInv

LEMMA StepRoundInv == RoundInv /\ [Monitor!Next]_(Monitor!vars) => RoundInv'
<1> SUFFICES ASSUME RoundInv, [Monitor!Next]_(Monitor!vars) PROVE RoundInv'
  OBVIOUS
<1> USE RoundsAssumption DEF RoundInv, Monitor!Checks, Monitor!Ranks, Monitor!Unknown
<1>1. CASE Monitor!Start \/ Monitor!Stop
  <2>1. UNCHANGED <<real, next, sight, checks, last, before, alerted, standing>>
    BY <1>1 DEF Monitor!Start, Monitor!Stop
  <2>2. Monitor!TypeOK'
    BY <1>1, <2>1 DEF Monitor!Start, Monitor!Stop, Monitor!TypeOK
  <2>3. pc' = pc \/ (pc = "off" /\ pc' = "check")
    BY <1>1 DEF Monitor!Start, Monitor!Stop
  <2>4. Remembered' /\ Read' /\ Standing'
    BY <2>1, <2>3 DEF Monitor!TypeOK, Remembered, Through, Read, Standing
  <2> QED BY <2>2, <2>4
<1>2. ASSUME NEW n \in 1..Services, Monitor!Changes(n) PROVE RoundInv'
  BY <1>2 DEF Monitor!Changes, Monitor!TypeOK, Remembered, Through, Read, Standing
<1>3. CASE Monitor!Look
  BY <1>3, 1 \in 0..2 DEF Monitor!Look, Monitor!Checking, Monitor!TypeOK, Remembered, Through, Read,
     Standing
<1>4. CASE Monitor!Check \/ \E r \in 0..2 : Monitor!Fails(r)
  <2>1. PICK r \in 0..2 :
            /\ pc = "check" /\ next \in 1..Services
            /\ checks' = [checks EXCEPT ![next] = r] /\ next' = next + 1 /\ sight' = 3
            /\ UNCHANGED <<real, pc, last, stop, before, alerted, standing>>
    <3>1. CASE Monitor!Check
      BY <1>4, <3>1 DEF Monitor!Check, Monitor!Checking, Monitor!TypeOK
    <3>2. CASE \E r \in 0..2 : Monitor!Fails(r)
      BY <1>4, <3>2 DEF Monitor!Fails, Monitor!Checking
    <3> QED BY <1>4, <3>1, <3>2
  <2> QED BY <2>1 DEF Monitor!TypeOK, Remembered, Through, Read, Standing
<1>5. CASE Monitor!Checked
  BY <1>5 DEF Monitor!Checked, Monitor!TypeOK, Remembered, Through, Read, Standing
<1>6. CASE Monitor!Report
  <2>1. Monitor!TypeOK'
    BY <1>6 DEF Monitor!Report, Monitor!TypeOK, Read, Monitor!Worse
  <2>2. Remembered'
    BY <1>6 DEF Monitor!Report, Monitor!TypeOK, Remembered, Through, Monitor!Worse
  <2>3. Read'
    BY <1>6 DEF Monitor!Report, Monitor!TypeOK, Read
  <2>4. Standing'
    <3>1. /\ checks \in [1..Services -> 0..3] /\ last \in [1..Services -> 0..3]
          /\ standing \in [1..Services -> 0..2] /\ next \in 1..Services
      BY <1>6 DEF Monitor!Report, Monitor!TypeOK
    <3>2. last' = [last EXCEPT ![next] = checks[next]] /\ checks[next] \in 0..3
      BY <1>6, <3>1 DEF Monitor!Report
    <3> DEFINE v == IF Monitor!Worse(next) THEN checks[next]
                    ELSE IF checks[next] < standing[next] THEN checks[next] ELSE standing[next]
    <3>3. checks[next] # 3
      BY <1>6 DEF Monitor!Report, Read
    <3>4. v \in 0..2 /\ v <= checks[next]
      BY <3>1, <3>2, <3>3
    <3>5. standing' = [standing EXCEPT ![next] = v]
      BY <1>6 DEF Monitor!Report
    <3> HIDE DEF v
    <3> QED BY <3>1, <3>2, <3>4, <3>5 DEF Standing
  <2> QED BY <2>1, <2>2, <2>3, <2>4
<1>7. CASE Monitor!Reported
  BY <1>7 DEF Monitor!Reported, Monitor!TypeOK, Remembered, Through, Read, Standing
<1>8. CASE Monitor!Wake
  BY <1>8 DEF Monitor!Wake, Monitor!TypeOK, Remembered, Through, Read, Standing
<1>9. CASE UNCHANGED Monitor!vars
  BY <1>9 DEF Monitor!vars, Monitor!TypeOK, Remembered, Through, Read, Standing
<1> QED BY <1>1, <1>2, <1>3, <1>4, <1>5, <1>6, <1>7, <1>8, <1>9 DEF Monitor!Next, Monitor!Loop

\* The inductive invariant of the rounds, of which the next theorems are consequences.
THEOREM RoundInvariant == Spec => []RoundInv
<1>1. Init => RoundInv
  BY InitRoundInv DEF Init
<1> QED BY <1>1, MonitorStep, StepRoundInv, PTL DEF Spec

\* The rounds and the commands they run keep their types: next is never beyond the last
\* service, and what is remembered of one is a rank it can have, or nothing.
THEOREM RoundTypes == Spec => []TypeOK
<1> DEFINE Two == settings \in BOOLEAN
<1>1. Init => Two
  BY DEF Init
<1>2. Two /\ [Next]_vars => Two'
  BY DEF Next, Loop, Calls, Surrounds, Ticks, Answers, AnswersSettings, AsksSettings, Answered,
     Unanswered, InPlace, Turns, Control, Changes, vars
<1>3. RoundInv /\ CallInv /\ Two => TypeOK
  BY DEF RoundInv, CallInv, TypeOK
<1> QED BY <1>1, <1>2, <1>3, RoundInvariant, CallInvariant, PTL DEF Spec

\* A round alerts about exactly what is worse than in the round before.
THEOREM AlertsExact == Spec => []AlertsAreDegradations
<1>1. RoundInv => AlertsAreDegradations
  BY DEF RoundInv, Monitor!TypeOK, Monitor!Checks, Monitor!Unknown, Remembered, Through,
     AlertsAreDegradations, Monitor!AlertsAreDegradations
<1> QED BY RoundInvariant, <1>1, PTL

\* No alert repeats what the chat knows already.
THEOREM NeverRepeats == Spec => Monitor!NoBlindRepeat
<1> USE DEF Monitor!Checks
<1> DEFINE Fresh == \A n \in 1..Services : n \in alerted' \ alerted => checks[n] > standing[n]
<1>1. RoundInv /\ [Monitor!Next]_(Monitor!vars) => [Fresh]_(Monitor!vars)
  <2> SUFFICES ASSUME RoundInv, Monitor!Next, NEW n \in 1..Services, n \in alerted' \ alerted
               PROVE  checks[n] > standing[n]
    OBVIOUS
  <2>1. Monitor!Report /\ n = next /\ Monitor!Worse(n)
    BY DEF Monitor!Next, Monitor!Loop, Monitor!Start, Monitor!Stop, Monitor!Changes,
       Monitor!Look, Monitor!Check, Monitor!Fails, Monitor!Checked, Monitor!Report,
       Monitor!Reported, Monitor!Wake, RoundInv, Monitor!TypeOK
  <2>2. standing[n] <= last[n] /\ last[n] < checks[n]
    BY <2>1 DEF RoundInv, Standing, Monitor!Worse
  <2>3. standing[n] \in 0..2 /\ last[n] \in 0..3 /\ checks[n] \in 0..3
    BY DEF RoundInv, Monitor!TypeOK, Monitor!Ranks, Monitor!Unknown
  <2> QED BY <2>2, <2>3
<1> QED BY RoundInvariant, MonitorStep, <1>1, PTL DEF Spec, Monitor!NoBlindRepeat
=============================================================================
