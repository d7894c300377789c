-------------------------- MODULE PowerConfirmation --------------------------
(***************************************************************************)
(* /reboot, /shutdown and /sleep with their /confirm_* and /dismiss        *)
(* (commands/power.py), the pending confirmations in memory                *)
(* (core/confirmation.py), the permission check (core/permissions.py), the *)
(* command run by services/power.py, and the audit row (core/audit.py).    *)
(*                                                                         *)
(* Handlers run between awaits without interruption: a request, the        *)
(* permission check with the removal of a confirmation, and a dismissal    *)
(* are one step each.  The command and the two statements of the audit row *)
(* are awaited, and other handlers run meanwhile.                          *)
(***************************************************************************)
EXTENDS Naturals

CONSTANTS
    Users,        \* the allowlisted users
    ReadOnly,     \* those of them in read_only_user_ids
    Actions,      \* POWER_ACTIONS
    Window,       \* power_confirmation_timeout_seconds
    MaxRequests,  \* requests altogether (model bound)
    MaxCrashes,   \* restarts of the bot (model bound)
    Horizon       \* how far the clock goes (model bound)

ASSUME PowerAssumption ==
    /\ Users # {} /\ Actions # {}
    /\ ReadOnly \subseteq Users
    /\ Window \in Nat \ {0}
    /\ MaxRequests \in Nat /\ MaxCrashes \in Nat /\ Horizon \in Nat

Requests == 1..MaxRequests

VARIABLES
    now,      \* the monotonic clock
    made,     \* how many requests there were
    pending,  \* the confirmation registered for each user and action, 0 if none
    request,  \* the requests: who, what, until when, and what became of it
    stage,    \* where the handler of the confirmation stands, per request
    runs,     \* history: how often the command of a request was started
    effect,   \* history: the requests whose command took effect
    logged,   \* the requests with an audit row
    durable,  \* those whose row is committed
    told,     \* history: the requests reported to the user as executed
    crashes   \* history: restarts so far

powerVars == <<now, made, pending, request, stage, runs, effect, logged, durable, told, crashes>>

\* Request r is the one registered under key k, the user and the action.
Keys == Users \X Actions

NoRequest == [key |-> CHOOSE k \in Keys : TRUE, expires |-> 0, fate |-> "none"]

PowerInit ==
    /\ now = 0
    /\ made = 0
    /\ pending = [k \in Keys |-> 0]
    /\ request = [r \in Requests |-> NoRequest]
    /\ stage = [r \in Requests |-> "none"]
    /\ runs = [r \in Requests |-> 0]
    /\ effect = {}
    /\ logged = {}
    /\ durable = {}
    /\ told = {}
    /\ crashes = 0

\* PermissionRegistry: everybody on the allowlist is an admin unless read-only, and
\* all these commands need more than READ.
Admin(u) == u \in Users \ ReadOnly

Expired(r) == now >= request[r].expires

-----------------------------------------------------------------------------

\* /reboot, /shutdown, /sleep: a new request takes the place of an older one.
Request(u, a) ==
    /\ Admin(u)
    /\ made < MaxRequests
    /\ made' = made + 1
    /\ pending' = [pending EXCEPT ![<<u, a>>] = made']
    /\ request' = [r \in Requests |->
                     IF r = made'
                       THEN [key |-> <<u, a>>, expires |-> now + Window, fate |-> "open"]
                     ELSE IF r = pending[<<u, a>>]
                       THEN [request[r] EXCEPT !.fate = "withdrawn"]
                     ELSE request[r]]
    /\ UNCHANGED <<now, stage, runs, effect, logged, durable, told, crashes>>

\* Mutant of Confirm: the confirmation stays registered.
ConfirmKeeping(u, a) ==
    /\ Admin(u)
    /\ LET r == pending[<<u, a>>] IN
         /\ r # 0
         /\ ~Expired(r)
         /\ stage' = [stage EXCEPT ![r] = "running"]
         /\ runs' = [runs EXCEPT ![r] = @ + 1]
    /\ UNCHANGED <<now, made, pending, request, effect, logged, durable, told, crashes>>

\* Mutant of Confirm: the expiry is not looked at.
ConfirmLate(u, a) ==
    /\ Admin(u)
    /\ LET r == pending[<<u, a>>] IN
         /\ r # 0
         /\ pending' = [pending EXCEPT ![<<u, a>>] = 0]
         /\ stage' = [stage EXCEPT ![r] = "running"]
         /\ runs' = [runs EXCEPT ![r] = @ + 1]
    /\ UNCHANGED <<now, made, request, effect, logged, durable, told, crashes>>

\* /confirm_<action> of a valid request: it is removed, and the command starts.
Confirm(u, a) ==
    /\ Admin(u)
    /\ LET r == pending[<<u, a>>] IN
         /\ r # 0
         /\ ~Expired(r)
         /\ pending' = [pending EXCEPT ![<<u, a>>] = 0]
         /\ stage' = [stage EXCEPT ![r] = "running"]
         /\ runs' = [runs EXCEPT ![r] = @ + 1]
    /\ UNCHANGED <<now, made, request, effect, logged, durable, told, crashes>>

\* /confirm_<action> of an expired one: it is removed, and nothing is executed.
ConfirmExpired(u, a) ==
    /\ Admin(u)
    /\ LET r == pending[<<u, a>>] IN r # 0 /\ Expired(r)
    /\ pending' = [pending EXCEPT ![<<u, a>>] = 0]
    /\ UNCHANGED <<now, made, request, stage, runs, effect, logged, durable, told, crashes>>

\* /dismiss: all requests of the user are removed.
Dismiss(u) ==
    /\ Admin(u)
    /\ \E a \in Actions : pending[<<u, a>>] # 0
    /\ pending' = [k \in Keys |-> IF k[1] = u THEN 0 ELSE pending[k]]
    /\ request' = [r \in Requests |->
                     IF pending[request[r].key] = r /\ request[r].key[1] = u
                       THEN [request[r] EXCEPT !.fate = "withdrawn"] ELSE request[r]]
    /\ UNCHANGED <<now, made, stage, runs, effect, logged, durable, told, crashes>>

-----------------------------------------------------------------------------
(* The command of a confirmed request, and its audit row.                    *)

\* The command takes effect (external).
TakesEffect(r) ==
    /\ stage[r] = "running"
    /\ effect' = effect \cup {r}
    /\ UNCHANGED <<now, made, pending, request, stage, runs, logged, durable, told, crashes>>

\* CommandRunner.run raises: the command is missing, has failed or timed out.
PerformFails(r) ==
    /\ stage[r] = "running"
    /\ stage' = [stage EXCEPT ![r] = "over"]
    /\ UNCHANGED <<now, made, pending, request, runs, effect, logged, durable, told, crashes>>

\* Mutant of Performed: the answer goes out before the audit row.
PerformedTelling(r) ==
    /\ stage[r] = "running"
    /\ r \in effect
    /\ stage' = [stage EXCEPT ![r] = "audit"]
    /\ told' = told \cup {r}
    /\ UNCHANGED <<now, made, pending, request, runs, effect, logged, durable, crashes>>

\* It returns, and the INSERT of the audit row is on its way.
Performed(r) ==
    /\ stage[r] = "running"
    /\ r \in effect
    /\ stage' = [stage EXCEPT ![r] = "audit"]
    /\ UNCHANGED <<now, made, pending, request, runs, effect, logged, durable, told, crashes>>

InsertRow(r) ==
    /\ stage[r] = "audit"
    /\ logged' = logged \cup {r}
    /\ stage' = [stage EXCEPT ![r] = "commit"]
    /\ UNCHANGED <<now, made, pending, request, runs, effect, durable, told, crashes>>

\* Its commit, with whatever else was written, and the answer to the user.
CommitRow(r) ==
    /\ stage[r] = "commit"
    /\ durable' = logged
    /\ stage' = [stage EXCEPT ![r] = "over"]
    /\ told' = told \cup {r}
    /\ UNCHANGED <<now, made, pending, request, runs, effect, logged, crashes>>

\* A commit of some other coroutine on the shared connection.
OtherCommit ==
    /\ durable # logged
    /\ durable' = logged
    /\ UNCHANGED <<now, made, pending, request, stage, runs, effect, logged, told, crashes>>

\* The bot stops, perhaps by the very command, and starts again: requests live in
\* memory only.
Restart ==
    /\ crashes < MaxCrashes
    /\ crashes' = crashes + 1
    /\ pending' = [k \in Keys |-> 0]
    /\ stage' = [r \in Requests |-> IF stage[r] = "none" THEN "none" ELSE "over"]
    /\ logged' = durable
    /\ UNCHANGED <<now, made, request, runs, effect, durable, told>>

Tick ==
    /\ now < Horizon
    /\ now' = now + 1
    /\ UNCHANGED <<made, pending, request, stage, runs, effect, logged, durable, told, crashes>>

PowerNext ==
    \/ \E u \in Users :
         \/ \E a \in Actions : Request(u, a) \/ Confirm(u, a) \/ ConfirmExpired(u, a)
         \/ Dismiss(u)
    \/ \E r \in Requests :
         \/ TakesEffect(r) \/ PerformFails(r) \/ Performed(r) \/ InsertRow(r) \/ CommitRow(r)
    \/ OtherCommit
    \/ Restart
    \/ Tick

PowerSpec == PowerInit /\ [][PowerNext]_powerVars

-----------------------------------------------------------------------------

PowerTypeOK ==
    /\ now \in Nat
    /\ made \in 0..MaxRequests
    /\ pending \in [Keys -> 0..MaxRequests]
    /\ request \in [Requests -> [key : Keys, expires : Nat,
                                 fate : {"none", "open", "withdrawn"}]]
    /\ stage \in [Requests -> {"none", "running", "audit", "commit", "over"}]
    /\ runs \in [Requests -> Nat]
    /\ effect \in SUBSET Requests
    /\ logged \in SUBSET Requests
    /\ durable \in SUBSET Requests
    /\ told \in SUBSET Requests
    /\ crashes \in Nat

\* One request lets its action run once ("Retrieve and remove a still-valid
\* confirmation", confirmation.py:80): not on a second /confirm while the command
\* is under way, and not after a restart.
OncePerRequest == \A r \in Requests : runs[r] <= 1

\* A command starts only within the window of its request, and not after the
\* request was dismissed or replaced ("no action executes", power.py:84).
StartsConfirmed ==
    [][\A r \in Requests : runs'[r] > runs[r]
          => now < request[r].expires /\ request[r].fate = "open"]_powerVars

\* A read-only user's key never leads to a command (permissions.py:47).
OnlyAdmins == \A r \in Requests : runs[r] > 0 => request[r].key[1] \notin ReadOnly

\* An action reported as executed has its audit row for good, also after the
\* restart that the action itself may be.
ToldIsAudited == told \subseteq durable

\* What has become of request r.
GrantOf(r) ==
    IF runs[r] > 0 THEN "used"
    ELSE IF r > made THEN "none"
    ELSE IF pending[request[r].key] = r THEN "open"
    ELSE "void"

Grant(r) ==
    INSTANCE OneTimeGrant
    WITH time <- now, grant <- GrantOf(r), expires <- request[r].expires,
         done <- r \in effect, recorded <- r \in durable, told <- r \in told

\* Every request of a power action is a OneTimeGrant: it is used once and while it is
\* valid, never after it was used, replaced, dismissed, expired or forgotten in a restart;
\* only what was confirmed takes effect, only that has an audit row for good, and only
\* then is it reported (core/confirmation.py:79-88, commands/power.py:58-80).  It is
\* Grant(r)!Spec for each r, with the steps of all requests under one box.
RequestsAreGrants ==
    /\ \A r \in Requests : Grant(r)!Init
    /\ [][\A r \in Requests : Grant(r)!Next \/ UNCHANGED Grant(r)!vars]_powerVars
=============================================================================
