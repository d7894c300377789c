--------------------------- MODULE PcCommandsProofs ---------------------------
(***************************************************************************)
(* Proofs about the commands on the PC: PowerConfirmation, for any users,  *)
(* actions, window, number of requests and number of restarts, and         *)
(* PcControl, for any number of messages under way.                        *)
(***************************************************************************)
EXTENDS PowerConfirmation, PcControl, SequenceTheorems, TLAPS

\* A registered confirmation is of the user and the action it is registered under,
\* and has not been used.
Registered ==
    \A k \in Keys : pending[k] # 0 =>
        /\ request[pending[k]].key = k
        /\ request[pending[k]].fate = "open"
        /\ runs[pending[k]] = 0
        /\ pending[k] <= made
        /\ k[1] \notin ReadOnly

\* What has happened to the requests so far.
Accounts ==
    \A r \in Requests :
        /\ r > made => runs[r] = 0
        /\ runs[r] <= 1
        /\ runs[r] > 0 => r <= made /\ request[r].key[1] \notin ReadOnly
        /\ stage[r] = "commit" => r \in logged

PowerInv == PowerTypeOK /\ Registered /\ Accounts /\ durable \subseteq logged /\ told \subseteq durable

LEMMA PowerInitInv == PowerInit => PowerInv
<1> SUFFICES ASSUME PowerInit PROVE PowerInv
  OBVIOUS
<1>1. (CHOOSE k \in Keys : TRUE) \in Keys
  <2>1. PICK u \in Users, a \in Actions : TRUE
    BY PowerAssumption
  <2>2. <<u, a>> \in Keys
    BY DEF Keys
  <2> QED BY <2>2
<1>2. NoRequest \in [key : Keys, expires : Nat, fate : {"none", "open", "withdrawn"}]
  BY <1>1 DEF NoRequest
<1>3. PowerTypeOK
  BY <1>2, PowerAssumption DEF PowerInit, PowerTypeOK, Requests
<1>4. Registered /\ Accounts
  BY PowerAssumption DEF PowerInit, Registered, Accounts, Requests
<1> QED BY <1>3, <1>4 DEF PowerInv, PowerInit

LEMMA RequestStep ==
    ASSUME PowerInv, NEW u \in Users, NEW a \in Actions, Request(u, a)
    PROVE  PowerInv'
<1> USE PowerAssumption
<1>k. <<u, a>> \in Keys
  BY DEF Keys
<1>t. PowerTypeOK
  BY DEF PowerInv
<1>m. made' = made + 1 /\ made' \in Requests /\ made \in Nat
  BY <1>t DEF Request, PowerTypeOK, Requests
<1>1. ASSUME NEW r \in Requests
      PROVE  /\ r = made' => request'[r] = [key |-> <<u, a>>, expires |-> now + Window, fate |-> "open"]
             /\ r # made' => request'[r].key = request[r].key
             /\ r # made' /\ r # pending[<<u, a>>] => request'[r] = request[r]
             /\ request'[r] \in [key : Keys, expires : Nat, fate : {"none", "open", "withdrawn"}]
  <2>1. request'[r] = IF r = made'
                       THEN [key |-> <<u, a>>, expires |-> now + Window, fate |-> "open"]
                     ELSE IF r = pending[<<u, a>>]
                       THEN [request[r] EXCEPT !.fate = "withdrawn"]
                     ELSE request[r]
    BY DEF Request
  <2>2. request[r] \in [key : Keys, expires : Nat, fate : {"none", "open", "withdrawn"}]
        /\ now + Window \in Nat
    BY <1>t DEF PowerTypeOK
  <2> QED BY <2>1, <2>2, <1>k
<1>2. /\ pending' = [pending EXCEPT ![<<u, a>>] = made']
      /\ UNCHANGED <<now, stage, runs, effect, logged, durable, told, crashes>>
      /\ u \notin ReadOnly
  BY DEF Request, Admin
<1>3. PowerTypeOK'
  <2>1. request' \in [Requests -> [key : Keys, expires : Nat, fate : {"none", "open", "withdrawn"}]]
    BY <1>1 DEF Request
  <2>2. pending' \in [Keys -> 0..MaxRequests] /\ made' \in 0..MaxRequests
    <3>1. made' \in 0..MaxRequests
      BY <1>m DEF Requests
    <3>2. pending \in [Keys -> 0..MaxRequests]
      BY <1>t DEF PowerTypeOK
    <3> QED BY <3>1, <3>2, <1>2
  <2> QED BY <2>1, <2>2, <1>2, <1>t DEF PowerTypeOK
<1>4. Registered'
  <2>1. ASSUME NEW k \in Keys, pending'[k] # 0
        PROVE  /\ request'[pending'[k]].key = k
               /\ request'[pending'[k]].fate = "open"
               /\ runs'[pending'[k]] = 0
               /\ pending'[k] <= made'
               /\ k[1] \notin ReadOnly
    <3>1. CASE k = <<u, a>>
      <4>1. pending'[k] = made'
        BY <3>1, <1>2, <1>t, <1>k DEF PowerTypeOK
      <4>2. runs[made'] = 0
        BY <1>m DEF PowerInv, Accounts
      <4> QED BY <3>1, <4>1, <4>2, <1>1, <1>2, <1>m
    <3>2. CASE k # <<u, a>>
      <4>1. pending'[k] = pending[k]
        BY <3>2, <1>2, <1>t DEF PowerTypeOK
      <4>2. pending[k] \in Requests /\ pending[k] <= made
        BY <4>1, <2>1, <1>t DEF PowerTypeOK, Requests, PowerInv, Registered
      <4>3. request[pending[k]].key = k
        BY <4>1, <2>1 DEF PowerInv, Registered
      <4>4. pending[k] # pending[<<u, a>>]
        BY <4>1, <4>3, <2>1, <3>2, <1>k DEF PowerInv, Registered
      <4>5. request'[pending[k]] = request[pending[k]]
        BY <1>1, <1>m, <4>2, <4>4 DEF Requests
      <4>6. /\ request[pending[k]].fate = "open" /\ runs[pending[k]] = 0
            /\ k[1] \notin ReadOnly
        BY <4>1, <2>1 DEF PowerInv, Registered
      <4>7. pending[k] <= made'
        BY <4>2, <1>m DEF Requests
      <4> QED BY <4>1, <4>3, <4>5, <4>6, <4>7, <1>2
    <3> QED BY <3>1, <3>2
  <2> QED BY <2>1 DEF Registered
<1>5. Accounts'
  <2>1. ASSUME NEW r \in Requests PROVE /\ r > made' => runs'[r] = 0
                                        /\ runs'[r] <= 1
                                        /\ runs'[r] > 0 => r <= made' /\ request'[r].key[1] \notin ReadOnly
                                        /\ stage'[r] = "commit" => r \in logged'
    <3>1. runs[r] \in Nat /\ r \in Nat
      BY <1>t DEF PowerTypeOK, Requests
    <3>2. runs[r] > 0 => r # made'
      BY <1>m DEF PowerInv, Accounts
    <3> QED BY <3>1, <3>2, <1>1, <1>2, <1>m DEF PowerInv, Accounts
  <2> QED BY <2>1 DEF Accounts
<1> QED BY <1>2, <1>3, <1>4, <1>5 DEF PowerInv

LEMMA ConfirmStep ==
    ASSUME PowerInv, NEW u \in Users, NEW a \in Actions, Confirm(u, a)
    PROVE  PowerInv' /\ \A r \in Requests : runs'[r] > runs[r]
                      => now < request[r].expires /\ request[r].fate = "open"
<1> USE PowerAssumption
<1>k. <<u, a>> \in Keys
  BY DEF Keys
<1>t. PowerTypeOK
  BY DEF PowerInv
<1> DEFINE c == pending[<<u, a>>]
<1>1. /\ c \in Requests /\ c # 0
      /\ pending' = [pending EXCEPT ![<<u, a>>] = 0]
      /\ stage' = [stage EXCEPT ![c] = "running"]
      /\ runs' = [runs EXCEPT ![c] = runs[c] + 1]
      /\ ~Expired(c)
      /\ UNCHANGED <<now, made, request, effect, logged, durable, told, crashes>>
  BY <1>k, <1>t DEF Confirm, PowerTypeOK, Requests
<1>2. runs[c] = 0 /\ request[c].key = <<u, a>> /\ request[c].fate = "open" /\ c <= made
      /\ u \notin ReadOnly
  BY <1>1, <1>k DEF PowerInv, Registered
<1>3. now < request[c].expires
  BY <1>1, <1>t DEF Expired, PowerTypeOK
<1> HIDE DEF c
<1>4. /\ runs'[c] = 1 /\ stage'[c] = "running"
      /\ \A r \in Requests : r # c => runs'[r] = runs[r] /\ stage'[r] = stage[r]
      /\ \A r \in Requests : runs[r] \in Nat /\ r \in Nat
  BY <1>1, <1>2, <1>t DEF PowerTypeOK, Requests
<1>5. PowerTypeOK'
  <2>1. pending' \in [Keys -> 0..MaxRequests]
    BY <1>1, <1>t, <1>k DEF PowerTypeOK
  <2>2. runs' \in [Requests -> Nat]
    BY <1>1, <1>2, <1>t DEF PowerTypeOK
  <2> QED BY <2>1, <2>2, <1>1, <1>t DEF PowerTypeOK
<1>6. Registered'
  <2>1. ASSUME NEW k \in Keys, pending'[k] # 0
        PROVE  pending'[k] = pending[k] /\ runs'[pending[k]] = 0
    <3>1. pending'[k] = pending[k] /\ k # <<u, a>>
      BY <2>1, <1>1, <1>t, <1>k DEF PowerTypeOK
    <3>2. pending[k] \in Requests /\ request[pending[k]].key = k /\ runs[pending[k]] = 0
      BY <2>1, <3>1, <1>t DEF PowerTypeOK, Requests, PowerInv, Registered
    <3> QED BY <3>1, <3>2, <1>2, <1>4
  <2> QED BY <2>1, <1>1 DEF PowerInv, Registered
<1>7. Accounts'
  BY <1>1, <1>2, <1>4, <1>t DEF PowerInv, Accounts, PowerTypeOK
<1>8. PowerInv'
  BY <1>1, <1>5, <1>6, <1>7 DEF PowerInv
<1> QED BY <1>2, <1>3, <1>4, <1>8

\* Only Confirm starts commands; the other steps keep what they do not write.
LEMMA OtherStep ==
    ASSUME PowerInv, [PowerNext]_powerVars,
           ~ \E u \in Users, a \in Actions : Request(u, a) \/ Confirm(u, a)
    PROVE  PowerInv' /\ runs' = runs
<1> USE PowerAssumption
<1>t. PowerTypeOK
  BY DEF PowerInv
<1>1. ASSUME NEW u \in Users, NEW a \in Actions, ConfirmExpired(u, a)
      PROVE  PowerInv' /\ runs' = runs
  <2>1. \A k \in Keys : pending'[k] \in {0, pending[k]}
    BY <1>1, <1>t DEF ConfirmExpired, PowerTypeOK
  <2>2. UNCHANGED <<now, made, request, stage, runs, effect, logged, durable, told, crashes>>
    BY <1>1 DEF ConfirmExpired
  <2>3. pending' \in [Keys -> 0..MaxRequests]
    <3>1. pending \in [Keys -> 0..MaxRequests] /\ 0 \in 0..MaxRequests
      BY <1>t DEF PowerTypeOK
    <3>2. pending' = [pending EXCEPT ![<<u, a>>] = 0]
      BY <1>1 DEF ConfirmExpired
    <3> QED BY <3>1, <3>2
  <2> QED BY <2>1, <2>2, <2>3 DEF PowerInv, PowerTypeOK, Registered, Accounts
<1>2. ASSUME NEW u \in Users, Dismiss(u) PROVE PowerInv' /\ runs' = runs
  <2>1. \A k \in Keys : pending'[k] = IF k[1] = u THEN 0 ELSE pending[k]
    BY <1>2 DEF Dismiss
  <2>2. UNCHANGED <<now, made, stage, runs, effect, logged, durable, told, crashes>>
    BY <1>2 DEF Dismiss
  <2>3. pending' \in [Keys -> 0..MaxRequests]
    BY <1>2, <2>1, <1>t DEF Dismiss, PowerTypeOK
  <2>4. ASSUME NEW r \in Requests
        PROVE  /\ request'[r].key = request[r].key
               /\ request[r].key[1] # u => request'[r] = request[r]
               /\ request'[r] \in [key : Keys, expires : Nat, fate : {"none", "open", "withdrawn"}]
    <3>1. request'[r] = IF pending[request[r].key] = r /\ request[r].key[1] = u
                       THEN [request[r] EXCEPT !.fate = "withdrawn"] ELSE request[r]
      BY <1>2 DEF Dismiss
    <3>2. request[r] \in [key : Keys, expires : Nat, fate : {"none", "open", "withdrawn"}]
      BY <1>t DEF PowerTypeOK
    <3> QED BY <3>1, <3>2
  <2>5. request' \in [Requests -> [key : Keys, expires : Nat, fate : {"none", "open", "withdrawn"}]]
    BY <2>4, <1>2 DEF Dismiss
  <2>6. PowerTypeOK'
    BY <2>2, <2>3, <2>5, <1>t DEF PowerTypeOK
  <2>7. Registered'
    <3>1. ASSUME NEW k \in Keys, pending'[k] # 0
          PROVE  pending'[k] = pending[k] /\ request'[pending[k]] = request[pending[k]]
      <4>1. pending'[k] = pending[k] /\ k[1] # u
        BY <3>1, <2>1
      <4>2. pending[k] \in Requests /\ request[pending[k]].key = k
        BY <3>1, <4>1, <1>t DEF PowerTypeOK, Requests, PowerInv, Registered
      <4> QED BY <4>1, <4>2, <2>4
    <3> QED BY <3>1, <2>2 DEF PowerInv, Registered
  <2>8. Accounts'
    BY <2>2, <2>4 DEF PowerInv, Accounts
  <2> QED BY <2>2, <2>6, <2>7, <2>8 DEF PowerInv
<1>3. ASSUME NEW r \in Requests,
             TakesEffect(r) \/ PerformFails(r) \/ Performed(r) \/ InsertRow(r) \/ CommitRow(r)
      PROVE  PowerInv' /\ runs' = runs
  <2>1. UNCHANGED <<now, made, pending, request, runs, crashes>>
    BY <1>3 DEF TakesEffect, PerformFails, Performed, InsertRow, CommitRow
  <2>2. PowerTypeOK'
    BY <1>3, <2>1, <1>t DEF PowerTypeOK, TakesEffect, PerformFails, Performed, InsertRow, CommitRow
  <2>3. Registered'
    BY <2>1 DEF PowerInv, Registered
  <2>4. \A q \in Requests : stage'[q] = "commit" => q \in logged'
    BY <1>3, <1>t DEF PowerInv, Accounts, PowerTypeOK, TakesEffect, PerformFails, Performed, InsertRow,
       CommitRow
  <2>5. durable' \subseteq logged' /\ told' \subseteq durable'
    BY <1>3 DEF PowerInv, Accounts, TakesEffect, PerformFails, Performed, InsertRow, CommitRow
  <2> QED BY <2>1, <2>2, <2>3, <2>4, <2>5 DEF PowerInv, Accounts
<1>4. CASE OtherCommit
  BY <1>4 DEF OtherCommit, PowerInv, PowerTypeOK, Registered, Accounts
<1>5. CASE Restart
  <2>1. /\ UNCHANGED <<now, made, request, runs, effect, durable, told>>
        /\ logged' = durable
        /\ \A k \in Keys : pending'[k] = 0
        /\ \A r \in Requests : stage'[r] \in {"none", "over"}
    BY <1>5 DEF Restart
  <2>2. PowerTypeOK'
    BY <1>5, <1>t DEF Restart, PowerTypeOK
  <2>3. Registered'
    BY <2>1 DEF Registered
  <2>4. Accounts'
    BY <2>1 DEF PowerInv, Accounts
  <2> QED BY <2>1, <2>2, <2>3, <2>4 DEF PowerInv
<1>6. CASE Tick
  BY <1>6 DEF Tick, PowerInv, PowerTypeOK, Registered, Accounts
<1>7. CASE UNCHANGED powerVars
  BY <1>7 DEF powerVars, PowerInv, PowerTypeOK, Registered, Accounts
<1> QED BY <1>1, <1>2, <1>3, <1>4, <1>5, <1>6, <1>7 DEF PowerNext

LEMMA PowerStepInv == PowerInv /\ [PowerNext]_powerVars => PowerInv'
BY RequestStep, ConfirmStep, OtherStep

\* The inductive invariant, of which the next theorems are consequences.
THEOREM PowerInvariant == PowerSpec => []PowerInv
BY PowerInitInv, PowerStepInv, PTL DEF PowerSpec

\* The table of confirmations and the requests keep their types: a confirmation that
\* is registered is always one of a request that was made (core/confirmation.py:40).
THEOREM PowerTypes == PowerSpec => []PowerTypeOK
<1>1. PowerInv => PowerTypeOK
  BY DEF PowerInv
<1> QED BY PowerInvariant, <1>1, PTL

\* One request runs its command at most once, whatever is confirmed, dismissed,
\* replaced or restarted (confirmation.py:79).
THEOREM RunsOnce == PowerSpec => []OncePerRequest
<1>1. PowerInv => OncePerRequest
  BY DEF PowerInv, Accounts, OncePerRequest
<1> QED BY PowerInvariant, <1>1, PTL

\* No request of a read-only user ever runs a command (permissions.py:47-57).
THEOREM AdminsOnly == PowerSpec => []OnlyAdmins
<1>1. PowerInv => OnlyAdmins
  BY DEF PowerInv, Accounts, OnlyAdmins
<1> QED BY PowerInvariant, <1>1, PTL

\* What was reported as executed has a durable audit row (commands/power.py:77-78).
THEOREM ReportsAudited == PowerSpec => []ToldIsAudited
<1>1. PowerInv => ToldIsAudited
  BY DEF PowerInv, ToldIsAudited
<1> QED BY PowerInvariant, <1>1, PTL

\* Commands start only from requests that are valid at that moment
\* (confirmation.py:70-88).
THEOREM StartsValid == PowerSpec => StartsConfirmed
<1>1. PowerInv /\ [PowerNext]_powerVars
        => [\A r \in Requests : runs'[r] > runs[r]
               => now < request[r].expires /\ request[r].fate = "open"]_powerVars
  <2> SUFFICES ASSUME PowerInv, PowerNext, NEW r \in Requests, runs'[r] > runs[r]
               PROVE  now < request[r].expires /\ request[r].fate = "open"
    OBVIOUS
  <2>0. runs[r] \in Nat
    BY DEF PowerInv, PowerTypeOK
  <2>1. ASSUME NEW u \in Users, NEW a \in Actions, Request(u, a) PROVE FALSE
    BY <2>0, <2>1 DEF Request
  <2>2. ASSUME NEW u \in Users, NEW a \in Actions, Confirm(u, a)
        PROVE  now < request[r].expires /\ request[r].fate = "open"
    BY <2>2, ConfirmStep
  <2>3. CASE ~ \E u \in Users, a \in Actions : Request(u, a) \/ Confirm(u, a)
    <3>1. runs' = runs
      BY <2>3, OtherStep
    <3> QED BY <3>1, <2>0
  <2> QED BY <2>1, <2>2, <2>3
<1> QED BY PowerInvariant, <1>1, PTL DEF PowerSpec, StartsConfirmed

-----------------------------------------------------------------------------
(* A request is a OneTimeGrant.                                              *)

\* The handlers are of requests that were confirmed, and only what took effect is logged.
Acted ==
    /\ \A r \in Requests :
         /\ stage[r] \in {"running", "audit", "commit"} => runs[r] > 0
         /\ stage[r] = "audit" => r \in effect
         /\ r \in effect => runs[r] > 0
    /\ logged \subseteq effect

LEMMA ActedStep == PowerInv /\ Acted /\ [PowerNext]_powerVars => Acted'
<1> SUFFICES ASSUME PowerInv, Acted, [PowerNext]_powerVars PROVE Acted'
  OBVIOUS
<1>t. PowerTypeOK
  BY DEF PowerInv
<1>1. ASSUME NEW u \in Users, NEW a \in Actions, Confirm(u, a) PROVE Acted'
  <2> DEFINE c == pending[<<u, a>>]
  <2>1. /\ c \in Requests
        /\ stage' = [stage EXCEPT ![c] = "running"] /\ runs' = [runs EXCEPT ![c] = @ + 1]
        /\ UNCHANGED <<effect, logged>>
    <3>1. <<u, a>> \in Keys
      BY DEF Keys
    <3> QED BY <1>1, <1>t, <3>1 DEF Confirm, PowerTypeOK, Requests
  <2> HIDE DEF c
  <2>2. \A r \in Requests :
          /\ runs'[r] = IF r = c THEN runs[r] + 1 ELSE runs[r]
          /\ stage'[r] = IF r = c THEN "running" ELSE stage[r]
          /\ runs[r] \in Nat
    BY <2>1, <1>t DEF PowerTypeOK
  <2> QED BY <2>1, <2>2 DEF Acted
<1>2. ASSUME NEW r \in Requests,
             TakesEffect(r) \/ PerformFails(r) \/ Performed(r) \/ InsertRow(r) \/ CommitRow(r)
      PROVE  Acted'
  BY <1>2, <1>t DEF Acted, PowerTypeOK, TakesEffect, PerformFails, Performed, InsertRow, CommitRow
<1>3. CASE Restart
  <2>1. \A r \in Requests : stage'[r] \in {"none", "over"}
    BY <1>3 DEF Restart
  <2> QED BY <1>3, <2>1 DEF Restart, Acted, PowerInv
<1>4. CASE UNCHANGED <<stage, runs, effect, logged>>
  BY <1>4 DEF Acted
<1>5. CASE \/ \E u \in Users, a \in Actions : Request(u, a) \/ ConfirmExpired(u, a)
           \/ \E u \in Users : Dismiss(u)
           \/ OtherCommit \/ Tick \/ UNCHANGED powerVars
  BY <1>4, <1>5 DEF Request, ConfirmExpired, Dismiss, OtherCommit, Tick, powerVars
<1> QED BY <1>1, <1>2, <1>3, <1>5 DEF PowerNext

\* Whatever happens to the table, request r is offered, used or made void, or stays.
LEMMA GrantStep ==
    ASSUME PowerInv, Acted, [PowerNext]_powerVars, NEW r \in Requests
    PROVE  [Grant(r)!Next]_(Grant(r)!vars)
<1> USE DEF Grant!vars
<1>t. PowerTypeOK /\ r \in Nat \ {0} /\ runs[r] \in Nat /\ made \in Nat /\ now \in Nat
  BY DEF PowerInv, PowerTypeOK, Requests
<1>k. request[r].key \in Keys /\ pending[request[r].key] \in Nat
  BY <1>t DEF PowerTypeOK
<1>s. ASSUME UNCHANGED <<now, made, pending, request, runs, effect, durable, told>>
      PROVE  UNCHANGED Grant(r)!vars
  BY <1>s DEF GrantOf
<1>1. ASSUME NEW u \in Users, NEW a \in Actions, Request(u, a)
      PROVE  [Grant(r)!Next]_(Grant(r)!vars)
  <2>0. <<u, a>> \in Keys
    BY DEF Keys
  <2>1. /\ made' = made + 1
        /\ UNCHANGED <<now, runs, effect, durable, told>>
        /\ \A k \in Keys : pending'[k] = IF k = <<u, a>> THEN made + 1 ELSE pending[k]
        /\ request'[r] = IF r = made + 1
                           THEN [key |-> <<u, a>>, expires |-> now + Window, fate |-> "open"]
                         ELSE IF r = pending[<<u, a>>]
                           THEN [request[r] EXCEPT !.fate = "withdrawn"]
                         ELSE request[r]
    BY <1>1, <1>t, <2>0 DEF Request, PowerTypeOK
  <2>2. CASE r = made + 1
    <3>1. GrantOf(r) = "none"
      BY <2>2, <1>t DEF PowerInv, Accounts, GrantOf
    <3>2. request'[r].key = <<u, a>> /\ request'[r].expires = now + Window
      BY <2>1, <2>2
    <3>3. GrantOf(r)' = "open"
      BY <2>0, <2>1, <2>2, <3>1, <3>2, <1>t DEF GrantOf
    <3>4. now + Window > now
      BY <1>t, PowerAssumption
    <3> QED BY <2>1, <3>1, <3>2, <3>3, <3>4 DEF Grant!Next, Grant!Offer
  <2>3. CASE r # made + 1
    <3>1. request'[r].key = request[r].key /\ request'[r].expires = request[r].expires
      <4>1. request[r] \in [key : Keys, expires : Nat, fate : {"none", "open", "withdrawn"}]
        BY <1>t DEF PowerTypeOK
      <4> QED BY <2>1, <2>3, <4>1
    <3>2. pending'[request[r].key] = pending[request[r].key]
            \/ pending'[request[r].key] = made + 1
      BY <2>1, <1>k
    <3>3. r > made' <=> r > made
      BY <2>1, <2>3, <1>t
    <3>4. GrantOf(r)' = GrantOf(r) \/ (GrantOf(r) = "open" /\ GrantOf(r)' = "void")
      BY <2>1, <2>3, <3>1, <3>2, <3>3 DEF GrantOf
    <3> QED BY <2>1, <3>1, <3>4 DEF Grant!Next, Grant!Void
  <2> QED BY <2>2, <2>3
<1>2. ASSUME NEW u \in Users, NEW a \in Actions, Confirm(u, a)
      PROVE  [Grant(r)!Next]_(Grant(r)!vars)
  <2>0. <<u, a>> \in Keys
    BY DEF Keys
  <2> DEFINE c == pending[<<u, a>>]
  <2>1. /\ c \in Requests /\ runs[c] = 0 /\ request[c].key = <<u, a>> /\ c <= made
    <3>1. c \in Requests /\ c # 0
      BY <2>0, <1>2, <1>t DEF Confirm, PowerTypeOK, Requests
    <3> QED BY <2>0, <3>1 DEF PowerInv, Registered
  <2>2. /\ \A k \in Keys : pending'[k] = IF k = <<u, a>> THEN 0 ELSE pending[k]
        /\ runs'[r] = IF r = c THEN runs[r] + 1 ELSE runs[r]
        /\ ~Expired(c)
        /\ UNCHANGED <<now, made, request, effect, durable, told>>
    BY <2>0, <1>2, <1>t DEF Confirm, PowerTypeOK
  <2>d. pending[<<u, a>>] = c
    OBVIOUS
  <2> HIDE DEF c
  <2>3. CASE r = c
    <3>1. GrantOf(r) = "open"
      BY <2>1, <2>3, <2>d, <1>t DEF GrantOf
    <3>2. GrantOf(r)' = "used"
      BY <2>1, <2>2, <2>3 DEF GrantOf
    <3>3. now < request[r].expires
      <4>1. request[r].expires \in Nat
        BY <1>t DEF PowerTypeOK
      <4> QED BY <2>2, <2>3, <4>1, <1>t DEF Expired
    <3> QED BY <2>2, <3>1, <3>2, <3>3 DEF Grant!Next, Grant!Use
  <2>4. CASE r # c
    <3>1. request[r].key = <<u, a>> => pending[request[r].key] # r
      BY <2>4, <2>d
    <3>2. pending'[request[r].key] = r <=> pending[request[r].key] = r
      BY <2>2, <3>1, <1>k, <1>t
    <3>3. GrantOf(r)' = GrantOf(r)
      BY <2>2, <2>4, <3>2 DEF GrantOf
    <3> QED BY <2>2, <3>3
  <2> QED BY <2>3, <2>4
<1>3. ASSUME UNCHANGED <<now, made, runs, effect, durable, told>>,
             request'[r].key = request[r].key, request'[r].expires = request[r].expires,
             pending'[request[r].key] \in {0, pending[request[r].key]}
      PROVE  [Grant(r)!Next]_(Grant(r)!vars)
  <2>1. GrantOf(r)' = GrantOf(r) \/ (GrantOf(r) = "open" /\ GrantOf(r)' = "void")
    BY <1>3, <1>t DEF GrantOf
  <2> QED BY <1>3, <2>1 DEF Grant!Next, Grant!Void
<1>4. ASSUME NEW u \in Users, NEW a \in Actions, ConfirmExpired(u, a)
      PROVE  [Grant(r)!Next]_(Grant(r)!vars)
  <2>1. pending'[request[r].key] \in {0, pending[request[r].key]}
    BY <1>4, <1>k, <1>t DEF ConfirmExpired, PowerTypeOK
  <2> QED BY <1>3, <1>4, <2>1 DEF ConfirmExpired
<1>5. ASSUME NEW u \in Users, Dismiss(u)
      PROVE  [Grant(r)!Next]_(Grant(r)!vars)
  <2>1. pending'[request[r].key] \in {0, pending[request[r].key]}
    BY <1>5, <1>k DEF Dismiss
  <2>2. request'[r].key = request[r].key /\ request'[r].expires = request[r].expires
    <3>1. request'[r] = IF pending[request[r].key] = r /\ request[r].key[1] = u
                       THEN [request[r] EXCEPT !.fate = "withdrawn"] ELSE request[r]
      BY <1>5 DEF Dismiss
    <3>2. request[r] \in [key : Keys, expires : Nat, fate : {"none", "open", "withdrawn"}]
      BY <1>t DEF PowerTypeOK
    <3> QED BY <3>1, <3>2
  <2> QED BY <1>3, <1>5, <2>1, <2>2 DEF Dismiss
<1>6. ASSUME NEW q \in Requests, TakesEffect(q)
      PROVE  [Grant(r)!Next]_(Grant(r)!vars)
  <2>1. GrantOf(r)' = GrantOf(r) /\ UNCHANGED <<now, request, durable, told>>
    BY <1>6 DEF TakesEffect, GrantOf
  <2>2. CASE r = q
    <3>1. GrantOf(r) = "used"
      BY <1>6, <2>2 DEF TakesEffect, Acted, GrantOf
    <3> QED BY <1>6, <2>1, <2>2, <3>1 DEF TakesEffect, Grant!Next, Grant!Act
  <2>3. CASE r # q
    <3>1. r \in effect' <=> r \in effect
      BY <1>6, <2>3 DEF TakesEffect
    <3> QED BY <2>1, <3>1
  <2> QED BY <2>2, <2>3
<1>7. ASSUME NEW q \in Requests, PerformFails(q) \/ Performed(q) \/ InsertRow(q)
      PROVE  [Grant(r)!Next]_(Grant(r)!vars)
  BY <1>7, <1>s DEF PerformFails, Performed, InsertRow
<1>8. ASSUME UNCHANGED <<now, made, pending, request, runs, effect>>, durable' = logged,
             told \subseteq told', r \in told' => r \in told \cup logged
      PROVE  [Grant(r)!Next]_(Grant(r)!vars)
  <2>1. GrantOf(r)' = GrantOf(r) /\ UNCHANGED <<now, request>>
    BY <1>8 DEF GrantOf
  <2>2. CASE r \in logged
    <3>1. (r \in told') = (r \in told) \/ (r \in told') = TRUE
      BY <1>8
    <3> QED BY <1>8, <2>1, <2>2, <3>1 DEF Acted, Grant!Next, Grant!Record
  <2>3. CASE r \notin logged
    <3>1. (r \in durable' <=> r \in durable) /\ (r \in told' <=> r \in told)
      BY <1>8, <2>3 DEF PowerInv
    <3> QED BY <1>8, <2>1, <3>1
  <2> QED BY <2>2, <2>3
<1>9. ASSUME NEW q \in Requests, CommitRow(q)
      PROVE  [Grant(r)!Next]_(Grant(r)!vars)
  <2>1. q \in logged
    BY <1>9 DEF CommitRow, PowerInv, Accounts
  <2> QED BY <1>8, <1>9, <2>1 DEF CommitRow
<1>10. CASE OtherCommit
  BY <1>8, <1>10 DEF OtherCommit
<1>11. CASE Restart
  <2>1. pending'[request[r].key] = 0
    BY <1>11, <1>k DEF Restart
  <2> QED BY <1>3, <1>11, <2>1 DEF Restart
<1>12. CASE Tick
  <2>1. GrantOf(r)' = GrantOf(r)
    BY <1>12 DEF Tick, GrantOf
  <2> QED BY <1>12, <2>1 DEF Tick, Grant!Next, Grant!Tick
<1>13. CASE UNCHANGED powerVars
  BY <1>13, <1>s DEF powerVars
<1> QED BY <1>1, <1>2, <1>4, <1>5, <1>6, <1>7, <1>9, <1>10, <1>11, <1>12, <1>13 DEF PowerNext

\* Whatever was confirmed twice, replaced, dismissed, expired or lost in a restart, each
\* request does only what OneTimeGrant allows (core/confirmation.py:79-88,
\* commands/power.py:58-80).
THEOREM GrantsImplemented == PowerSpec => RequestsAreGrants
<1> DEFINE Steps == \A r \in Requests : Grant(r)!Next \/ UNCHANGED Grant(r)!vars
<1>1. PowerInit => Acted /\ \A r \in Requests : Grant(r)!Init
  <2> SUFFICES ASSUME PowerInit PROVE Acted /\ \A r \in Requests : Grant(r)!Init
    OBVIOUS
  <2>1. ASSUME NEW r \in Requests PROVE Grant(r)!Init
    <3>1. runs[r] = 0 /\ made = 0 /\ r > 0 /\ request[r] = NoRequest
      BY DEF PowerInit, Requests
    <3> QED BY <3>1 DEF PowerInit, Grant!Init, GrantOf, NoRequest
  <2>2. Acted
    BY DEF PowerInit, Acted
  <2> QED BY <2>1, <2>2
<1>2. PowerInv /\ Acted /\ [PowerNext]_powerVars => [Steps]_powerVars
  BY GrantStep
<1> QED BY <1>1, <1>2, ActedStep, PowerInvariant, PTL DEF PowerSpec, RequestsAreGrants

-----------------------------------------------------------------------------
(***************************************************************************)
(* PcControl.  Every step is of one message, and what it leaves to the     *)
(* others is the same for all steps (Apart).                               *)
(***************************************************************************)
\* The system commands of a message, written out.
LEMMA Joined ==
    ASSUME NEW S, NEW a \in S, NEW s \in Seq(S), NEW t \in Seq(S),
           Len(t) = Len(s) + 1, t[1] = a, \A i \in 1..Len(s) : t[i + 1] = s[i]
    PROVE  <<a>> \o s = t
<1> DEFINE r == <<a>> \o s
<1>1. <<a>> \in Seq(S) /\ Len(<<a>>) = 1 /\ <<a>>[1] = a
  OBVIOUS
<1>2. r \in Seq(S) /\ Len(r) = Len(t)
  BY <1>1, ConcatProperties
<1>3. ASSUME NEW i \in 1..Len(r) PROVE r[i] = t[i]
  <2>1. r[i] = IF i <= 1 THEN <<a>>[i] ELSE s[i - 1]
    BY <1>1, <1>2, ConcatProperties
  <2>2. CASE i = 1
    BY <2>1, <2>2, <1>1
  <2>3. CASE i # 1
    <3>1. i - 1 \in 1..Len(s) /\ (i - 1) + 1 = i
      BY <2>3, <1>2
    <3> QED BY <3>1, <2>1
  <2> QED BY <2>2, <2>3
<1> HIDE DEF r
<1>4. r = t
  BY <1>2, <1>3, SeqEqual
<1> QED BY <1>4 DEF r

LEMMA JoinedPair ==
    ASSUME NEW a, NEW b, NEW c
    PROVE  <<a>> \o <<b, c>> = <<a, b, c>>
<1>1. /\ a \in {a, b, c}
      /\ <<b, c>> \in Seq({a, b, c}) /\ <<a, b, c>> \in Seq({a, b, c})
  OBVIOUS
<1>2. Len(<<a, b, c>>) = Len(<<b, c>>) + 1 /\ <<a, b, c>>[1] = a
  OBVIOUS
<1>3. \A i \in 1..Len(<<b, c>>) : <<a, b, c>>[i + 1] = <<b, c>>[i]
  OBVIOUS
<1> QED BY <1>1, <1>2, <1>3, Joined

LEMMA JoinedTriple ==
    ASSUME NEW a, NEW b, NEW c, NEW d
    PROVE  <<a>> \o <<b, c, d>> = <<a, b, c, d>>
<1>1. /\ a \in {a, b, c, d}
      /\ <<b, c, d>> \in Seq({a, b, c, d}) /\ <<a, b, c, d>> \in Seq({a, b, c, d})
  OBVIOUS
<1>2. Len(<<a, b, c, d>>) = Len(<<b, c, d>>) + 1 /\ <<a, b, c, d>>[1] = a
  OBVIOUS
<1>3. \A i \in 1..Len(<<b, c, d>>) : <<a, b, c, d>>[i + 1] = <<b, c, d>>[i]
  OBVIOUS
<1> QED BY <1>1, <1>2, <1>3, Joined

LEMMA Scripts ==
    /\ DOMAIN Script = {"vpn_status", "ip", "vpn", "vpn_change", "docker_restart",
                     "docker_logs", "lock", "screenshot", "capture", "query"}
    /\ Script["vpn_status"] = <<"status", "settings">>
    /\ Script["ip"] = <<"addr", "status", "settings">>
    /\ Script["vpn"] = <<"connect", "status", "settings">>
    /\ Script["vpn_change"] = <<"disconnect", "connect", "status", "settings">>
    /\ Script["docker_restart"] = <<"known", "restart">>
    /\ Script["docker_logs"] = <<"known", "logs">>
    /\ Script["lock"] = <<"locker">>
    /\ Script["screenshot"] = <<"grim">>
    /\ Script["capture"] = <<"ffmpeg">>
    /\ Script["query"] = <<"query">>
<1>1. Connection = <<"connect", "status", "settings">>
  BY JoinedPair DEF Connection, VpnStatus
<1>2. Reconnection = <<"disconnect", "connect", "status", "settings">>
  BY <1>1, JoinedTriple DEF Reconnection
<1>3. NetworkStatus \o VpnStatus = <<"addr", "status", "settings">>
  BY JoinedPair DEF NetworkStatus, VpnStatus
<1>4. DOMAIN Script = {"vpn_status", "ip", "vpn", "vpn_change", "docker_restart",
                          "docker_logs", "lock", "screenshot", "capture", "query"}
  BY DEF Script
<1>5. /\ Script["vpn_status"] = VpnStatus
      /\ Script["ip"] = NetworkStatus \o VpnStatus
      /\ Script["vpn"] = Connection
      /\ Script["vpn_change"] = Reconnection
      /\ Script["docker_restart"] = ContainerRestart
      /\ Script["docker_logs"] = ContainerLogs
      /\ Script["lock"] = Lock
      /\ Script["screenshot"] = Screenshot
      /\ Script["capture"] = Capture
      /\ Script["query"] = Containers
  BY DEF Script
<1> QED
  BY <1>1, <1>2, <1>3, <1>4, <1>5
     DEF VpnStatus, ContainerRestart, ContainerLogs, Lock, Screenshot,
         Capture, Containers

LEMMA ScriptFacts ==
    ASSUME NEW k \in Kinds
    PROVE  /\ Len(Script[k]) \in 1..4
           /\ \A i \in 1..Len(Script[k]) :
                /\ Script[k][i] = "disconnect" => k = "vpn_change" /\ i = 1
                /\ Script[k][i] = "status" /\ k \in Audited
                     => i > 1 /\ Script[k][i - 1] = "connect"
           /\ k = "vpn_change" =>
                /\ Script[k][1] = "disconnect"
                /\ Script[k][2] = "connect"
                /\ Len(Script[k]) = 4
           /\ k \in Captures =>
                Len(Script[k]) = 1 /\ Script[k][1] \in {"grim", "ffmpeg"}
           /\ k \in Audited =>
                \E i \in 1..Len(Script[k]) :
                    /\ Script[k][i] \in Deeds
                    /\ i < Len(Script[k]) => Script[k][Len(Script[k])] = "settings"
<1> USE DEF Audited, Captures, Deeds
<1>1. CASE k = "vpn_status"
  BY <1>1, Scripts
<1>2. CASE k = "ip"
  BY <1>2, Scripts
<1>3. CASE k = "vpn"
  BY <1>3, Scripts
<1>4. CASE k = "vpn_change"
  BY <1>4, Scripts
<1>5. CASE k = "docker_restart"
  BY <1>5, Scripts
<1>6. CASE k = "docker_logs"
  BY <1>6, Scripts
<1>7. CASE k = "lock"
  BY <1>7, Scripts
<1>8. CASE k = "screenshot"
  BY <1>8, Scripts
<1>9. CASE k = "capture"
  BY <1>9, Scripts
<1>10. CASE k = "query"
  BY <1>10, Scripts
<1> QED BY <1>1, <1>2, <1>3, <1>4, <1>5, <1>6, <1>7, <1>8, <1>9, <1>10, Scripts DEF Kinds

\* What the handler has carried out by now, and has in the log.
Carried(u) ==
    /\ at[u] \in 1..Len(Script[kind[u]])
    /\ pc[u] = "idle" => at[u] = 1
    /\ \A i \in 1..(at[u] - 1) : Script[kind[u]][i] \in Deeds => u \in did
    /\ pc[u] = "running" /\ took[u] /\ Command(u) \in Deeds => u \in did
    /\ pc[u] = "audit" => kind[u] \in Audited
    /\ pc[u] \in {"audit", "tell"} /\ kind[u] \in Audited => u \in did
    /\ pc[u] = "tell" /\ kind[u] \in Audited => u \in audited
    /\ u \in audited => u \in did
    /\ pc[u] # "done" => answer[u] = "none"
    /\ answer[u] \in {"ok", "whole"} /\ kind[u] \in Audited => u \in audited

\* A capture that goes on to the answer is finished.
Captured(u) ==
    /\ kind[u] \in Captures /\ ((pc[u] = "running" /\ took[u]) \/ pc[u] \in {"audit", "tell"})
         => file[u] = "whole"
    /\ answer[u] \notin {"empty", "partial"}

Reconnecting(u) ==
    /\ kind[u] = "vpn_change"
    /\ \/ pc[u] \in {"ready", "running"} /\ at[u] = 1
       \/ pc[u] = "ready" /\ at[u] = 2
       \/ pc[u] = "running" /\ at[u] = 2 /\ ~took[u]

Refused(u) == pc[u] = "done" /\ answer[u] = "error"

\* Who took the tunnel down, or still may, is at it or was told of an error.
Owned(u) ==
    /\ <<u, "disconnect">> \in late => Refused(u)
    /\ downBy = u /\ ~tunnel => Reconnecting(u) \/ Refused(u)

Kept(u) == Carried(u) /\ Captured(u) /\ Owned(u)
PcInv == TypeOK /\ \A u \in Updates : Kept(u)

\* What the step of one message leaves as it is for another one.
Apart(w) ==
    /\ pc'[w] = pc[w] /\ at'[w] = at[w] /\ took'[w] = took[w] /\ kind'[w] = kind[w]
    /\ answer'[w] = answer[w] /\ file'[w] = file[w]
    /\ (w \in did') = (w \in did)
    /\ (w \in audited') = (w \in audited)
    /\ <<w, "disconnect">> \in late' => <<w, "disconnect">> \in late
    /\ downBy' = w /\ ~tunnel' => downBy = w /\ ~tunnel

LEMMA ApartKept ==
    ASSUME NEW w \in Updates, Kept(w), Apart(w)
    PROVE  Kept(w)'
<1>1. Carried(w)'
  <2>1. Command(w)' = Command(w)
    BY DEF Apart, Command
  <2> QED BY <2>1 DEF Kept, Carried, Apart
<1>2. Captured(w)'
  BY DEF Kept, Captured, Apart
<1>3. Owned(w)'
  BY DEF Kept, Owned, Reconnecting, Refused, Apart
<1> QED BY <1>1, <1>2, <1>3 DEF Kept

LEMMA InitPc ==
    ASSUME Init
    PROVE  PcInv
<1>1. "query" \in Kinds /\ Len(Script["query"]) = 1 /\ Script["query"] = <<"query">>
  BY Scripts DEF Kinds
<1>2. TypeOK
  BY <1>1 DEF Init, TypeOK
<1>3. ASSUME NEW u \in Updates PROVE Kept(u)
  <2>1. Carried(u)
    <3>1. kind[u] = "query" /\ at[u] = 1 /\ pc[u] = "idle" /\ answer[u] = "none" /\ audited = {}
      BY DEF Init
    <3>2. at[u] \in 1..Len(Script[kind[u]])
      BY <3>1, <1>1
    <3> QED BY <3>1, <3>2 DEF Carried
  <2>2. Captured(u) /\ Owned(u)
    BY PcAssumption DEF Init, Captured, Owned, Captures
  <2> QED BY <2>1, <2>2 DEF Kept
<1> QED BY <1>2, <1>3 DEF PcInv

LEMMA DropsPc ==
    ASSUME PcInv, Drops
    PROVE  PcInv'
<1>1. TypeOK'
  BY DEF PcInv, TypeOK, Drops, Disconnects, handler
<1>2. ASSUME NEW w \in Updates PROVE Kept(w)'
  <2>1. Apart(w)
    BY PcAssumption DEF Apart, Drops, Disconnects, handler
  <2> QED BY <2>1, ApartKept DEF PcInv
<1> QED BY <1>1, <1>2 DEF PcInv

LEMMA StragglesPc ==
    ASSUME PcInv, NEW u \in Updates, NEW c \in {"connect", "disconnect"}, Straggles(u, c)
    PROVE  PcInv'
<1>1. TypeOK'
  BY DEF PcInv, TypeOK, Straggles, Connects, Disconnects, handler
<1>2. ASSUME NEW w \in Updates, w # u PROVE Kept(w)'
  <2>1. Apart(w)
    BY <1>2 DEF Apart, Straggles, Connects, Disconnects, handler
  <2> QED BY <2>1, ApartKept DEF PcInv
<1>3. Kept(u)'
  <2> USE DEF handler
  <2>0. Kept(u)
    BY DEF PcInv
  <2>1. Carried(u)'
    <3>1. Command(u)' = Command(u)
      BY DEF Straggles, Command
    <3>2. u \in did => u \in did'
      BY DEF Straggles, Connects, Disconnects
    <3> QED BY <2>0, <3>1, <3>2 DEF Kept, Carried, Straggles
  <2>2. Captured(u)'
    BY <2>0 DEF Kept, Captured, Straggles
  <2>3. Owned(u)'
    <3>1. CASE c = "disconnect"
      BY <2>0, <3>1 DEF Kept, Owned, Refused, Straggles
    <3>2. CASE c = "connect"
      BY <2>0, <3>2 DEF Kept, Owned, Refused, Reconnecting, Straggles, Connects
    <3> QED BY <3>1, <3>2
  <2> QED BY <2>1, <2>2, <2>3 DEF Kept
<1> QED BY <1>1, <1>2, <1>3 DEF PcInv

LEMMA TakesPc ==
    ASSUME PcInv, NEW u \in Updates, Takes(u)
    PROVE  PcInv'
<1> USE DEF Takes
<1>0. Kept(u) /\ TypeOK /\ kind[u] \in Kinds
  BY DEF PcInv, TypeOK
<1>1. TypeOK'
  BY <1>0 DEF TypeOK, Connects, Disconnects
<1>2. ASSUME NEW w \in Updates, w # u PROVE Kept(w)'
  <2>1. Apart(w)
    BY <1>0, <1>2 DEF Apart, Connects, Disconnects, TypeOK
  <2> QED BY <2>1, ApartKept DEF PcInv
<1>3. Kept(u)'
  <2>1. Command(u)' = Command(u) /\ took'[u] = TRUE /\ pc'[u] = "running"
    BY <1>0 DEF Command, TypeOK
  <2>2. u \in did => u \in did'
    BY DEF Connects, Disconnects
  <2>3. Command(u) \in Deeds => u \in did'
    BY DEF Connects, Disconnects, Deeds
  <2>4. Carried(u)'
    BY <1>0, <2>1, <2>2, <2>3 DEF Kept, Carried
  <2>5. Captured(u)'
    BY <1>0, <2>1 DEF Kept, Captured, TypeOK, Carried
  <2>6. Owned(u)'
    <3>1. ~Refused(u)
      BY DEF Refused
    <3>2. CASE Command(u) = "disconnect"
      <4>1. kind[u] = "vpn_change" /\ at[u] = 1
        BY <3>2, <1>0, ScriptFacts DEF Kept, Carried, Command
      <4> QED BY <4>1, <3>1, <1>0, <2>1 DEF Kept, Owned, Reconnecting
    <3>3. CASE Command(u) = "connect"
      BY <3>1, <3>3, <1>0 DEF Kept, Owned, Connects
    <3>4. CASE Command(u) \notin {"connect", "disconnect"}
      <4>1. ~Reconnecting(u)
        BY <3>4, <1>0, ScriptFacts DEF Reconnecting, Command
      <4> QED BY <3>1, <3>4, <4>1, <1>0 DEF Kept, Owned
    <3> QED BY <3>2, <3>3, <3>4
  <2> QED BY <2>4, <2>5, <2>6 DEF Kept
<1> QED BY <1>1, <1>2, <1>3 DEF PcInv

\* The step of a handler changes nothing of another message.
LEMMA HandlerPc ==
    ASSUME PcInv, NEW u \in Updates, TypeOK', Kept(u)',
           UNCHANGED <<tunnel, downBy, did>>,
           \A w \in Updates : w # u =>
              /\ pc'[w] = pc[w] /\ at'[w] = at[w] /\ took'[w] = took[w] /\ kind'[w] = kind[w]
              /\ answer'[w] = answer[w] /\ file'[w] = file[w]
              /\ (w \in audited') = (w \in audited)
              /\ <<w, "disconnect">> \in late' => <<w, "disconnect">> \in late
    PROVE  PcInv'
<1>1. ASSUME NEW w \in Updates, w # u PROVE Kept(w)'
  <2>1. Apart(w)
    BY <1>1 DEF Apart
  <2> QED BY <2>1, ApartKept DEF PcInv
<1> QED BY <1>1 DEF PcInv

LEMMA WritesPc ==
    ASSUME PcInv, NEW u \in Updates, Writes(u)
    PROVE  PcInv'
<1> USE DEF Writes, handler
<1>1. TypeOK'
  BY DEF PcInv, TypeOK
<1>2. Kept(u)'
  <2>0. Kept(u)
    BY DEF PcInv
  <2>1. Command(u)' = Command(u)
    BY DEF Command
  <2>2. Carried(u)' /\ Captured(u)' /\ Owned(u)'
    BY <2>0, <2>1 DEF Kept, Carried, Captured, Owned, Refused, Reconnecting
  <2> QED BY <2>2 DEF Kept
<1> QED BY <1>1, <1>2, HandlerPc DEF PcInv, TypeOK

LEMMA ArrivePc ==
    ASSUME PcInv, NEW u \in Updates, NEW k \in Kinds, Arrive(u, k)
    PROVE  PcInv'
<1> USE DEF Arrive, machine
<1>0. Kept(u) /\ TypeOK
  BY DEF PcInv
<1>1. TypeOK'
  BY <1>0 DEF TypeOK
<1>3. pc'[u] = "ready" /\ kind'[u] = k /\ at'[u] = 1 /\ answer'[u] = "none"
  BY <1>0 DEF TypeOK, Kept, Carried
<1>4. Kept(u)'
  <2>1. Carried(u)'
    <3>1. at'[u] \in 1..Len(Script[kind'[u]])
      BY <1>3, ScriptFacts
    <3>2. \A i \in 1..(at'[u] - 1) : FALSE
      BY <1>3
    <3> QED BY <1>0, <1>3, <3>1, <3>2 DEF Kept, Carried
  <2>2. Captured(u)' /\ Owned(u)'
    BY <1>0, <1>3 DEF Kept, Captured, Owned, Refused, Reconnecting
  <2> QED BY <2>1, <2>2 DEF Kept
<1> QED BY <1>0, <1>1, <1>4, HandlerPc DEF TypeOK

\* A handler that gives up is over, with an error.
LEMMA Refusal ==
    ASSUME NEW u \in Updates, Kept(u), Refused(u)', UNCHANGED <<tunnel, downBy, did, kind, at>>,
           (u \in audited') = (u \in audited)
    PROVE  Kept(u)'
<1>1. Carried(u)'
  BY DEF Kept, Carried, Refused
<1>2. Captured(u)' /\ Owned(u)'
  BY DEF Kept, Captured, Owned, Refused
<1> QED BY <1>1, <1>2 DEF Kept

LEMMA RejectPc ==
    ASSUME PcInv, NEW u \in Updates, Reject(u)
    PROVE  PcInv'
<1> USE DEF Reject, GiveUp, Tell, machine
<1>1. TypeOK' /\ Refused(u)'
  BY DEF PcInv, TypeOK, Refused
<1>2. Kept(u)'
  BY <1>1, Refusal DEF PcInv
<1> QED BY <1>1, <1>2, HandlerPc DEF PcInv, TypeOK

LEMMA EmptyPc ==
    ASSUME PcInv, NEW u \in Updates, Empty(u)
    PROVE  PcInv'
<1> USE DEF Empty, GiveUp, Tell
<1>1. TypeOK' /\ Refused(u)'
  BY DEF PcInv, TypeOK, Refused
<1>2. Kept(u)'
  BY <1>1, Refusal DEF PcInv
<1> QED BY <1>1, <1>2, HandlerPc DEF PcInv, TypeOK

LEMMA BeginPc ==
    ASSUME PcInv, NEW u \in Updates, Begin(u)
    PROVE  PcInv'
<1> USE DEF Begin
<1>0. Kept(u) /\ TypeOK
  BY DEF PcInv
<1>1. TypeOK'
  BY <1>0 DEF TypeOK
<1>2. pc'[u] = "running" /\ ~took'[u] /\ kind'[u] = kind[u] /\ at'[u] = at[u]
  BY <1>0 DEF TypeOK
<1>3. Kept(u)'
  <2>1. Carried(u)'
    BY <1>0, <1>2 DEF Kept, Carried
  <2>2. Captured(u)' /\ Owned(u)'
    BY <1>0, <1>2 DEF Kept, Captured, Owned, Refused, Reconnecting
  <2> QED BY <2>1, <2>2 DEF Kept
<1> QED BY <1>0, <1>1, <1>3, HandlerPc DEF TypeOK

\* A handler goes on from a command that either did what it does or has nothing to
\* do that counts.
LEMMA Proceeding ==
    ASSUME NEW u \in Updates, TypeOK, Kept(u), pc[u] = "running", Proceed(u),
           Command(u) \in Deeds => took[u],
           UNCHANGED <<tunnel, downBy, did, kind>>, (u \in audited') = (u \in audited),
           <<u, "disconnect">> \in late' => <<u, "disconnect">> \in late,
           kind[u] \in Captures => file'[u] = file[u]
    PROVE  Kept(u)'
<1> DEFINE script == Script[kind[u]]
<1>0. kind[u] \in Kinds /\ at[u] \in 1..Len(script) /\ Len(script) \in 1..4
  BY ScriptFacts DEF TypeOK, Kept, Carried
<1>1. Command(u) \in Deeds => u \in did
  BY DEF Kept, Carried
<1>2. \A i \in 1..at[u] : script[i] \in Deeds => u \in did
  BY <1>0, <1>1 DEF Kept, Carried, Command
<1>3. kind[u] \in Captures => script[at[u]] \in Deeds /\ took[u] /\ at[u] = Len(script)
  <2> SUFFICES ASSUME kind[u] \in Captures
               PROVE  script[at[u]] \in Deeds /\ took[u] /\ at[u] = Len(script)
    OBVIOUS
  <2>1. Len(script) = 1 /\ script[1] \in Deeds
    BY <1>0, ScriptFacts DEF Deeds
  <2> QED BY <2>1, <1>0 DEF Command
<1>4. CASE at[u] = Len(script)
  <2>1. /\ pc'[u] = IF kind[u] \in Audited THEN "audit" ELSE "tell"
        /\ at' = at /\ answer' = answer
    BY <1>4 DEF Proceed, Finish, TypeOK
  <2>2. kind[u] \in Audited => u \in did
    BY <1>0, <1>2, <1>4, ScriptFacts
  <2>3. Carried(u)'
    BY <2>1, <2>2 DEF Kept, Carried
  <2>4. Captured(u)'
    BY <1>3, <2>1 DEF Kept, Captured
  <2>5. Owned(u)'
    <3>1. ~Reconnecting(u)
      BY <1>0, <1>4, ScriptFacts DEF Reconnecting
    <3> QED BY <3>1 DEF Kept, Owned, Refused
  <2> QED BY <2>3, <2>4, <2>5 DEF Kept
<1>5. CASE at[u] # Len(script)
  <2>1. pc'[u] = "ready" /\ at'[u] = at[u] + 1 /\ answer' = answer
    BY <1>5 DEF Proceed, TypeOK
  <2>2. at[u] + 1 \in 1..Len(script) /\ (at[u] + 1) - 1 = at[u]
    BY <1>0, <1>5
  <2>3. Carried(u)'
    BY <1>2, <2>1, <2>2 DEF Kept, Carried
  <2>4. Captured(u)'
    BY <2>1 DEF Kept, Captured
  <2>5. Owned(u)'
    <3>1. CASE downBy = u /\ ~tunnel
      <4>1. Reconnecting(u)
        BY <3>1 DEF Kept, Owned, Refused
      <4>2. at[u] = 1
        <5>1. at[u] = 2 => script[2] \in Deeds /\ Command(u) = script[2] /\ ~took[u]
          BY <4>1, <1>0, ScriptFacts DEF Reconnecting, Deeds, Command
        <5> QED BY <5>1, <4>1 DEF Reconnecting
      <4> QED BY <4>1, <4>2, <2>1 DEF Reconnecting, Kept, Owned, Refused
    <3>2. CASE ~(downBy = u /\ ~tunnel)
      BY <3>2 DEF Kept, Owned, Refused
    <3> QED BY <3>1, <3>2
  <2> QED BY <2>3, <2>4, <2>5 DEF Kept
<1> QED BY <1>4, <1>5

LEMMA ProceedTypes ==
    ASSUME NEW u \in Updates, TypeOK, Kept(u), Proceed(u)
    PROVE  /\ pc' \in [Updates -> {"idle", "ready", "running", "audit", "tell", "done"}]
           /\ at' \in [Updates -> 1..4]
           /\ answer' = answer
           /\ \A w \in Updates : w # u => pc'[w] = pc[w] /\ at'[w] = at[w]
<1>0. kind[u] \in Kinds /\ at[u] \in 1..Len(Script[kind[u]])
      /\ Len(Script[kind[u]]) \in 1..4
  BY ScriptFacts DEF TypeOK, Kept, Carried
<1>1. CASE at[u] = Len(Script[kind[u]])
  BY <1>1 DEF Proceed, Finish, TypeOK
<1>2. CASE at[u] # Len(Script[kind[u]])
  <2>1. \A n \in 1..4 : \A i \in 1..n : i # n => i + 1 \in 1..4
    OBVIOUS
  <2>2. at[u] + 1 \in 1..4
    BY <1>0, <1>2, <2>1
  <2> QED BY <1>2, <2>2 DEF Proceed, TypeOK
<1> QED BY <1>1, <1>2

\* A handler that cannot read the VPN status ends with what it has.
LEMMA Finishing ==
    ASSUME NEW u \in Updates, TypeOK, Kept(u), pc[u] = "running", Finish(u),
           Command(u) = "status", kind[u] \notin Captures,
           UNCHANGED <<tunnel, downBy, did, kind>>, (u \in audited') = (u \in audited),
           <<u, "disconnect">> \in late' => <<u, "disconnect">> \in late
    PROVE  Kept(u)'
<1> DEFINE script == Script[kind[u]]
<1>0. kind[u] \in Kinds /\ at[u] \in 1..Len(script) /\ Len(script) \in 1..4
      /\ script[at[u]] = "status"
  BY ScriptFacts DEF TypeOK, Kept, Carried, Command
<1>1. /\ pc'[u] = IF kind[u] \in Audited THEN "audit" ELSE "tell"
      /\ at' = at /\ answer' = answer
  BY DEF Finish, TypeOK
<1>2. kind[u] \in Audited => u \in did
  <2> SUFFICES ASSUME kind[u] \in Audited PROVE u \in did
    OBVIOUS
  <2>1. at[u] > 1 /\ script[at[u] - 1] \in Deeds
    BY <1>0, ScriptFacts DEF Deeds
  <2>2. at[u] - 1 \in 1..(at[u] - 1)
    BY <1>0, <2>1
  <2> QED BY <2>1, <2>2 DEF Kept, Carried
<1>3. Carried(u)'
  BY <1>1, <1>2 DEF Kept, Carried
<1>4. Captured(u)'
  BY <1>1 DEF Kept, Captured
<1>5. Owned(u)'
  <2>1. ~Reconnecting(u)
    BY <1>0, ScriptFacts DEF Reconnecting
  <2> QED BY <2>1 DEF Kept, Owned, Refused
<1> QED BY <1>3, <1>4, <1>5 DEF Kept

LEMMA SucceedsPc ==
    ASSUME PcInv, NEW u \in Updates, Succeeds(u)
    PROVE  PcInv'
<1> USE DEF Succeeds, machine
<1>0. Kept(u) /\ TypeOK
  BY DEF PcInv
<1>1. TypeOK'
  BY <1>0, ProceedTypes DEF TypeOK
<1>2. Kept(u)'
  BY <1>0, Proceeding
<1> QED BY <1>0, <1>1, <1>2, ProceedTypes, HandlerPc DEF TypeOK

LEMMA FailsPc ==
    ASSUME PcInv, NEW u \in Updates, Fails(u)
    PROVE  PcInv'
<1> USE DEF Fails
<1>0. Kept(u) /\ TypeOK
  BY DEF PcInv
<1>1. CASE IgnoresExit(u)
  <2>1. Proceed(u) /\ Command(u) \notin Deeds
    BY <1>1 DEF IgnoresExit, Deeds
  <2>2. kind[u] \notin Captures
    BY <1>0, <1>1, ScriptFacts DEF IgnoresExit, Kept, Carried, Command, TypeOK
  <2>3. TypeOK'
    BY <1>0, <2>1, ProceedTypes DEF TypeOK
  <2>4. Kept(u)'
    BY <1>0, <2>1, <2>2, Proceeding
  <2> QED BY <1>0, <2>1, <2>3, <2>4, ProceedTypes, HandlerPc DEF TypeOK
<1>2. CASE ~IgnoresExit(u) /\ Command(u) = "status"
  <2>1. Finish(u)
    BY <1>2
  <2>2. kind[u] \notin Captures
    BY <1>0, <1>2, ScriptFacts DEF Kept, Carried, Command, TypeOK
  <2>3. TypeOK'
    BY <1>0, <2>1 DEF TypeOK, Finish
  <2>4. Kept(u)'
    BY <1>0, <1>2, <2>1, <2>2, Finishing
  <2> QED BY <1>0, <2>1, <2>3, <2>4, HandlerPc DEF TypeOK, Finish
<1>3. CASE ~IgnoresExit(u) /\ Command(u) # "status"
  <2>1. GiveUp(u)
    BY <1>3
  <2>2. TypeOK' /\ Refused(u)'
    BY <1>0, <2>1 DEF TypeOK, Refused, GiveUp, Tell
  <2>3. Kept(u)'
    BY <1>0, <2>1, <2>2, Refusal DEF GiveUp
  <2> QED BY <1>0, <2>1, <2>2, <2>3, HandlerPc DEF TypeOK, GiveUp, Tell
<1> QED BY <1>1, <1>2, <1>3

LEMMA TimesOutPc ==
    ASSUME PcInv, NEW u \in Updates, TimesOut(u)
    PROVE  PcInv'
<1> USE DEF TimesOut
<1>0. Kept(u) /\ TypeOK
  BY DEF PcInv
<1>l. /\ late' \subseteq Updates \X {"connect", "disconnect"}
      /\ \A w \in Updates : w # u => (<<w, "disconnect">> \in late' => <<w, "disconnect">> \in late)
      /\ Command(u) # "disconnect" =>
            (<<u, "disconnect">> \in late' => <<u, "disconnect">> \in late)
  BY <1>0 DEF Abandon, TypeOK
<1>1. CASE IgnoresTimeout(u)
  <2>1. Proceed(u) /\ Command(u) \notin Deeds /\ Command(u) # "disconnect"
    BY <1>1 DEF IgnoresTimeout, Deeds
  <2>2. TypeOK'
    BY <1>0, <1>l, <2>1, ProceedTypes DEF TypeOK
  <2>3. Kept(u)'
    BY <1>0, <1>l, <2>1, Proceeding
  <2> QED BY <1>0, <1>l, <2>1, <2>2, <2>3, ProceedTypes, HandlerPc DEF TypeOK
<1>2. CASE ~IgnoresTimeout(u) /\ Command(u) = "status" /\ kind[u] = "ip"
  <2>1. Finish(u)
    BY <1>2
  <2>2. kind[u] \notin Captures
    BY <1>2 DEF Captures
  <2>3. TypeOK'
    BY <1>0, <1>l, <2>1 DEF TypeOK, Finish
  <2>4. Kept(u)'
    BY <1>0, <1>l, <1>2, <2>1, <2>2, Finishing
  <2> QED BY <1>0, <1>l, <2>1, <2>3, <2>4, HandlerPc DEF TypeOK, Finish
<1>3. CASE ~IgnoresTimeout(u) /\ ~(Command(u) = "status" /\ kind[u] = "ip")
  <2>1. GiveUp(u)
    BY <1>3
  <2>2. TypeOK' /\ Refused(u)'
    BY <1>0, <1>l, <2>1 DEF TypeOK, Refused, GiveUp, Tell
  <2>3. Kept(u)'
    BY <1>0, <2>1, <2>2, Refusal DEF GiveUp
  <2> QED BY <1>0, <1>l, <2>1, <2>2, <2>3, HandlerPc DEF TypeOK, GiveUp, Tell
<1> QED BY <1>1, <1>2, <1>3

LEMMA AuditPc ==
    ASSUME PcInv, NEW u \in Updates, Audit(u)
    PROVE  PcInv'
<1> USE DEF Audit, machine
<1>0. Kept(u) /\ TypeOK
  BY DEF PcInv
<1>1. TypeOK' /\ pc'[u] = "tell"
  BY <1>0 DEF TypeOK
<1>2. kind[u] \in Audited
  BY <1>0 DEF Kept, Carried
<1>3. Kept(u)'
  <2>1. Carried(u)' /\ Captured(u)' /\ Owned(u)'
    BY <1>0, <1>1, <1>2 DEF Kept, Carried, Captured, Owned, Refused, Reconnecting
  <2> QED BY <2>1 DEF Kept
<1> QED BY <1>0, <1>1, <1>3, HandlerPc DEF TypeOK

LEMMA AnswerPc ==
    ASSUME PcInv, NEW u \in Updates, Answer(u)
    PROVE  PcInv'
<1> USE DEF Answer, Tell, machine
<1>0. Kept(u) /\ TypeOK
  BY DEF PcInv
<1>1. answer'[u] = IF kind[u] \in Captures THEN file[u] ELSE "ok"
  BY <1>0 DEF TypeOK
<1>2. pc'[u] = "done" /\ answer'[u] \in {"ok", "whole"}
  BY <1>0, <1>1 DEF TypeOK, Kept, Captured
<1>3. TypeOK'
  BY <1>0, <1>2 DEF TypeOK
<1>4. Kept(u)'
  <2>1. Carried(u)' /\ Captured(u)' /\ Owned(u)'
    BY <1>0, <1>2 DEF Kept, Carried, Captured, Owned, Refused, Reconnecting
  <2> QED BY <2>1 DEF Kept
<1> QED BY <1>0, <1>3, <1>4, HandlerPc DEF TypeOK

LEMMA PcStep ==
    ASSUME PcInv, [Next]_vars
    PROVE  PcInv'
<1>1. CASE UNCHANGED vars
  BY <1>1 DEF PcInv, TypeOK, Kept, Carried, Captured, Owned, Refused, Reconnecting,
              Command, vars, machine, handler
<1>2. CASE Next
  <2>1. CASE Drops
    BY <2>1, DropsPc
  <2>2. CASE \E u \in Updates, c \in {"connect", "disconnect"} : Straggles(u, c)
    BY <2>2, StragglesPc
  <2>3. ASSUME NEW u \in Updates,
               \/ Takes(u) \/ Writes(u) \/ Reject(u) \/ Succeeds(u)
               \/ Fails(u) \/ Empty(u) \/ Handles(u)
               \/ \E k \in Kinds : Arrive(u, k)
        PROVE  PcInv'
    BY <2>3, TakesPc, WritesPc, RejectPc, SucceedsPc, FailsPc, EmptyPc, ArrivePc, BeginPc,
       TimesOutPc, AuditPc, AnswerPc DEF Handles
  <2> QED BY <1>2, <2>1, <2>2, <2>3 DEF Next
<1> QED BY <1>1, <1>2

\* The handlers of the PC-control commands keep PcInv, for any number of messages
\* under way, tools that fail, hang or act late, and a network that drops the tunnel.
THEOREM PcInvariant == Spec => []PcInv
<1>1. Init => PcInv
  BY InitPc
<1>2. PcInv /\ [Next]_vars => PcInv'
  BY PcStep
<1> QED BY <1>1, <1>2, PTL DEF Spec

\* The handlers and the machine keep their types: in particular no handler goes past
\* the last system command of its script (services/vpn.py:208).
THEOREM PcTypes == Spec => []TypeOK
<1>1. PcInv => TypeOK
  BY DEF PcInv
<1> QED BY PcInvariant, <1>1, PTL

\* DownIsTold for any number of messages: whose command left the tunnel down was told
\* of an error.
THEOREM DisconnectionTold == Spec => []DownIsTold
<1>1. PcInv => DownIsTold
  BY DEF PcInv, Kept, Owned, Reconnecting, Refused, DownIsTold
<1> QED BY <1>1, PcInvariant, PTL

\* AuditIsTrue for any number of messages: the log says what was done, and what was
\* reported as done is in the log.
THEOREM AuditTrue == Spec => []AuditIsTrue
<1>1. PcInv => AuditIsTrue
  BY DEF PcInv, Kept, Carried, AuditIsTrue
<1> QED BY <1>1, PcInvariant, PTL

\* SentIsWhole for any number of messages: no unfinished capture is sent.
THEOREM OnlyWholeSent == Spec => []SentIsWhole
<1>1. PcInv => SentIsWhole
  BY DEF PcInv, Kept, Captured, SentIsWhole
<1> QED BY <1>1, PcInvariant, PTL
=============================================================================
