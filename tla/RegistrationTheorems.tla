------------------------ MODULE RegistrationTheorems ------------------------
(***************************************************************************)
(* Proofs about Registration, for any number of nonces, launch tokens,     *)
(* agents and registrations in flight.  The inductive invariant says who   *)
(* holds a consumed nonce or launch token: one request on its way, or one  *)
(* agent.  It gives the refinement of Enrollment, and that a request which *)
(* fails spends no launch token.                                           *)
(***************************************************************************)
EXTENDS Registration, TLAPS

IInv == TypeOK /\ NonceHeld /\ LaunchHeld /\ JobsWithinPolicy /\ PolicyBinds

LEMMA InitIInv == Init => IInv
<1> SUFFICES ASSUME Init PROVE IInv
  OBVIOUS
<1> USE DEF Init
<1>1. Born = {} /\ \A r \in Reqs : pc[r] = "idle"
  BY DEF Born
<1>2. TypeOK
  <2>1. now \in 0..MaxNow /\ born \in [Born -> Births]
    BY <1>1, RegistrationAssumption DEF Born
  <2> QED
    BY <1>1, <2>1 DEF TypeOK, Steps
<1> QED
  BY <1>1, <1>2 DEF IInv, NonceHeld, LaunchHeld, Holding, Claiming, JobsWithinPolicy, PolicyBinds

LEMMA InitStep == ASSUME Init PROVE Enrolled!Init
<1>1. Born = {}
  BY DEF Init, Born
<1> QED
  BY <1>1 DEF Enrolled!Init

LEMMA RespondKeeps ==
  ASSUME IInv, NEW r \in Reqs, Respond(r), UNCHANGED <<now, nonce, launch, born>>,
         agents' \subseteq Born
  PROVE  IInv'
<1>1. Born' = Born
  BY DEF Born
<1>2. /\ pc'[r] = "idle"
      /\ \A q \in Reqs \ {r} : pc'[q] = pc[q] /\ job'[q] = job[q]
  BY DEF Respond, IInv, TypeOK
<1>3. TypeOK'
  BY <1>1, <1>2 DEF Respond, IInv, TypeOK, Steps
<1>4. Holding' \subseteq Holding \ {r} /\ Claiming' \subseteq Claiming \ {r}
  BY <1>2 DEF Holding, Claiming
<1>5. NonceHeld'
  BY <1>1, <1>2, <1>4 DEF IInv, NonceHeld, Holding
<1>6. LaunchHeld'
  BY <1>1, <1>2, <1>4 DEF IInv, LaunchHeld, Claiming
<1>7. JobsWithinPolicy' /\ PolicyBinds'
  BY <1>1, <1>2 DEF IInv, JobsWithinPolicy, PolicyBinds
<1> QED
  BY <1>3, <1>5, <1>6, <1>7 DEF IInv

LEMMA TickKeeps == ASSUME IInv, Tick PROVE IInv'
<1>1. TypeOK'
  BY RegistrationAssumption DEF Tick, IInv, TypeOK, Born
<1> QED
  BY <1>1 DEF Tick, IInv, NonceHeld, LaunchHeld, Holding, Claiming, Born, JobsWithinPolicy,
     PolicyBinds

LEMMA CreateNonceKeeps == ASSUME IInv, NEW n \in Nonces, CreateNonce(n) PROVE IInv'
<1>1. /\ nonce[n].state = "undrawn"
      /\ \A m \in Nonces \ {n} : nonce'[m] = nonce[m]
  BY DEF CreateNonce, Undrawn, IInv, TypeOK
<1>2. nonce' \in [Nonces -> NonceRecords \cup {Undrawn}]
  <2>1. now + NonceTTL \in Nat
    BY RegistrationAssumption DEF IInv, TypeOK
  <2> QED
    BY <2>1 DEF CreateNonce, IInv, TypeOK, NonceRecords
<1>3. TypeOK'
  BY <1>2 DEF CreateNonce, IInv, TypeOK, Born
<1>4. NonceHeld'
  <2>1. \A r \in Holding : job[r].nonce \in Nonces \ {n}
    BY <1>1 DEF IInv, TypeOK, NonceHeld, Holding, Jobs
  <2>2. \A a \in Born : born[a].nonce \in Nonces \ {n}
    BY <1>1 DEF IInv, TypeOK, NonceHeld, Births
  <2> QED
    BY <1>1, <2>1, <2>2 DEF CreateNonce, IInv, NonceHeld, Holding, Born
<1> QED
  BY <1>3, <1>4 DEF CreateNonce, IInv, LaunchHeld, Claiming, Born, JobsWithinPolicy, PolicyBinds

LEMMA DefaultPositive ==
  ASSUME NEW ttl \in TTLs, NEW default \in Nat \ {0}
  PROVE  OrDefault(ttl, default) \in Nat \ {0}
BY RegistrationAssumption DEF OrDefault

LEMMA CreateLaunchTokenKeeps ==
  ASSUME IInv, NEW t \in LaunchTokens, NEW allowed \in ScopeLists, NEW maxTTL \in TTLs,
         NEW ttl \in TTLs, NEW single \in BOOLEAN,
         CreateLaunchToken(t, allowed, maxTTL, ttl, single)
  PROVE  IInv'
<1>1. /\ launch[t] = Undrawn
      /\ \A u \in LaunchTokens \ {t} : launch'[u] = launch[u]
      /\ launch'[t] # Undrawn
  BY DEF CreateLaunchToken, Undrawn, IInv, TypeOK
<1>2. launch' \in [LaunchTokens -> LaunchRecords \cup {Undrawn}]
  <2>1. now + OrDefault(ttl, DefaultTokenTTL) \in Nat
    BY DefaultPositive, RegistrationAssumption DEF IInv, TypeOK
  <2>2. OrDefault(maxTTL, DefaultMaxTTL) \in Nat \ {0}
    BY DefaultPositive, RegistrationAssumption
  <2>3. allowed \in SUBSET Scopes
    BY DEF Scopes
  <2> HIDE DEF OrDefault
  <2> QED
    BY <2>1, <2>2, <2>3 DEF CreateLaunchToken, IInv, TypeOK, LaunchRecords
<1>3. \A r \in Reqs : pc[r] # "idle" => job[r].launch \in LaunchTokens \ {t}
  BY <1>1 DEF IInv, TypeOK, Jobs
<1>4. \A a \in Born : born[a].launch \in LaunchTokens \ {t}
  BY <1>1 DEF IInv, TypeOK, Births, LaunchHeld
<1>5. TypeOK'
  BY <1>1, <1>2, <1>3 DEF CreateLaunchToken, IInv, TypeOK, Born
<1>6. NonceHeld'
  BY DEF CreateLaunchToken, IInv, NonceHeld, Holding, Born
<1>7. Claiming' = Claiming /\ \A r \in Claiming : job[r].launch \in LaunchTokens \ {t}
  BY <1>1, <1>3 DEF CreateLaunchToken, Claiming
<1>8. LaunchHeld'
  BY <1>1, <1>4, <1>7 DEF CreateLaunchToken, IInv, LaunchHeld, Born
<1>9. JobsWithinPolicy' /\ PolicyBinds'
  BY <1>1, <1>3, <1>4 DEF CreateLaunchToken, IInv, JobsWithinPolicy, PolicyBinds, Born
<1> QED
  BY <1>5, <1>6, <1>8, <1>9 DEF IInv

LEMMA AdmitKeeps ==
  ASSUME IInv, NEW r \in Reqs, NEW t \in LaunchTokens, NEW n \in Nonces,
         NEW scope \in ScopeLists, Admit(r, t, n, scope)
  PROVE  IInv'
<1>1. /\ pc'[r] = "admitted"
      /\ job'[r] = [launch |-> t, nonce |-> n, scope |-> scope, agent |-> NoAgent]
      /\ \A q \in Reqs \ {r} : pc'[q] = pc[q] /\ job'[q] = job[q]
      /\ launch[t] # Undrawn /\ ScopeIsSubset(scope, launch[t].allowed)
  BY DEF Admit, Usable, Undrawn, IInv, TypeOK
<1>2. job'[r] \in Jobs
  BY <1>1 DEF Jobs, Scopes
<1>3. TypeOK'
  BY <1>1, <1>2 DEF Admit, Usable, IInv, TypeOK, Steps, Born
<1>4. Holding' = Holding /\ Claiming' = Claiming /\ r \notin Holding /\ r \notin Claiming
  BY <1>1 DEF Admit, Usable, Holding, Claiming
<1>5. NonceHeld'
  BY <1>1, <1>4 DEF Admit, Usable, IInv, NonceHeld, Holding, Born
<1>6. LaunchHeld'
  BY <1>1, <1>4 DEF Admit, Usable, IInv, LaunchHeld, Claiming, Born
<1>7. JobsWithinPolicy' /\ PolicyBinds'
  BY <1>1 DEF Admit, Usable, IInv, JobsWithinPolicy, PolicyBinds, Born
<1> QED
  BY <1>3, <1>5, <1>6, <1>7 DEF IInv

LEMMA ConsumeNonceKeeps == ASSUME IInv, NEW r \in Reqs, ConsumeNonce(r) PROVE IInv'
<1> DEFINE n == job[r].nonce
<1>1. n \in Nonces /\ job[r] \in Jobs
  BY DEF ConsumeNonce, IInv, TypeOK, Jobs
<1>2. CASE nonce[n].state # "fresh"
  BY <1>2, RespondKeeps DEF ConsumeNonce, IInv, TypeOK
<1>3. CASE nonce[n].state = "fresh"
  <2>1. /\ nonce[n] \in NonceRecords
        /\ nonce'[n].state \in {"consumed", "forgotten"}
        /\ nonce'[n] \in NonceRecords
        /\ nonce' \in [Nonces -> NonceRecords \cup {Undrawn}]
        /\ \A m \in Nonces \ {n} : nonce'[m] = nonce[m]
    BY <1>1, <1>3 DEF ConsumeNonce, IInv, TypeOK, NonceRecords, Undrawn
  <2>2. \A q \in Holding : job[q].nonce \in Nonces \ {n}
    BY <1>3 DEF IInv, NonceHeld, TypeOK, Holding, Jobs
  <2>3. \A a \in Born : born[a].nonce \in Nonces \ {n}
    BY <1>3 DEF IInv, NonceHeld, TypeOK, Births
  <2>4. Born' = Born /\ launch' = launch /\ agents' = agents /\ now' = now /\ born' = born
    BY DEF ConsumeNonce, Born
  <2>5. CASE now > nonce[n].expires
    <3>1. Respond(r)
      BY <1>3, <2>5 DEF ConsumeNonce
    <3>2. /\ pc'[r] = "idle"
          /\ \A q \in Reqs \ {r} : pc'[q] = pc[q] /\ job'[q] = job[q]
      BY <3>1 DEF Respond, IInv, TypeOK
    <3>3. Holding' \subseteq Holding \ {r} /\ Claiming' \subseteq Claiming \ {r}
      BY <2>4, <3>2 DEF Holding, Claiming
    <3>4. TypeOK'
      BY <2>1, <2>4, <3>1, <3>2 DEF Respond, IInv, TypeOK, Steps
    <3>5. NonceHeld'
      BY <2>1, <2>2, <2>3, <2>4, <3>2, <3>3 DEF IInv, NonceHeld, Holding
    <3>6. LaunchHeld'
      BY <2>4, <3>2, <3>3 DEF IInv, LaunchHeld, Claiming
    <3>7. JobsWithinPolicy' /\ PolicyBinds'
      BY <2>4, <3>2 DEF IInv, JobsWithinPolicy, PolicyBinds
    <3> QED
      BY <3>4, <3>5, <3>6, <3>7 DEF IInv
  <2>6. CASE ~(now > nonce[n].expires)
    <3>1. GoTo(r, "challenged") /\ nonce'[n].state = "consumed"
      BY <1>1, <1>3, <2>1, <2>6 DEF ConsumeNonce, IInv, TypeOK, NonceRecords
    <3>2. /\ pc'[r] = "challenged" /\ job' = job
          /\ \A q \in Reqs \ {r} : pc'[q] = pc[q]
      BY <3>1 DEF GoTo, IInv, TypeOK
    <3>3. Holding' = Holding \cup {r} /\ r \notin Holding /\ Claiming' = Claiming
      BY <2>4, <3>2 DEF Holding, Claiming, ConsumeNonce
    <3>4. TypeOK'
      BY <2>1, <2>4, <3>1, <3>2 DEF ConsumeNonce, GoTo, IInv, TypeOK, Steps
    <3>5. NonceHeld'
      <4>1. \A q \in Holding' : q = r \/ (q \in Holding /\ job[q].nonce \in Nonces \ {n})
        BY <2>2, <3>3
      <4>2. \A q \in Holding' : nonce'[job[q].nonce].state = "consumed"
        BY <2>1, <3>1, <4>1 DEF IInv, NonceHeld
      <4>3. \A q, s \in Holding' : q # s => job[q].nonce # job[s].nonce
        BY <4>1 DEF IInv, NonceHeld
      <4>4. \A q \in Holding', a \in Born : born[a].nonce # job[q].nonce
        BY <2>3, <4>1 DEF IInv, NonceHeld
      <4> QED
        BY <2>1, <2>3, <2>4, <3>2, <4>2, <4>3, <4>4 DEF IInv, NonceHeld
    <3>6. LaunchHeld'
      BY <2>4, <3>2, <3>3 DEF IInv, LaunchHeld
    <3>7. JobsWithinPolicy' /\ PolicyBinds'
      BY <2>4, <3>2 DEF ConsumeNonce, IInv, JobsWithinPolicy, PolicyBinds
    <3> QED
      BY <3>4, <3>5, <3>6, <3>7 DEF IInv
  <2> QED
    BY <2>5, <2>6
<1> QED
  BY <1>2, <1>3

\* The launch token's policy, whether it is single-use included, is fixed.
LEMMA PolicyFixed ==
  ASSUME IInv, NEW r \in Reqs, ConsumeLaunchToken(r)
  PROVE  /\ launch' \in [LaunchTokens -> LaunchRecords \cup {Undrawn}]
         /\ job[r].launch \in LaunchTokens /\ launch[job[r].launch] \in LaunchRecords
         /\ \A t \in LaunchTokens : launch[t] # Undrawn =>
              /\ launch'[t] # Undrawn
              /\ launch'[t].allowed = launch[t].allowed
              /\ launch'[t].maxTTL = launch[t].maxTTL
              /\ launch'[t].single = launch[t].single
         /\ \A t \in LaunchTokens \ {job[r].launch} : launch'[t] = launch[t]
<1> DEFINE t == job[r].launch
<1>1. t \in LaunchTokens /\ launch[t] \in LaunchRecords
  BY DEF ConsumeLaunchToken, IInv, TypeOK, Jobs
<1>2. CASE ~launch[t].single
  BY <1>1, <1>2 DEF ConsumeLaunchToken, IInv, TypeOK
<1>3. CASE launch[t].single
  <2>1. launch' = [launch EXCEPT ![t].state = "consumed"]
    BY <1>3 DEF ConsumeLaunchToken
  <2>2. /\ launch'[t] = [launch[t] EXCEPT !.state = "consumed"]
        /\ \A u \in LaunchTokens \ {t} : launch'[u] = launch[u]
    BY <1>1, <2>1 DEF IInv, TypeOK
  <2>3. /\ launch'[t] \in LaunchRecords /\ launch'[t] # Undrawn
        /\ launch'[t].allowed = launch[t].allowed
        /\ launch'[t].maxTTL = launch[t].maxTTL
        /\ launch'[t].single = launch[t].single
    BY <1>1, <2>2 DEF LaunchRecords, Undrawn
  <2>4. launch' \in [LaunchTokens -> LaunchRecords \cup {Undrawn}]
    BY <2>1, <2>2, <2>3 DEF IInv, TypeOK
  <2> QED
    BY <1>1, <2>2, <2>3, <2>4
<1> QED
  BY <1>2, <1>3

LEMMA ConsumeLaunchTokenKeeps ==
  ASSUME IInv, NEW r \in Reqs, ConsumeLaunchToken(r) PROVE IInv'
<1> DEFINE t == job[r].launch
<1>1. /\ pc[r] = "challenged" /\ job[r] \in Jobs
      /\ nonce' = nonce /\ agents' = agents /\ born' = born /\ now' = now /\ Born' = Born
  BY DEF ConsumeLaunchToken, IInv, TypeOK, Born
<1>2. CASE launch[t].single /\ launch[t].state # "open"
  <2>1. launch[t].state = "consumed" => launch' = launch
    <3>1. launch[t] \in LaunchRecords
      BY PolicyFixed
    <3> QED
      BY <1>2, <3>1 DEF ConsumeLaunchToken, IInv, TypeOK, LaunchRecords
  <2>2. Respond(r)
    BY <1>2 DEF ConsumeLaunchToken
  <2>3. /\ pc'[r] = "idle"
        /\ \A q \in Reqs \ {r} : pc'[q] = pc[q] /\ job'[q] = job[q]
    BY <2>2 DEF Respond, IInv, TypeOK
  <2>4. launch'[t].state = "consumed" /\ launch[t].state \in {"consumed", "forgotten"}
    <3>1. launch[t] \in LaunchRecords /\ t \in LaunchTokens
      BY PolicyFixed
    <3> QED
      BY <1>2, <3>1 DEF ConsumeLaunchToken, IInv, TypeOK, LaunchRecords
  <2>5. \A u \in LaunchTokens :
          launch[u].state \in {"consumed", "forgotten"} =>
            launch'[u].state \in {launch[u].state, "consumed"}
    BY <2>4, PolicyFixed
  <2>6. \A q \in Reqs : pc[q] # "idle" => job[q].launch \in LaunchTokens /\ launch[job[q].launch] # Undrawn
    BY DEF IInv, TypeOK, Jobs
  <2>7. \A a \in Born : born[a].launch \in LaunchTokens /\ launch[born[a].launch] # Undrawn
    BY DEF IInv, TypeOK, Births, LaunchHeld
  <2>8. TypeOK'
    BY <1>1, <2>2, <2>3, <2>6, PolicyFixed DEF Respond, IInv, TypeOK, Steps
  <2>9. Holding' \subseteq Holding \ {r}
    BY <2>3 DEF Holding
  <2>10. Claiming' \subseteq Claiming \ {r}
    BY <2>3, <2>6, PolicyFixed DEF Claiming
  <2>11. NonceHeld'
    BY <1>1, <2>3, <2>9 DEF IInv, NonceHeld, Holding
  <2>12. LaunchHeld'
    <3>1. \A q \in Claiming' : launch'[job'[q].launch].state = "consumed"
      BY <2>3, <2>4, <2>6, <2>10, PolicyFixed DEF IInv, LaunchHeld, Claiming
    <3>2. \A a \in Born : launch'[born[a].launch] # Undrawn
            /\ (launch'[born[a].launch].single =>
                 launch'[born[a].launch].state \in {"consumed", "forgotten"})
      BY <2>5, <2>7, PolicyFixed DEF IInv, LaunchHeld
    <3> QED
      BY <1>1, <2>3, <2>10, <3>1, <3>2 DEF IInv, LaunchHeld, Claiming
  <2>13. JobsWithinPolicy' /\ PolicyBinds'
    BY <1>1, <2>3, <2>6, <2>7, PolicyFixed DEF IInv, JobsWithinPolicy, PolicyBinds
  <2> QED
    BY <2>8, <2>11, <2>12, <2>13 DEF IInv
<1>3. CASE ~(launch[t].single /\ launch[t].state # "open")
  <2>1. GoTo(r, "claimed")
    BY <1>3 DEF ConsumeLaunchToken
  <2>2. pc'[r] = "claimed" /\ job' = job /\ \A q \in Reqs \ {r} : pc'[q] = pc[q]
    BY <2>1 DEF GoTo, IInv, TypeOK
  <2>3. launch[t].single => launch'[t].state = "consumed"
    <3>1. launch[t] \in LaunchRecords /\ t \in LaunchTokens
      BY PolicyFixed
    <3> QED
      BY <3>1 DEF ConsumeLaunchToken, IInv, TypeOK, LaunchRecords
  <2>4. \A q \in Reqs : pc[q] # "idle" => job[q].launch \in LaunchTokens /\ launch[job[q].launch] # Undrawn
    BY DEF IInv, TypeOK, Jobs
  <2>5. \A a \in Born : born[a].launch \in LaunchTokens /\ launch[born[a].launch] # Undrawn
    BY DEF IInv, TypeOK, Births, LaunchHeld
  <2>6. TypeOK'
    BY <1>1, <2>1, <2>2, <2>4, PolicyFixed DEF GoTo, IInv, TypeOK, Steps
  <2>7. NonceHeld'
    <3>1. Holding' = Holding
      BY <1>1, <2>2 DEF Holding
    <3> QED
      BY <1>1, <2>2, <3>1 DEF IInv, NonceHeld
  <2>8. LaunchHeld'
    <3>1. CASE ~launch[t].single
      <4>1. launch' = launch
        BY <3>1 DEF ConsumeLaunchToken
      <4>2. Claiming' = Claiming
        BY <1>1, <2>2, <3>1, <4>1 DEF Claiming
      <4> QED
        BY <1>1, <2>2, <4>1, <4>2 DEF IInv, LaunchHeld
    <3>2. CASE launch[t].single
      <4>1. launch[t].state = "open"
        BY <1>3, <3>2
      <4>2. \A q \in Claiming : job[q].launch # t
        BY <4>1 DEF IInv, LaunchHeld
      <4>3. \A a \in Born : born[a].launch # t
        BY <3>2, <4>1 DEF IInv, LaunchHeld
      <4>4. \A q \in Claiming' : q = r \/ q \in Claiming
        BY <1>1, <2>2, <2>4, PolicyFixed DEF Claiming
      <4>5. \A q \in Claiming' : launch'[job[q].launch].state = "consumed"
        BY <2>3, <3>2, <4>2, <4>4, <2>4, PolicyFixed DEF IInv, LaunchHeld, Claiming
      <4>6. \A q, s \in Claiming' : q # s => job[q].launch # job[s].launch
        BY <4>2, <4>4 DEF IInv, LaunchHeld
      <4>7. \A q \in Claiming', a \in Born : born[a].launch # job[q].launch
        BY <4>3, <4>4 DEF IInv, LaunchHeld
      <4>8. \A a \in Born : launch'[born[a].launch] = launch[born[a].launch]
        BY <2>5, <4>3, PolicyFixed
      <4> QED
        BY <1>1, <2>2, <4>5, <4>6, <4>7, <4>8 DEF IInv, LaunchHeld
    <3> QED
      BY <3>1, <3>2
  <2>9. JobsWithinPolicy' /\ PolicyBinds'
    BY <1>1, <2>2, <2>4, <2>5, PolicyFixed DEF IInv, JobsWithinPolicy, PolicyBinds
  <2> QED
    BY <2>6, <2>7, <2>8, <2>9 DEF IInv
<1> QED
  BY <1>2, <1>3

LEMMA BornAfter ==
  ASSUME IInv, NEW r \in Reqs, NEW a \in Agents, IssueToken(r, a)
  PROVE  /\ Born' = Born \cup {a} /\ a \notin Born
         /\ born'[a].launch = job[r].launch /\ born'[a].nonce = job[r].nonce
         /\ born'[a].scope = job[r].scope /\ born'[a].ttl = launch[job[r].launch].maxTTL
         /\ \A b \in Born : born'[b] = born[b]
         /\ born' \in [Born' -> Births]
<1>1. job[r] \in Jobs /\ launch[job[r].launch] \in LaunchRecords
  BY DEF IssueToken, IInv, TypeOK, Jobs
<1> DEFINE birth == [launch |-> job[r].launch, nonce |-> job[r].nonce,
                     scope |-> job[r].scope, ttl |-> launch[job[r].launch].maxTTL]
<1>2. birth \in Births
  BY <1>1 DEF Births, Jobs, LaunchRecords
<1>3. born' = [x \in Born \cup {a} |-> IF x = a THEN birth ELSE born[x]] /\ a \notin Born
  BY DEF IssueToken
<1>4. /\ birth.launch = job[r].launch /\ birth.nonce = job[r].nonce
      /\ birth.scope = job[r].scope /\ birth.ttl = launch[job[r].launch].maxTTL
  OBVIOUS
<1> HIDE DEF birth
<1>5. Born' = Born \cup {a}
  <2>1. DOMAIN born' = Born \cup {a}
    BY <1>3
  <2> QED
    BY <2>1 DEF Born
<1>6. born'[a] = birth /\ \A b \in Born : born'[b] = born[b]
  BY <1>3
<1>7. born' \in [Born' -> Births]
  BY <1>2, <1>3, <1>5 DEF IInv, TypeOK
<1> QED
  BY <1>3, <1>4, <1>5, <1>6, <1>7

LEMMA IssueTokenKeeps ==
  ASSUME IInv, NEW r \in Reqs, NEW a \in Agents, IssueToken(r, a) PROVE IInv'
<1>1. /\ pc[r] = "claimed" /\ pc'[r] = "issued" /\ job[r] \in Jobs
      /\ job'[r] = [job[r] EXCEPT !.agent = a]
      /\ \A q \in Reqs \ {r} : pc'[q] = pc[q] /\ job'[q] = job[q]
      /\ nonce' = nonce /\ launch' = launch /\ agents' = agents /\ now' = now
  BY DEF IssueToken, IInv, TypeOK
<1>2. /\ job'[r] \in Jobs /\ job'[r].launch = job[r].launch
      /\ job'[r].nonce = job[r].nonce /\ job'[r].scope = job[r].scope
      /\ job'[r].agent = a
  BY <1>1 DEF Jobs
<1>3. TypeOK'
  <2>1. Born' \subseteq Agents /\ agents' \subseteq Born' /\ Born \subseteq Born' /\ a \in Born'
    BY <1>1, BornAfter DEF IInv, TypeOK
  <2>2. pc' \in [Reqs -> Steps] /\ job' \in [Reqs -> Jobs \cup {NoJob}]
    BY <1>1, <1>2 DEF IssueToken, IInv, TypeOK, Steps
  <2>3. ASSUME NEW q \in Reqs, pc'[q] # "idle"
        PROVE  /\ job'[q] \in Jobs /\ launch'[job'[q].launch] # Undrawn
               /\ pc'[q] = "issued" => job'[q].agent \in Born'
    <3>1. CASE q = r
      <4>1. launch[job[r].launch] # Undrawn
        BY <1>1 DEF IInv, TypeOK
      <4> QED
        BY <1>1, <1>2, <2>1, <3>1, <4>1
    <3>2. CASE q # r
      <4>1. pc'[q] = pc[q] /\ job'[q] = job[q] /\ launch' = launch
        BY <1>1, <3>2
      <4>2. /\ job[q] \in Jobs /\ launch[job[q].launch] # Undrawn
            /\ pc[q] = "issued" => job[q].agent \in Born
        BY <2>3, <4>1 DEF IInv, TypeOK
      <4> QED
        BY <2>1, <4>1, <4>2
    <3> QED
      BY <3>1, <3>2
  <2>4. born' \in [Born' -> Births]
    BY BornAfter
  <2> QED
    BY <1>1, <2>1, <2>2, <2>3, <2>4 DEF IInv, TypeOK
<1>4. /\ Holding' = Holding \ {r} /\ r \in Holding
      /\ Claiming' = Claiming \ {r}
      /\ launch[job[r].launch].single => r \in Claiming
  BY <1>1, <1>2 DEF Holding, Claiming
<1>5. NonceHeld'
  <2>1. born'[a].nonce = job[r].nonce
    BY BornAfter
  <2>2. \A q \in Holding' : q \in Holding /\ q # r /\ job'[q] = job[q]
    BY <1>1, <1>4 DEF Holding
  <2> QED
    BY <1>1, <1>4, <2>1, <2>2, BornAfter DEF IInv, NonceHeld
<1>6. LaunchHeld'
  <2>1. born'[a].launch = job[r].launch
    BY BornAfter
  <2>2. \A q \in Claiming' : q \in Claiming /\ q # r /\ job'[q] = job[q]
    BY <1>1, <1>4 DEF Claiming
  <2>3. launch[job[r].launch] # Undrawn
    BY <1>1 DEF IInv, TypeOK
  <2>4. \A q \in Claiming' : job[q].launch # job[r].launch
    <3> SUFFICES ASSUME NEW q \in Claiming', job[q].launch = job[r].launch PROVE FALSE
      OBVIOUS
    <3>1. r \in Claiming
      BY <1>4, <2>2 DEF Claiming
    <3> QED
      BY <2>2, <3>1 DEF IInv, LaunchHeld
  <2>5. launch[job[r].launch].single => launch[job[r].launch].state = "consumed"
    BY <1>4 DEF IInv, LaunchHeld
  <2> QED
    BY <1>1, <2>1, <2>2, <2>3, <2>4, <2>5, BornAfter DEF IInv, LaunchHeld
<1>7. JobsWithinPolicy'
  BY <1>1, <1>2 DEF IInv, JobsWithinPolicy
<1>8. PolicyBinds'
  <2>1. /\ born'[a].launch = job[r].launch /\ born'[a].scope = job[r].scope
        /\ born'[a].ttl = launch[job[r].launch].maxTTL
    BY BornAfter
  <2>2. launch[job[r].launch].maxTTL \in Nat
    BY <1>1 DEF IInv, TypeOK, LaunchRecords, Jobs
  <2>3. ScopeIsSubset(job[r].scope, launch[job[r].launch].allowed)
    BY <1>1 DEF IInv, JobsWithinPolicy
  <2> QED
    BY <1>1, <2>1, <2>2, <2>3, BornAfter DEF IInv, PolicyBinds
<1> QED
  BY <1>3, <1>5, <1>6, <1>7, <1>8 DEF IInv

LEMMA ForgetKeeps ==
  ASSUME IInv, Restart
  PROVE  /\ nonce' \in [Nonces -> NonceRecords \cup {Undrawn}]
         /\ launch' \in [LaunchTokens -> LaunchRecords \cup {Undrawn}]
         /\ \A n \in Nonces : nonce[n] # Undrawn => nonce'[n].state = "forgotten"
         /\ \A t \in LaunchTokens : launch[t] # Undrawn =>
              /\ launch'[t] # Undrawn /\ launch'[t].state = "forgotten"
              /\ launch'[t].allowed = launch[t].allowed
              /\ launch'[t].maxTTL = launch[t].maxTTL
              /\ launch'[t].single = launch[t].single
<1>1. ASSUME NEW n \in Nonces
      PROVE  /\ nonce'[n] \in NonceRecords \cup {Undrawn}
             /\ nonce[n] # Undrawn => nonce'[n].state = "forgotten"
  <2>1. nonce'[n] = Forget(nonce[n])
    BY DEF Restart
  <2>2. CASE nonce[n] = Undrawn
    BY <2>1, <2>2 DEF Forget, Undrawn
  <2>3. CASE nonce[n] \in NonceRecords
    BY <2>1, <2>3 DEF Forget, NonceRecords
  <2> QED
    BY <2>2, <2>3 DEF IInv, TypeOK
<1>2. ASSUME NEW t \in LaunchTokens
      PROVE  /\ launch'[t] \in LaunchRecords \cup {Undrawn}
             /\ launch[t] # Undrawn =>
                  /\ launch'[t] # Undrawn /\ launch'[t].state = "forgotten"
                  /\ launch'[t].allowed = launch[t].allowed
                  /\ launch'[t].maxTTL = launch[t].maxTTL
                  /\ launch'[t].single = launch[t].single
  <2>1. launch'[t] = Forget(launch[t])
    BY DEF Restart
  <2>2. CASE launch[t] = Undrawn
    BY <2>1, <2>2 DEF Forget, Undrawn
  <2>3. CASE launch[t] \in LaunchRecords
    <3>1. launch'[t] = [launch[t] EXCEPT !.state = "forgotten"]
      BY <2>1, <2>3 DEF Forget, LaunchRecords
    <3> QED
      BY <2>3, <3>1 DEF LaunchRecords, Undrawn
  <2> QED
    BY <2>2, <2>3 DEF IInv, TypeOK
<1>3. /\ nonce' = [n \in Nonces |-> nonce'[n]]
      /\ launch' = [t \in LaunchTokens |-> launch'[t]]
  BY DEF Restart
<1> QED
  BY <1>1, <1>2, <1>3

LEMMA RestartKeeps == ASSUME IInv, Restart PROVE IInv'
<1>1. born' = born /\ Born' = Born /\ now' = now /\ agents' = {}
  BY DEF Restart, Born
<1>2. \A r \in Reqs : pc'[r] = "idle"
  BY DEF Restart
<1>3. \A a \in Born : /\ born[a].nonce \in Nonces /\ nonce[born[a].nonce] # Undrawn
                      /\ born[a].launch \in LaunchTokens /\ launch[born[a].launch] # Undrawn
  BY DEF IInv, TypeOK, Births, NonceHeld, LaunchHeld, Undrawn
<1>4. Holding' = {} /\ Claiming' = {}
  BY <1>2 DEF Holding, Claiming
<1>5. TypeOK'
  BY <1>1, <1>2, ForgetKeeps DEF Restart, IInv, TypeOK, Steps
<1>6. NonceHeld'
  BY <1>1, <1>3, <1>4, ForgetKeeps DEF IInv, NonceHeld
<1>7. LaunchHeld'
  BY <1>1, <1>3, <1>4, ForgetKeeps DEF IInv, LaunchHeld
<1>8. JobsWithinPolicy' /\ PolicyBinds'
  BY <1>1, <1>2, <1>3, ForgetKeeps DEF IInv, JobsWithinPolicy, PolicyBinds
<1> QED
  BY <1>5, <1>6, <1>7, <1>8 DEF IInv

LEMMA NextIInv == IInv /\ [Next]_vars => IInv'
<1> SUFFICES ASSUME IInv, [Next]_vars PROVE IInv'
  OBVIOUS
<1>1. ASSUME NEW r \in Reqs, Register(r) PROVE IInv'
  <2>1. CASE RejectProof(r) \/ RejectName(r)
    BY <2>1, RespondKeeps DEF RejectProof, RejectName, IInv, TypeOK
  <2>2. CASE SaveAgent(r)
    <3>1. agents' \subseteq Born
      BY <2>2 DEF SaveAgent, IInv, TypeOK
    <3> QED
      BY <2>2, <3>1, RespondKeeps DEF SaveAgent
  <2>3. ASSUME NEW t \in LaunchTokens, NEW n \in Nonces, NEW scope \in ScopeLists,
               Admit(r, t, n, scope)
        PROVE  IInv'
    BY <2>3, AdmitKeeps
  <2>4. ASSUME NEW a \in Agents, IssueToken(r, a) PROVE IInv'
    BY <2>4, IssueTokenKeeps
  <2> QED
    BY <1>1, <2>1, <2>2, <2>3, <2>4, ConsumeNonceKeeps, ConsumeLaunchTokenKeeps DEF Register
<1>2. ASSUME NEW t \in LaunchTokens, NEW allowed \in ScopeLists, NEW maxTTL \in TTLs,
             NEW ttl \in TTLs, NEW single \in BOOLEAN,
             CreateLaunchToken(t, allowed, maxTTL, ttl, single)
      PROVE  IInv'
  BY <1>2, CreateLaunchTokenKeeps
<1>3. CASE UNCHANGED vars
  BY <1>3 DEF vars, IInv, TypeOK, NonceHeld, LaunchHeld, Holding, Claiming, Born,
     JobsWithinPolicy, PolicyBinds
<1> QED
  BY <1>1, <1>2, <1>3, TickKeeps, CreateNonceKeeps, RestartKeeps DEF Next

LEMMA Invariant == Spec => []IInv
BY InitIInv, NextIInv, PTL DEF Spec

\* Registration stays well typed, and a request past its lookup has a job on
\* a launch token that was drawn.
THEOREM RegistrationTypeCorrect == Spec => []TypeOK
<1>1. IInv => TypeOK
  BY DEF IInv
<1> QED
  BY <1>1, Invariant, PTL

\* No agent's first token exceeds the policy of its launch token, for any
\* number of registrations in flight.
THEOREM PolicyTheorem == Spec => []PolicyBinds
<1>1. IInv => PolicyBinds
  BY DEF IInv
<1> QED
  BY <1>1, Invariant, PTL
-----------------------------------------------------------------------------
(* Registration implements Enrollment. *)

\* Single use is decided when a launch token is created.
LEMMA SingleFixed ==
  ASSUME IInv, [Next]_vars
  PROVE  \A t \in LaunchTokens : launch[t] # Undrawn => launch'[t].single = launch[t].single
<1>1. CASE Restart
  BY <1>1, ForgetKeeps
<1>2. ASSUME NEW r \in Reqs, Register(r)
      PROVE  \A t \in LaunchTokens : launch[t] # Undrawn => launch'[t].single = launch[t].single
  <2>1. CASE ConsumeLaunchToken(r)
    BY <2>1, PolicyFixed
  <2>2. CASE ~ConsumeLaunchToken(r)
    BY <1>2, <2>2 DEF Register, Admit, ConsumeNonce, RejectProof, RejectName, IssueToken, SaveAgent
  <2> QED
    BY <2>1, <2>2
<1>3. ASSUME NEW t \in LaunchTokens, NEW allowed \in ScopeLists, NEW maxTTL \in TTLs,
             NEW ttl \in TTLs, NEW single \in BOOLEAN,
             CreateLaunchToken(t, allowed, maxTTL, ttl, single)
      PROVE  \A u \in LaunchTokens : launch[u] # Undrawn => launch'[u].single = launch[u].single
  BY <1>3 DEF CreateLaunchToken, IInv, TypeOK
<1> QED
  BY <1>1, <1>2, <1>3 DEF Next, Tick, CreateNonce, vars

LEMMA OthersEnrolNobody ==
  ASSUME IInv, [Next]_vars, \A r \in Reqs, a \in Agents : ~IssueToken(r, a)
  PROVE  born' = born
BY DEF Next, Tick, CreateNonce, CreateLaunchToken, Register, Admit, ConsumeNonce, RejectProof,
   ConsumeLaunchToken, RejectName, SaveAgent, Restart, vars

LEMMA EnrolledStep ==
  ASSUME IInv, [Next]_vars
  PROVE  \/ UNCHANGED {Enrolment(a) : a \in Born}
         \/ Enrolled!Next
<1>1. \A a \in Born : /\ born[a].launch \in LaunchTokens
                      /\ launch[born[a].launch] # Undrawn
  BY DEF IInv, TypeOK, Births, LaunchHeld
<1>2. CASE born' = born
  <2>1. Born' = Born
    BY <1>2 DEF Born
  <2>2. \A a \in Born : Enrolment(a)' = Enrolment(a)
    BY <1>1, <1>2, SingleFixed DEF Enrolment
  <2> QED
    BY <2>1, <2>2
<1>3. ASSUME NEW r \in Reqs, NEW a \in Agents, IssueToken(r, a) PROVE Enrolled!Next
  <2> DEFINE t == job[r].launch
             n == job[r].nonce
             single == launch[t].single
  <2>1. pc[r] = "claimed" /\ job[r] \in Jobs /\ launch' = launch
    BY <1>3 DEF IssueToken, IInv, TypeOK
  <2>2. t \in LaunchTokens /\ n \in Nonces /\ launch[t] # Undrawn
    BY <2>1 DEF Jobs, IInv, TypeOK
  <2>3. single \in BOOLEAN
    BY <2>2 DEF IInv, TypeOK, LaunchRecords
  <2>4. Born' = Born \cup {a} /\ a \notin Born
    BY <1>3, BornAfter
  <2>5. \A b \in Born : Enrolment(b)' = Enrolment(b)
    <3>1. \A b \in Born : born'[b] = born[b]
      BY <1>3, BornAfter
    <3> QED
      BY <2>1, <3>1 DEF Enrolment
  <2>6. Enrolment(a)' = [agent |-> a, launch |-> t, nonce |-> n, single |-> single]
    <3>1. born'[a].launch = t /\ born'[a].nonce = n
      BY <1>3, BornAfter
    <3> QED
      BY <2>1, <3>1 DEF Enrolment
  <2>7. \A b \in Born : b # a /\ born[b].nonce # n
    BY <2>1, <2>4 DEF IInv, NonceHeld, Holding
  <2>8. \A b \in Born : born[b].launch = t => ~single
    BY <2>1 DEF IInv, LaunchHeld, Claiming
  <2>9. \A b \in Born : /\ Enrolment(b).agent = b /\ Enrolment(b).nonce = born[b].nonce
                        /\ Enrolment(b).launch = born[b].launch
                        /\ born[b].launch = t => Enrolment(b).single = single
    BY DEF Enrolment
  <2>10. \A e \in {Enrolment(b) : b \in Born} :
           /\ e.agent # a /\ e.nonce # n
           /\ e.launch = t => ~single /\ ~e.single
    BY <2>7, <2>8, <2>9
  <2>11. {Enrolment(b) : b \in Born}' = {Enrolment(b) : b \in Born}
           \cup {[agent |-> a, launch |-> t, nonce |-> n, single |-> single]}
    <3> DEFINE new == [agent |-> a, launch |-> t, nonce |-> n, single |-> single]
    <3> HIDE DEF new
    <3>1. Enrolment(a)' = new
      BY <2>6 DEF new
    <3>2. {Enrolment(b) : b \in Born}' = {Enrolment(b) : b \in Born} \cup {new}
      BY <2>4, <2>5, <3>1
    <3> QED
      BY <3>2 DEF new
  <2>12. Enrolled!Enroll(a, t, n, single)
    BY <2>10, <2>11 DEF Enrolled!Enroll
  <2> HIDE DEF t, n, single
  <2> QED
    BY <2>2, <2>3, <2>12 DEF Enrolled!Next
<1> QED
  BY <1>2, <1>3, OthersEnrolNobody

\* Registration implements Enrollment: through races, failures at any step
\* and restarts, one agent per nonce and one per single-use launch token.
THEOREM EnrolledTheorem == Spec => EnrolledOnce
<1>1. Init => Enrolled!Init
  BY InitStep
<1>2. IInv /\ [Next]_vars => [Enrolled!Next]_({Enrolment(a) : a \in Born})
  BY EnrolledStep
<1> QED
  BY <1>1, <1>2, Invariant, PTL DEF Spec, EnrolledOnce, Enrolled!Spec
-----------------------------------------------------------------------------
(* A failure spares the launch token. *)

\* An agent that is issued its token and not in the table yet answers the
\* nonce of its registration.
IssuedHeld ==
  \A r \in Reqs : pc[r] = "issued" => born[job[r].agent].nonce = job[r].nonce

\* Only IssueToken leads to "issued".
LEMMA NoneIssued ==
  ASSUME IInv, [Next]_vars, \A r \in Reqs, a \in Agents : ~IssueToken(r, a)
  PROVE  \A q \in Reqs : pc'[q] = "issued" => pc[q] = "issued" /\ job'[q] = job[q]
<1> DEFINE Kept == \A q \in Reqs : pc'[q] = "issued" => pc[q] = "issued" /\ job'[q] = job[q]
<1>1. ASSUME NEW r \in Reqs, Register(r) PROVE Kept
  <2>1. ASSUME Respond(r) \/ GoTo(r, "challenged") \/ GoTo(r, "claimed") PROVE Kept
    BY <2>1 DEF Respond, GoTo, IInv, TypeOK
  <2>2. ASSUME NEW t \in LaunchTokens, NEW n \in Nonces, NEW scope \in ScopeLists,
               Admit(r, t, n, scope)
        PROVE  Kept
    BY <2>2 DEF Admit, IInv, TypeOK
  <2>3. CASE ConsumeNonce(r) \/ RejectProof(r) \/ ConsumeLaunchToken(r) \/ RejectName(r)
             \/ SaveAgent(r)
    BY <2>1, <2>3
       DEF ConsumeNonce, RejectProof, ConsumeLaunchToken, RejectName, SaveAgent
  <2> QED
    BY <1>1, <2>2, <2>3 DEF Register
<1>2. CASE Restart
  BY <1>2 DEF Restart
<1>3. ASSUME NEW t \in LaunchTokens, NEW allowed \in ScopeLists, NEW maxTTL \in TTLs,
             NEW ttl \in TTLs, NEW single \in BOOLEAN,
             CreateLaunchToken(t, allowed, maxTTL, ttl, single)
      PROVE  Kept
  BY <1>3 DEF CreateLaunchToken
<1> QED
  BY <1>1, <1>2, <1>3 DEF Next, Tick, CreateNonce, vars

LEMMA IssuedHeldInvariant == Spec => []IssuedHeld
<1>1. Init => IssuedHeld
  BY DEF Init, IssuedHeld
<1>2. IInv /\ IssuedHeld /\ [Next]_vars => IssuedHeld'
  <2> SUFFICES ASSUME IInv, IssuedHeld, [Next]_vars PROVE IssuedHeld'
    OBVIOUS
  <2>1. ASSUME NEW r \in Reqs, NEW a \in Agents, IssueToken(r, a) PROVE IssuedHeld'
    <3>1. /\ born'[a].nonce = job[r].nonce /\ a \notin Born
          /\ \A b \in Born : born'[b] = born[b]
      BY <2>1, BornAfter
    <3>2. /\ job[r] \in Jobs
          /\ \A q \in Reqs : pc[q] = "issued" => job[q].agent \in Born
      BY <2>1 DEF IssueToken, IInv, TypeOK
    <3>3. job'[r] = [job[r] EXCEPT !.agent = a]
      BY <2>1 DEF IssueToken, IInv, TypeOK
    <3>4. job'[r].agent = a /\ job'[r].nonce = job[r].nonce
      BY <3>2, <3>3 DEF Jobs
    <3>5. \A q \in Reqs \ {r} : pc'[q] = pc[q] /\ job'[q] = job[q]
      BY <2>1 DEF IssueToken, IInv, TypeOK
    <3> QED
      BY <3>1, <3>2, <3>4, <3>5 DEF IssuedHeld
  <2>2. CASE \A r \in Reqs, a \in Agents : ~IssueToken(r, a)
    BY <2>2, NoneIssued, OthersEnrolNobody DEF IssuedHeld
  <2> QED
    BY <2>1, <2>2
<1> QED
  BY <1>1, <1>2, Invariant, PTL DEF Spec

\* Nothing but ConsumeLaunchToken consumes a launch token.
LEMMA OthersSpare ==
  ASSUME IInv, [Next]_vars, NEW t \in LaunchTokens,
         launch[t].state = "open", launch'[t].state = "consumed"
  PROVE  \E r \in Reqs : ConsumeLaunchToken(r) /\ job[r].launch = t
<1>0. launch' # launch
  OBVIOUS
<1>1. ASSUME NEW r \in Reqs, Register(r)
      PROVE  ConsumeLaunchToken(r) /\ job[r].launch = t
  <2>1. ConsumeLaunchToken(r)
    BY <1>0, <1>1 DEF Register, Admit, ConsumeNonce, RejectProof, RejectName, IssueToken,
       SaveAgent
  <2>2. \A u \in LaunchTokens \ {job[r].launch} : launch'[u] = launch[u]
    BY <2>1, PolicyFixed
  <2> QED
    BY <2>1, <2>2
<1>2. ~Restart
  <2>1. launch[t] \in LaunchRecords
    BY DEF IInv, TypeOK, Undrawn
  <2> SUFFICES ASSUME Restart PROVE FALSE
    OBVIOUS
  <2>2. launch'[t] = [launch[t] EXCEPT !.state = "forgotten"]
    BY DEF Restart, Forget
  <2> QED
    BY <2>1, <2>2 DEF LaunchRecords
<1>3. ASSUME NEW u \in LaunchTokens, NEW allowed \in ScopeLists, NEW maxTTL \in TTLs,
             NEW ttl \in TTLs, NEW single \in BOOLEAN,
             CreateLaunchToken(u, allowed, maxTTL, ttl, single)
      PROVE  FALSE
  BY <1>3 DEF CreateLaunchToken, Undrawn, IInv, TypeOK
<1> QED
  BY <1>0, <1>1, <1>2, <1>3 DEF Next, Tick, CreateNonce, vars

\* A launch token is consumed only by a request whose scope it allows and
\* that alone consumed its nonce: scope violations, bad nonces and lost races
\* for a nonce do not waste it, whatever runs beside them.
THEOREM SparedTheorem == Spec => FailureSparesToken
<1> DEFINE Spared(t) ==
      \E r \in Reqs :
        /\ job[r].launch = t /\ pc'[r] = "claimed"
        /\ ScopeIsSubset(job[r].scope, launch[t].allowed)
        /\ nonce[job[r].nonce].state = "consumed"
        /\ \A q \in Reqs \ {r} :
             pc[q] \in {"challenged", "claimed", "issued"} => job[q].nonce # job[r].nonce
<1>1. ASSUME IInv, IssuedHeld, [Next]_vars, NEW t \in LaunchTokens,
             launch[t].state = "open", launch'[t].state = "consumed"
      PROVE  Spared(t)
  <2>1. PICK r \in Reqs : ConsumeLaunchToken(r) /\ job[r].launch = t
    BY <1>1, OthersSpare
  <2>2. pc[r] = "challenged" /\ r \in Holding
    BY <2>1 DEF ConsumeLaunchToken, Holding
  <2>3. pc'[r] = "claimed"
    <3>1. GoTo(r, "claimed")
      BY <1>1, <2>1 DEF ConsumeLaunchToken
    <3> QED
      BY <1>1, <3>1 DEF GoTo, IInv, TypeOK
  <2>4. ScopeIsSubset(job[r].scope, launch[t].allowed)
    BY <1>1, <2>1, <2>2 DEF IInv, JobsWithinPolicy
  <2>5. nonce[job[r].nonce].state = "consumed"
    BY <1>1, <2>2 DEF IInv, NonceHeld
  <2>6. ASSUME NEW q \in Reqs \ {r}, pc[q] \in {"challenged", "claimed", "issued"}
        PROVE  job[q].nonce # job[r].nonce
    <3>1. CASE q \in Holding
      BY <1>1, <2>2, <2>6, <3>1 DEF IInv, NonceHeld
    <3>2. CASE pc[q] = "issued"
      <4>1. job[q].agent \in Born /\ born[job[q].agent].nonce = job[q].nonce
        BY <1>1, <2>6, <3>2 DEF IInv, TypeOK, IssuedHeld
      <4> QED
        BY <1>1, <2>2, <4>1 DEF IInv, NonceHeld
    <3> QED
      BY <2>6, <3>1, <3>2 DEF Holding
  <2> QED
    BY <2>1, <2>3, <2>4, <2>5, <2>6
<1>2. IInv /\ IssuedHeld /\ [Next]_vars
        => [\A t \in LaunchTokens :
              launch[t].state = "open" /\ launch'[t].state = "consumed" => Spared(t)]_vars
  BY <1>1
<1> QED
  BY <1>2, Invariant, IssuedHeldInvariant, PTL DEF Spec, FailureSparesToken
-----------------------------------------------------------------------------
(* What agents begin with. *)

\* Whoever registers asks for something, and so has every agent.
Asked ==
  /\ \A r \in Reqs : pc[r] # "idle" => job[r].scope # {}
  /\ \A a \in Born : born[a].scope # {}

\* Registration never hands out a token that permits nothing, that no gate
\* can read or that is born dead.
FirstTokenSound ==
  \A a \in Born :
    /\ born[a].scope # {} /\ \A s \in born[a].scope : Parses(s)
    /\ born[a].ttl > 0

\* A request under way keeps what it asked for when it was admitted.
LEMMA AskedAlong ==
  ASSUME IInv, Asked, [Next]_vars
  PROVE  \A q \in Reqs : pc'[q] # "idle" => job'[q].scope # {}
<1> DEFINE Along == \A q \in Reqs : pc'[q] # "idle" => job'[q].scope # {}
<1>1. ASSUME NEW r \in Reqs, Register(r) PROVE Along
  <2>1. ASSUME Respond(r) \/ GoTo(r, "challenged") \/ GoTo(r, "claimed"), pc[r] # "idle"
        PROVE  Along
    BY <2>1 DEF Respond, GoTo, Asked, IInv, TypeOK
  <2>2. ASSUME NEW t \in LaunchTokens, NEW n \in Nonces, NEW scope \in ScopeLists,
               Admit(r, t, n, scope)
        PROVE  Along
    BY <2>2 DEF Admit, Asked, IInv, TypeOK
  <2>3. CASE ConsumeNonce(r) \/ RejectProof(r) \/ ConsumeLaunchToken(r) \/ RejectName(r)
             \/ SaveAgent(r)
    BY <2>1, <2>3
       DEF ConsumeNonce, RejectProof, ConsumeLaunchToken, RejectName, SaveAgent
  <2>4. ASSUME NEW a \in Agents, IssueToken(r, a) PROVE Along
    <3>1. pc[r] # "idle" /\ job[r] \in Jobs
      BY <2>4 DEF IssueToken, IInv, TypeOK
    <3>2. job'[r] = [job[r] EXCEPT !.agent = a]
      BY <2>4 DEF IssueToken, IInv, TypeOK
    <3>3. job'[r].scope = job[r].scope
      BY <3>1, <3>2 DEF Jobs
    <3>4. \A q \in Reqs \ {r} : pc'[q] = pc[q] /\ job'[q] = job[q]
      BY <2>4 DEF IssueToken, IInv, TypeOK
    <3> QED
      BY <3>1, <3>3, <3>4 DEF Asked
  <2> QED
    BY <1>1, <2>2, <2>3, <2>4 DEF Register
<1>2. CASE Restart
  BY <1>2 DEF Restart
<1>3. ASSUME NEW t \in LaunchTokens, NEW allowed \in ScopeLists, NEW maxTTL \in TTLs,
             NEW ttl \in TTLs, NEW single \in BOOLEAN,
             CreateLaunchToken(t, allowed, maxTTL, ttl, single)
      PROVE  Along
  BY <1>3 DEF CreateLaunchToken, Asked
<1> QED
  BY <1>1, <1>2, <1>3 DEF Next, Tick, CreateNonce, vars, Asked

LEMMA AskedInvariant == Spec => []Asked
<1>1. Init => Asked
  BY DEF Init, Asked, Born
<1>2. IInv /\ Asked /\ [Next]_vars => Asked'
  <2> SUFFICES ASSUME IInv, Asked, [Next]_vars PROVE Asked'
    OBVIOUS
  <2>1. ASSUME NEW r \in Reqs, NEW a \in Agents, IssueToken(r, a)
        PROVE  \A b \in Born' : born'[b].scope # {}
    <3>1. /\ born'[a].scope = job[r].scope /\ Born' = Born \cup {a}
          /\ \A b \in Born : born'[b] = born[b]
      BY <2>1, BornAfter
    <3> QED
      BY <2>1, <3>1 DEF Asked, IssueToken
  <2>2. CASE \A r \in Reqs, a \in Agents : ~IssueToken(r, a)
    BY <2>2, OthersEnrolNobody, AskedAlong DEF Asked, Born
  <2> QED
    BY <2>1, <2>2, AskedAlong DEF Asked
<1> QED
  BY <1>1, <1>2, Invariant, PTL DEF Spec

\* The first token of every agent has a scope, all of it parses, and it lives
\* for a while: what requests are admitted with is never empty, only scopes
\* that parse are covered by anything, and a lifetime of zero or less in a
\* launch token has been replaced by the default.
THEOREM FirstTokenTheorem == Spec => []FirstTokenSound
<1>1. IInv /\ Asked => FirstTokenSound
  <2> SUFFICES ASSUME IInv, Asked, NEW a \in Born
               PROVE  /\ born[a].scope # {} /\ \A s \in born[a].scope : Parses(s)
                      /\ born[a].ttl > 0
    BY DEF FirstTokenSound
  <2>1. born[a].ttl > 0
    BY DEF IInv, TypeOK, Births
  <2>2. \A s \in born[a].scope : Parses(s)
    BY DEF IInv, PolicyBinds, ScopeIsSubset, ScopeCovers
  <2> QED
    BY <2>1, <2>2 DEF Asked
<1> QED
  BY <1>1, Invariant, AskedInvariant, PTL
=============================================================================
