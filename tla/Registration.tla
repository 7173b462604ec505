---------------------------- MODULE Registration ----------------------------
(***************************************************************************)
(* Agent registration: IdSvc.Register (internal/identity/id_svc.go) over   *)
(* the nonces, launch tokens and agents that SqlStore keeps in memory.     *)
(*                                                                         *)
(* Every store call takes the store's lock for itself, and Register holds  *)
(* none in between, so a request is a process whose steps are its calls:   *)
(*                                                                         *)
(*   idle -> admitted -> challenged -> claimed -> issued -> idle           *)
(*                                                                         *)
(* "admitted": the launch token was looked up and allows the scope;        *)
(* "challenged": the nonce is consumed; "claimed": the launch token is, if *)
(* it is single-use; "issued": the agent has its token and is not in the   *)
(* table yet.  Nothing is undone when a later step fails.                  *)
(*                                                                         *)
(* Whether a public key decodes, a signature fits and the orchestration    *)
(* and task IDs form a SPIFFE path are facts about the request that are    *)
(* looked at once, so they are choices made where the code looks.          *)
(***************************************************************************)
EXTENDS Integers, Scope

CONSTANTS
  Nonces, LaunchTokens, Agents,   \* random values: each is drawn once
  NoAgent,
  ScopeLists,      \* scope lists that launch tokens and requests mention
  TTLs,            \* lifetimes that creators of launch tokens ask for
  DefaultTokenTTL, \* defaultTokenTTL: of a launch token, if none is asked
  DefaultMaxTTL,   \* defaultMaxTTL: of the agent's token, if none is asked
  NonceTTL,        \* 30 seconds
  Reqs,            \* bound: registrations in flight at a time
  MaxNow           \* bound: the clock

ASSUME RegistrationAssumption ==
  /\ TTLs \subseteq Int
  /\ DefaultTokenTTL \in Nat \ {0} /\ DefaultMaxTTL \in Nat \ {0}
  /\ NonceTTL \in Nat /\ MaxNow \in Nat
  /\ NoAgent \notin Agents

VARIABLES
  now,      \* the wall clock, in seconds
  nonce,    \* the nonces map; "forgotten" are those no longer in it
  launch,   \* the launchTokens map, likewise
  agents,   \* the agents map: SPIFFE IDs in it
  born,     \* history: what the agents that were issued a token came from
  pc, job   \* of each request: its step, and what it asks for

vars == <<now, nonce, launch, agents, born, pc, job>>

Undrawn == [state |-> "undrawn"]
NoJob == [launch |-> "none"]

Scopes == UNION ScopeLists
NonceRecords == [state : {"fresh", "consumed", "forgotten"}, expires : Nat]
LaunchRecords ==
  [state : {"open", "consumed", "forgotten"}, allowed : SUBSET Scopes,
   maxTTL : Nat \ {0}, single : BOOLEAN, expires : Nat]
Births ==
  [launch : LaunchTokens, nonce : Nonces, scope : SUBSET Scopes, ttl : Nat \ {0}]
Jobs ==
  [launch : LaunchTokens, nonce : Nonces, scope : SUBSET Scopes,
   agent : Agents \cup {NoAgent}]
Steps == {"idle", "admitted", "challenged", "claimed", "issued"}

Init ==
  /\ now = 0
  /\ nonce = [n \in Nonces |-> Undrawn]
  /\ launch = [t \in LaunchTokens |-> Undrawn]
  /\ agents = {}
  /\ born = [a \in {} |-> Undrawn]
  /\ pc = [r \in Reqs |-> "idle"]
  /\ job = [r \in Reqs |-> NoJob]
-----------------------------------------------------------------------------
Born == DOMAIN born

GoTo(r, step) == pc' = [pc EXCEPT ![r] = step] /\ UNCHANGED job

Respond(r) ==
  /\ pc' = [pc EXCEPT ![r] = "idle"]
  /\ job' = [job EXCEPT ![r] = NoJob]

\* A mutant: a lifetime of zero stays zero.
OrDefaultIfNegative(ttl, default) == IF ttl < 0 THEN default ELSE ttl

OrDefault(ttl, default) == IF ttl <= 0 THEN default ELSE ttl

Tick ==
  /\ now < MaxNow
  /\ now' = now + 1
  /\ UNCHANGED <<nonce, launch, agents, born, pc, job>>

\* ChallengeHdl: CreateNonce.
CreateNonce(n) ==
  /\ nonce[n] = Undrawn
  /\ nonce' = [nonce EXCEPT ![n] = [state |-> "fresh", expires |-> now + NonceTTL]]
  /\ UNCHANGED <<now, launch, agents, born, pc, job>>

\* AdminSvc.CreateLaunchToken, for a caller that may create it.
CreateLaunchToken(t, allowed, maxTTL, ttl, single) ==
  /\ launch[t] = Undrawn
  /\ allowed # {}
  /\ launch' = [launch EXCEPT ![t] =
       [state |-> "open", allowed |-> allowed,
        maxTTL |-> OrDefault(maxTTL, DefaultMaxTTL), single |-> single,
        expires |-> now + OrDefault(ttl, DefaultTokenTTL)]]
  /\ UNCHANGED <<now, nonce, agents, born, pc, job>>

\* GetLaunchToken finds it.
Usable(t) == launch[t].state = "open" /\ now <= launch[t].expires

\* A mutant: nobody compares the scopes.
AdmitAnyScope(r, t, n, scope) ==
  /\ pc[r] = "idle"
  /\ Usable(t)
  /\ scope # {}
  /\ pc' = [pc EXCEPT ![r] = "admitted"]
  /\ job' = [job EXCEPT ![r] =
               [launch |-> t, nonce |-> n, scope |-> scope, agent |-> NoAgent]]
  /\ UNCHANGED <<now, nonce, launch, agents, born>>

\* The launch token, then the scope check.  A request turned away here leaves
\* no trace.
Admit(r, t, n, scope) ==
  /\ pc[r] = "idle"
  /\ Usable(t)
  /\ scope # {} /\ ScopeIsSubset(scope, launch[t].allowed)
  /\ pc' = [pc EXCEPT ![r] = "admitted"]
  /\ job' = [job EXCEPT ![r] =
               [launch |-> t, nonce |-> n, scope |-> scope, agent |-> NoAgent]]
  /\ UNCHANGED <<now, nonce, launch, agents, born>>

\* A mutant: a consumed nonce goes through again.
ConsumeNonceAgain(r) ==
  LET n == job[r].nonce
      known == nonce[n].state \in {"fresh", "consumed"} /\ now <= nonce[n].expires
  IN
  /\ pc[r] = "admitted"
  /\ IF known THEN GoTo(r, "challenged") ELSE Respond(r)
  /\ nonce' = IF known THEN [nonce EXCEPT ![n].state = "consumed"] ELSE nonce
  /\ UNCHANGED <<now, launch, agents, born>>

\* ConsumeNonce; the second attempt at a nonce and a late one both fail,
\* and the latter drops it.
ConsumeNonce(r) ==
  LET n == job[r].nonce
      fresh == nonce[n].state = "fresh"
      late == fresh /\ now > nonce[n].expires
  IN
  /\ pc[r] = "admitted"
  /\ IF fresh /\ ~late THEN GoTo(r, "challenged") ELSE Respond(r)
  /\ nonce' = IF fresh
                THEN [nonce EXCEPT ![n].state = IF late THEN "forgotten" ELSE "consumed"]
                ELSE nonce
  /\ UNCHANGED <<now, launch, agents, born>>

\* The public key does not decode or the signature does not fit.
RejectProof(r) ==
  /\ pc[r] = "challenged"
  /\ Respond(r)
  /\ UNCHANGED <<now, nonce, launch, agents, born>>

\* A mutant: the lookup at the start is trusted.
ConsumeLaunchTokenUnchecked(r) ==
  LET t == job[r].launch IN
  /\ pc[r] = "challenged"
  /\ GoTo(r, "claimed")
  /\ launch' = IF launch[t].single THEN [launch EXCEPT ![t].state = "consumed"] ELSE launch
  /\ UNCHANGED <<now, nonce, agents, born>>

\* The signature fits: ConsumeLaunchToken, for a single-use token.  Its
\* expiry is not looked at again.
ConsumeLaunchToken(r) ==
  LET t == job[r].launch IN
  /\ pc[r] = "challenged"
  /\ IF launch[t].single /\ launch[t].state # "open"
       THEN Respond(r)
       ELSE GoTo(r, "claimed")
  /\ launch' = IF launch[t].single
                 THEN [launch EXCEPT ![t].state = "consumed"]
                 ELSE launch
  /\ UNCHANGED <<now, nonce, agents, born>>

\* NewSpiffeId refuses the orchestration or the task ID.
RejectName(r) ==
  /\ pc[r] = "claimed"
  /\ Respond(r)
  /\ UNCHANGED <<now, nonce, launch, agents, born>>

\* NewSpiffeId draws an instance, and Issue signs its first token.
IssueToken(r, a) ==
  /\ pc[r] = "claimed"
  /\ a \notin Born
  /\ born' = [x \in Born \cup {a} |->
       IF x = a
         THEN [launch |-> job[r].launch, nonce |-> job[r].nonce,
               scope |-> job[r].scope, ttl |-> launch[job[r].launch].maxTTL]
         ELSE born[x]]
  /\ pc' = [pc EXCEPT ![r] = "issued"]
  /\ job' = [job EXCEPT ![r].agent = a]
  /\ UNCHANGED <<now, nonce, launch, agents>>

SaveAgent(r) ==
  /\ pc[r] = "issued"
  /\ agents' = agents \cup {job[r].agent}
  /\ Respond(r)
  /\ UNCHANGED <<now, nonce, launch, born>>

Forget(record) ==
  IF record.state = "undrawn" THEN record ELSE [record EXCEPT !.state = "forgotten"]

\* The process ends: requests in flight are gone, and so are all three maps.
Restart ==
  /\ nonce' = [n \in Nonces |-> Forget(nonce[n])]
  /\ launch' = [t \in LaunchTokens |-> Forget(launch[t])]
  /\ agents' = {}
  /\ pc' = [r \in Reqs |-> "idle"]
  /\ job' = [r \in Reqs |-> NoJob]
  /\ UNCHANGED <<now, born>>

Register(r) ==
  \/ \E t \in LaunchTokens, n \in Nonces, scope \in ScopeLists : Admit(r, t, n, scope)
  \/ ConsumeNonce(r)
  \/ RejectProof(r)
  \/ ConsumeLaunchToken(r)
  \/ RejectName(r)
  \/ \E a \in Agents : IssueToken(r, a)
  \/ SaveAgent(r)

Next ==
  \/ Tick
  \/ \E n \in Nonces : CreateNonce(n)
  \/ \E t \in LaunchTokens, allowed \in ScopeLists, maxTTL, ttl \in TTLs, single \in BOOLEAN :
       CreateLaunchToken(t, allowed, maxTTL, ttl, single)
  \/ \E r \in Reqs : Register(r)
  \/ Restart

Spec == Init /\ [][Next]_vars
-----------------------------------------------------------------------------
\* The state is well typed; a request past its lookup has a job on a token
\* that was drawn.
TypeOK ==
  /\ now \in 0..MaxNow
  /\ nonce \in [Nonces -> NonceRecords \cup {Undrawn}]
  /\ launch \in [LaunchTokens -> LaunchRecords \cup {Undrawn}]
  /\ Born \subseteq Agents
  /\ born \in [Born -> Births]
  /\ agents \subseteq Born
  /\ pc \in [Reqs -> Steps]
  /\ job \in [Reqs -> Jobs \cup {NoJob}]
  /\ \A r \in Reqs : pc[r] # "idle" =>
       /\ job[r] \in Jobs
       /\ launch[job[r].launch] # Undrawn
       /\ pc[r] = "issued" => job[r].agent \in Born

\* Whatever races, fails or restarts, registration implements Enrollment:
\* one agent per nonce, and one per single-use launch token.
Enrolment(a) ==
  [agent |-> a, launch |-> born[a].launch, nonce |-> born[a].nonce,
   single |-> launch[born[a].launch].single]
Enrolled == INSTANCE Enrollment WITH enrolled <- {Enrolment(a) : a \in Born}
EnrolledOnce == Enrolled!Spec

\* No agent's first token exceeds the policy its launch token had when it
\* was created, though the policy is read several steps earlier.
PolicyBinds ==
  \A a \in Born :
    LET policy == launch[born[a].launch] IN
      /\ ScopeIsSubset(born[a].scope, policy.allowed)
      /\ born[a].ttl <= policy.maxTTL

\* A scope violation, a bad nonce or a lost race for the nonce does not
\* waste a single-use token (id_svc.go:123-124): it is consumed only by a
\* request whose scope it allows and that alone consumed its nonce.
FailureSparesToken ==
  [][\A t \in LaunchTokens :
       launch[t].state = "open" /\ launch'[t].state = "consumed" =>
         \E r \in Reqs :
           /\ job[r].launch = t /\ pc'[r] = "claimed"
           /\ ScopeIsSubset(job[r].scope, launch[t].allowed)
           /\ nonce[job[r].nonce].state = "consumed"
           /\ \A q \in Reqs \ {r} :
                pc[q] \in {"challenged", "claimed", "issued"} => job[q].nonce # job[r].nonce
    ]_vars

\* "Consume launch token (after all checks pass)": with no registration on
\* its way, a consumed token has an agent to show for it.
ConsumedMeansRegistered ==
  (\A r \in Reqs : pc[r] = "idle") =>
    \A t \in LaunchTokens :
      launch[t].state = "consumed" => \E a \in Born : born[a].launch = t

(* What makes the above inductive. *)

Holding == {r \in Reqs : pc[r] \in {"challenged", "claimed"}}
Claiming == {r \in Reqs : pc[r] = "claimed" /\ launch[job[r].launch].single}

\* A consumed nonce is answered by one request on its way, or by one agent.
NonceHeld ==
  /\ \A r \in Holding : nonce[job[r].nonce].state = "consumed"
  /\ \A a \in Born : nonce[born[a].nonce].state \in {"consumed", "forgotten"}
  /\ \A r, q \in Holding : r # q => job[r].nonce # job[q].nonce
  /\ \A r \in Holding, a \in Born : born[a].nonce # job[r].nonce
  /\ \A a, b \in Born : a # b => born[a].nonce # born[b].nonce

\* So is a consumed single-use launch token.
LaunchHeld ==
  /\ \A r \in Claiming : launch[job[r].launch].state = "consumed"
  /\ \A a \in Born : launch[born[a].launch] # Undrawn
  /\ \A a \in Born : launch[born[a].launch].single =>
       launch[born[a].launch].state \in {"consumed", "forgotten"}
  /\ \A r, q \in Claiming : r # q => job[r].launch # job[q].launch
  /\ \A r \in Claiming, a \in Born : born[a].launch # job[r].launch

\* A request that was let in asks for no more than its token allows.
JobsWithinPolicy ==
  \A r \in Reqs : pc[r] # "idle" =>
    ScopeIsSubset(job[r].scope, launch[job[r].launch].allowed)
=============================================================================
