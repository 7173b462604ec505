------------------------- MODULE OnboardingTheorems -------------------------
(***************************************************************************)
(* Proofs about Apps and Onboarding, for any number of apps, launch        *)
(* tokens, requests and registrations, any scope lists and any TTLs.       *)
(*                                                                         *)
(* The inductive invariant follows a scope from the ceiling to the agent:  *)
(* a request on its way to a launch token knows the present ceiling of its *)
(* app among those of its time, one that passed the comparison is within   *)
(* one of them, and so are the launch tokens, the registrations that were  *)
(* let in and the agents they became.                                      *)
(***************************************************************************)
EXTENDS Onboarding, ScopeTheorems, TLAPS

Launching(r) == pc[r] \in {"admitted", "granted"}

\* Each step of a request finds in its job what it needs.
JobsFit ==
  /\ DOMAIN job = Reqs /\ job = [r \in Reqs |-> job[r]]
  /\ \A r \in Reqs : pc[r] = "ceilingSet" => job[r].ttl \in TTLs
  /\ \A r \in Reqs : Launching(r) => job[r].allowed \in ScopeLists

\* A request knows the ceilings of its time.
WindowsFit ==
  /\ DOMAIN window = Reqs /\ window = [r \in Reqs |-> window[r]]
  /\ \A r \in Reqs : Launching(r) => app[job[r].app].ceiling \in window[r]
  /\ \A r \in Reqs : pc[r] = "granted" =>
       \E ceiling \in window[r] : ScopeIsSubset(job[r].allowed, ceiling)

LaunchesFit ==
  /\ launched = [t \in DOMAIN launched |-> launched[t]]
  /\ \A t \in DOMAIN launched :
       launched[t].app \in Registered /\ launched[t].allowed \in ScopeLists
  /\ LaunchWithinCeiling

AppInv == TypeOK /\ JobsFit /\ WindowsFit /\ LaunchesFit

\* Registrations and agents keep to their launch tokens.
AgentsFit ==
  /\ \A c \in Claims : claim[c] # NoClaim =>
       ScopeIsSubset(claim[c].scope, launched[claim[c].launch].allowed)
  /\ \A agent \in agents : ScopeIsSubset(agent.scope, launched[agent.launch].allowed)

ShelfFits == shelf = [t \in DOMAIN shelf |-> shelf[t]]

OnboardInv == AppInv /\ OnboardTypeOK /\ ShelfFits /\ AgentsFit

-----------------------------------------------------------------------------
(* Apps *)

LEMMA ValidIsBounded ==
  ASSUME NEW ttl \in TTLs, ValidTTL(ttl) PROVE ttl \in MinTTL..MaxTTL
BY DEF ValidTTL

LEMMA InitAppInv == Init => AppInv
<1> SUFFICES ASSUME Init PROVE AppInv
  OBVIOUS
<1> USE DEF Init
<1>1. Registered = {} /\ DOMAIN launched = {}
  BY DEF Registered
<1>2. TypeOK
  BY <1>1 DEF TypeOK, Steps
<1> QED
  BY <1>1, <1>2 DEF AppInv, JobsFit, WindowsFit, LaunchesFit, LaunchWithinCeiling, Launching

\* A request that ends leaves nothing behind that could be wrong.
LEMMA RespondKeeps ==
  ASSUME AppInv, NEW r \in Reqs, Respond(r), UNCHANGED launched,
         TypeOK', Registered \subseteq Registered',
         \A q \in Reqs \ {r} : Launching(q) =>
           app'[job[q].app].ceiling = app[job[q].app].ceiling
  PROVE  AppInv'
<1>1. /\ pc'[r] = "idle"
      /\ \A q \in Reqs \ {r} : pc'[q] = pc[q] /\ job'[q] = job[q] /\ window'[q] = window[q]
  BY DEF Respond, AppInv, TypeOK, JobsFit, WindowsFit
<1>2. JobsFit'
  BY <1>1 DEF Respond, AppInv, JobsFit, Launching
<1>3. WindowsFit'
  <2>1. DOMAIN window' = Reqs /\ window' = [q \in Reqs |-> window'[q]]
    BY DEF Respond, AppInv, WindowsFit
  <2>2. ASSUME NEW q \in Reqs, Launching(q)'
        PROVE  app'[job'[q].app].ceiling \in window'[q]
    <3>1. q # r /\ Launching(q)
      BY <1>1, <2>2 DEF Launching
    <3> QED
      BY <1>1, <3>1 DEF AppInv, WindowsFit
  <2>3. \A q \in Reqs : pc'[q] = "granted" =>
          \E ceiling \in window'[q] : ScopeIsSubset(job'[q].allowed, ceiling)
    BY <1>1 DEF AppInv, WindowsFit
  <2> QED
    BY <2>1, <2>2, <2>3 DEF WindowsFit
<1>4. LaunchesFit'
  BY DEF AppInv, LaunchesFit, LaunchWithinCeiling
<1> QED
  BY <1>2, <1>3, <1>4 DEF AppInv

\* A request that ends is typed if the tables are.
LEMMA RespondTyped ==
  ASSUME AppInv, NEW r \in Reqs, Respond(r), UNCHANGED <<app, cut, launched>>,
         bearers' \subseteq Registered
  PROVE  TypeOK'
<1>1. /\ pc'[r] = "idle" /\ job'[r] = NoJob
      /\ \A q \in Reqs \ {r} : pc'[q] = pc[q] /\ job'[q] = job[q]
      /\ pc' \in [Reqs -> Steps]
  BY DEF Respond, AppInv, TypeOK, JobsFit, Steps
<1> QED
  BY <1>1 DEF AppInv, TypeOK, Registered

LEMMA RegisterAppKeeps ==
  ASSUME AppInv, NEW a \in AppIds, NEW scopes \in ScopeLists, NEW ttl \in TTLs,
         RegisterApp(a, scopes, ttl)
  PROVE  AppInv'
<1>1. /\ a \notin Registered /\ Registered' = Registered \cup {a}
      /\ app' = [b \in Registered' |-> app'[b]]
      /\ app'[a] = NewRecord(scopes, ttl)
      /\ \A b \in Registered : app'[b] = app[b]
  <2> DEFINE record == NewRecord(scopes, ttl)
  <2>1. a \notin Registered /\ app' = Extend(app, a, record)
    BY DEF RegisterApp, SaveApp
  <2> HIDE DEF record
  <2>2. /\ Registered' = Registered \cup {a}
        /\ app' = [b \in Registered' |-> app'[b]]
        /\ app'[a] = record
        /\ \A b \in Registered : app'[b] = app[b]
    BY <2>1 DEF Extend, Registered
  <2> QED
    BY <2>1, <2>2 DEF record
<1>2. /\ app'[a].status = "active" /\ app'[a].ceiling = scopes
      /\ app'[a].ttl \in MinTTL..MaxTTL \cup {DefaultTTL}
      /\ app'[a] = [status |-> "active", ceiling |-> scopes, ttl |-> app'[a].ttl]
  BY <1>1, ValidIsBounded DEF RegisterApp, NewRecord
<1>3. TypeOK'
  BY <1>1, <1>2 DEF RegisterApp, AppInv, TypeOK
<1>4. \A r \in Reqs : Launching(r) => job[r].app \in Registered
  BY DEF AppInv, TypeOK, Launching
<1> QED
  BY <1>1, <1>3, <1>4
  DEF RegisterApp, AppInv, JobsFit, WindowsFit, LaunchesFit, LaunchWithinCeiling, Launching

LEMMA LookUpAppKeeps ==
  ASSUME AppInv, NEW r \in Reqs, NEW a \in AppIds, LookUpApp(r, a) PROVE AppInv'
<1>1. /\ pc'[r] = "lookedUp" /\ job'[r].app = a /\ a \in Registered
      /\ \A q \in Reqs \ {r} : pc'[q] = pc[q] /\ job'[q] = job[q] /\ window'[q] = window[q]
      /\ pc' \in [Reqs -> Steps]
  BY DEF LookUpApp, Begin, Active, AppInv, TypeOK, JobsFit, WindowsFit, Steps
<1>2. TypeOK'
  BY <1>1 DEF LookUpApp, tables, AppInv, TypeOK, Registered
<1>3. JobsFit'
  BY <1>1 DEF LookUpApp, Begin, AppInv, JobsFit, Launching
<1>4. WindowsFit'
  BY <1>1 DEF LookUpApp, Begin, tables, AppInv, WindowsFit, Launching
<1> QED
  BY <1>2, <1>3, <1>4
  DEF LookUpApp, tables, AppInv, LaunchesFit, LaunchWithinCeiling, Registered

LEMMA AdmitLaunchKeeps ==
  ASSUME AppInv, NEW r \in Reqs, NEW a \in AppIds, NEW allowed \in ScopeLists,
         AdmitLaunch(r, a, allowed)
  PROVE  AppInv'
<1>1. /\ pc'[r] = "admitted" /\ job'[r].app = a /\ a \in Registered
      /\ job'[r].allowed = allowed /\ window'[r] = {app[a].ceiling}
      /\ \A q \in Reqs \ {r} : pc'[q] = pc[q] /\ job'[q] = job[q] /\ window'[q] = window[q]
      /\ pc' \in [Reqs -> Steps]
  BY DEF AdmitLaunch, Begin, AppInv, TypeOK, JobsFit, WindowsFit, Steps
<1>2. TypeOK'
  BY <1>1 DEF AdmitLaunch, tables, AppInv, TypeOK, Registered
<1>3. JobsFit'
  BY <1>1 DEF AdmitLaunch, Begin, AppInv, JobsFit, Launching
<1>4. WindowsFit'
  <2>1. DOMAIN window' = Reqs /\ window' = [q \in Reqs |-> window'[q]] /\ app' = app
    BY DEF AdmitLaunch, Begin, tables, AppInv, WindowsFit
  <2>2. \A q \in Reqs : Launching(q)' => app'[job'[q].app].ceiling \in window'[q]
    BY <1>1, <2>1 DEF AppInv, WindowsFit, Launching
  <2>3. \A q \in Reqs : pc'[q] = "granted" =>
          \E ceiling \in window'[q] : ScopeIsSubset(job'[q].allowed, ceiling)
    BY <1>1 DEF AppInv, WindowsFit
  <2> QED
    BY <2>1, <2>2, <2>3 DEF WindowsFit
<1> QED
  BY <1>2, <1>3, <1>4
  DEF AdmitLaunch, tables, AppInv, LaunchesFit, LaunchWithinCeiling, Registered

LEMMA GrantLaunchKeeps ==
  ASSUME AppInv, NEW r \in Reqs, GrantLaunch(r) PROVE AppInv'
<1>1. CASE ScopeIsSubset(job[r].allowed, app[job[r].app].ceiling)
  <2>1. /\ pc'[r] = "granted" /\ \A q \in Reqs \ {r} : pc'[q] = pc[q]
        /\ pc' \in [Reqs -> Steps] /\ pc[r] = "admitted"
        /\ UNCHANGED <<job, window, launched, app, bearers, cut>>
    BY <1>1 DEF GrantLaunch, tables, AppInv, TypeOK, Steps
  <2>2. TypeOK'
    BY <2>1 DEF AppInv, TypeOK, Registered
  <2>3. JobsFit' /\ WindowsFit'
    BY <1>1, <2>1 DEF AppInv, JobsFit, WindowsFit, Launching
  <2> QED
    BY <2>1, <2>2, <2>3 DEF AppInv, LaunchesFit, LaunchWithinCeiling, Registered
<1>2. CASE ~ScopeIsSubset(job[r].allowed, app[job[r].app].ceiling)
  <2>1. Respond(r) /\ UNCHANGED <<app, cut, bearers, launched>>
    BY <1>2 DEF GrantLaunch, tables
  <2>2. bearers' \subseteq Registered
    BY <2>1 DEF AppInv, TypeOK
  <2> QED
    BY <2>1, <2>2, RespondTyped, RespondKeeps DEF Registered
<1> QED
  BY <1>1, <1>2

LEMMA IssueAppTokenKeeps ==
  ASSUME AppInv, NEW r \in Reqs, IssueAppToken(r) PROVE AppInv'
<1>1. bearers' \subseteq Registered
  BY DEF IssueAppToken, AppInv, TypeOK
<1> QED
  BY <1>1, RespondTyped, RespondKeeps DEF IssueAppToken, Registered

LEMMA SaveLaunchTokenKeeps ==
  ASSUME AppInv, NEW r \in Reqs, NEW t \in LaunchTokens, SaveLaunchToken(r, t)
  PROVE  AppInv'
<1>1. /\ t \notin DOMAIN launched /\ DOMAIN launched' = DOMAIN launched \cup {t}
      /\ launched' = [u \in DOMAIN launched' |-> launched'[u]]
      /\ launched'[t] = [app |-> job[r].app, allowed |-> job[r].allowed,
                         window |-> window[r], stopped |-> job[r].stopped]
      /\ \A u \in DOMAIN launched : launched'[u] = launched[u]
  <2> DEFINE record == [app |-> job[r].app, allowed |-> job[r].allowed,
                        window |-> window[r], stopped |-> job[r].stopped]
  <2>1. t \notin DOMAIN launched /\ launched' = Extend(launched, t, record)
    BY DEF SaveLaunchToken
  <2> HIDE DEF record
  <2>2. /\ DOMAIN launched' = DOMAIN launched \cup {t}
        /\ launched' = [u \in DOMAIN launched' |-> launched'[u]]
        /\ launched'[t] = record
        /\ \A u \in DOMAIN launched : launched'[u] = launched[u]
    BY <2>1 DEF Extend
  <2> QED
    BY <2>1, <2>2 DEF record
<1>2. /\ pc'[r] = "idle" /\ job'[r] = NoJob
      /\ \A q \in Reqs \ {r} : pc'[q] = pc[q] /\ job'[q] = job[q] /\ window'[q] = window[q]
      /\ pc' \in [Reqs -> Steps] /\ Registered' = Registered
  BY DEF SaveLaunchToken, Respond, tables, Registered, AppInv, TypeOK, JobsFit, WindowsFit, Steps
<1>3. TypeOK'
  BY <1>1, <1>2 DEF SaveLaunchToken, tables, AppInv, TypeOK, Registered
<1>4. JobsFit'
  BY <1>2 DEF SaveLaunchToken, Respond, AppInv, JobsFit, Launching
<1>5. WindowsFit'
  BY <1>2 DEF SaveLaunchToken, Respond, tables, AppInv, WindowsFit, Launching
<1>6. LaunchesFit'
  <2>1. /\ pc[r] = "granted" /\ job[r].app \in Registered /\ job[r].allowed \in ScopeLists
        /\ \E ceiling \in window[r] : ScopeIsSubset(job[r].allowed, ceiling)
    BY DEF SaveLaunchToken, AppInv, TypeOK, JobsFit, WindowsFit, Launching
  <2> QED
    BY <1>1, <1>2, <2>1 DEF AppInv, LaunchesFit, LaunchWithinCeiling
<1> QED
  BY <1>3, <1>4, <1>5, <1>6 DEF AppInv

\* A new ceiling, with a request beginning its second half or not.
LEMMA UpdateCeilingKeeps ==
  ASSUME AppInv, NEW r \in Reqs, NEW a \in AppIds, NEW scopes \in ScopeLists,
         NEW ttl \in TTLs, UpdateCeiling(r, a, scopes, ttl)
  PROVE  AppInv'
<1>1. /\ a \in Registered /\ Registered' = Registered
      /\ app'[a] = [app[a] EXCEPT !.ceiling = scopes]
      /\ \A b \in Registered \ {a} : app'[b] = app[b]
      /\ app' = [b \in Registered |-> app'[b]]
  BY DEF UpdateCeiling, UpdateApp, SetCeiling, Registered, AppInv, TypeOK
<1>2. app'[a].ceiling = scopes
  BY <1>1 DEF AppInv, TypeOK
<1>3. /\ pc' \in [Reqs -> Steps] /\ pc[r] = "idle"
      /\ \A q \in Reqs : pc'[q] # pc[q] => q = r /\ pc'[q] = "ceilingSet"
      /\ \A q \in Reqs : pc'[q] = pc[q] => job'[q] = job[q]
      /\ pc'[r] = "ceilingSet" => job'[r] = [app |-> a, ttl |-> ttl]
      /\ DOMAIN job' = Reqs /\ job' = [q \in Reqs |-> job'[q]]
  BY DEF UpdateCeiling, AppInv, TypeOK, JobsFit, Steps
<1>4. TypeOK'
  <2>1. app'[a] \in [status : {"active", "inactive"}, ceiling : ScopeLists,
                     ttl : MinTTL..MaxTTL \cup {DefaultTTL}]
    BY <1>1 DEF AppInv, TypeOK
  <2>2. \A q \in Reqs : IF pc'[q] = "idle" THEN job'[q] = NoJob ELSE job'[q].app \in Registered
    BY <1>1, <1>3 DEF AppInv, TypeOK
  <2> QED
    BY <1>1, <1>3, <2>1, <2>2 DEF UpdateCeiling, AppInv, TypeOK
<1>5. JobsFit'
  BY <1>3 DEF AppInv, JobsFit, Launching
<1>6. WindowsFit'
  <2>1. /\ DOMAIN window' = Reqs /\ window' = [q \in Reqs |-> window'[q]]
        /\ \A q \in Reqs : window[q] \subseteq window'[q]
        /\ \A q \in Reqs : Launching(q) /\ job[q].app = a => scopes \in window'[q]
    BY DEF UpdateCeiling, UpdateApp, SetCeiling, Launching
  <2>2. ASSUME NEW q \in Reqs, Launching(q)'
        PROVE  app'[job'[q].app].ceiling \in window'[q]
    <3>1. Launching(q) /\ job'[q] = job[q] /\ job[q].app \in Registered
      BY <1>3, <2>2 DEF Launching, AppInv, TypeOK
    <3>2. CASE job[q].app = a
      BY <1>2, <2>1, <3>1, <3>2
    <3>3. CASE job[q].app # a
      <4>1. app[job[q].app].ceiling \in window[q]
        BY <3>1 DEF AppInv, WindowsFit
      <4>2. app'[job[q].app] = app[job[q].app]
        BY <1>1, <3>1, <3>3
      <4> QED
        BY <2>1, <3>1, <4>1, <4>2
    <3> QED
      BY <3>2, <3>3
  <2>3. ASSUME NEW q \in Reqs, pc'[q] = "granted"
        PROVE  \E ceiling \in window'[q] : ScopeIsSubset(job'[q].allowed, ceiling)
    BY <1>3, <2>1, <2>3 DEF AppInv, WindowsFit
  <2> QED
    BY <2>1, <2>2, <2>3 DEF WindowsFit
<1> QED
  BY <1>1, <1>4, <1>5, <1>6 DEF UpdateCeiling, AppInv, LaunchesFit, LaunchWithinCeiling

\* A TTL is set to something within bounds, or not at all.
LEMMA SetTTLTyped ==
  ASSUME AppInv, NEW a \in Registered, NEW ttl \in TTLs, SetTTL(a, ttl)
  PROVE  /\ Registered' = Registered
         /\ app' \in [Registered -> [status : {"active", "inactive"}, ceiling : ScopeLists,
                                     ttl : MinTTL..MaxTTL \cup {DefaultTTL}]]
         /\ \A b \in Registered : app'[b].ceiling = app[b].ceiling /\ app'[b].status = app[b].status
<1>1. CASE ValidTTL(ttl)
  BY <1>1, ValidIsBounded DEF SetTTL, AppInv, TypeOK, Registered
<1>2. CASE ~ValidTTL(ttl)
  BY <1>2 DEF SetTTL, AppInv, TypeOK, Registered
<1> QED
  BY <1>1, <1>2

LEMMA ThenUpdateTTLKeeps ==
  ASSUME AppInv, NEW r \in Reqs, ThenUpdateTTL(r) PROVE AppInv'
<1>1. job[r].app \in Registered /\ job[r].ttl \in TTLs
  BY DEF ThenUpdateTTL, AppInv, TypeOK, JobsFit
<1>2. SetTTL(job[r].app, job[r].ttl)
  BY DEF ThenUpdateTTL
<1>3. /\ Registered' = Registered
      /\ app' \in [Registered -> [status : {"active", "inactive"}, ceiling : ScopeLists,
                                  ttl : MinTTL..MaxTTL \cup {DefaultTTL}]]
      /\ \A b \in Registered : app'[b].ceiling = app[b].ceiling
  BY <1>1, <1>2, SetTTLTyped
<1>4. /\ pc'[r] = "idle" /\ job'[r] = NoJob
      /\ \A q \in Reqs \ {r} : pc'[q] = pc[q] /\ job'[q] = job[q]
      /\ pc' \in [Reqs -> Steps]
  BY DEF ThenUpdateTTL, Respond, AppInv, TypeOK, JobsFit, Steps
<1>5. TypeOK'
  BY <1>3, <1>4 DEF ThenUpdateTTL, AppInv, TypeOK
<1>6. \A q \in Reqs : Launching(q) => job[q].app \in Registered
  BY DEF AppInv, TypeOK, Launching
<1> QED
  BY <1>3, <1>5, <1>6, RespondKeeps DEF ThenUpdateTTL

\* Steps that change nothing but the tables, and no ceiling.
LEMMA TablesKeep ==
  ASSUME AppInv, UNCHANGED <<pc, job, window, launched>>, TypeOK', Registered' = Registered,
         \A b \in Registered : app'[b].ceiling = app[b].ceiling
  PROVE  AppInv'
<1>1. \A q \in Reqs : Launching(q) => job[q].app \in Registered
  BY DEF AppInv, TypeOK, Launching
<1>2. WindowsFit'
  BY <1>1 DEF AppInv, WindowsFit, Launching
<1> QED
  BY <1>2 DEF AppInv, JobsFit, LaunchesFit, LaunchWithinCeiling, Launching

LEMMA TableStepKeeps ==
  ASSUME AppInv, NEW a \in AppIds,
         \/ TokenLapses(a)
         \/ RevokeApp(a)
         \/ \E ttl \in TTLs : UpdateAppTTL(a, ttl)
         \/ DeregisterApp(a)
  PROVE  AppInv'
<1>1. CASE TokenLapses(a)
  <2>1. TypeOK'
    BY <1>1 DEF TokenLapses, AppInv, TypeOK, Registered
  <2> QED
    BY <1>1, <2>1, TablesKeep DEF TokenLapses, Registered
<1>2. CASE RevokeApp(a)
  <2>1. TypeOK'
    BY <1>2 DEF RevokeApp, AppInv, TypeOK, Registered
  <2> QED
    BY <1>2, <2>1, TablesKeep DEF RevokeApp, Registered
<1>3. ASSUME NEW ttl \in TTLs, UpdateAppTTL(a, ttl) PROVE AppInv'
  <2>1. a \in Registered /\ SetTTL(a, ttl)
    BY <1>3 DEF UpdateAppTTL
  <2>2. /\ Registered' = Registered
        /\ app' \in [Registered -> [status : {"active", "inactive"}, ceiling : ScopeLists,
                                    ttl : MinTTL..MaxTTL \cup {DefaultTTL}]]
        /\ \A b \in Registered : app'[b].ceiling = app[b].ceiling
    BY <2>1, SetTTLTyped
  <2>3. TypeOK'
    BY <1>3, <2>2 DEF UpdateAppTTL, AppInv, TypeOK
  <2> QED
    BY <1>3, <2>2, <2>3, TablesKeep DEF UpdateAppTTL
<1>4. CASE DeregisterApp(a)
  <2>1. TypeOK'
    BY <1>4 DEF DeregisterApp, UpdateAppStatus, AppInv, TypeOK, Registered
  <2>2. Registered' = Registered /\ \A b \in Registered : app'[b].ceiling = app[b].ceiling
    BY <1>4 DEF DeregisterApp, UpdateAppStatus, AppInv, TypeOK, Registered
  <2> QED
    BY <1>4, <2>1, <2>2, TablesKeep DEF DeregisterApp
<1> QED
  BY <1>1, <1>2, <1>3, <1>4

LEMMA RestartKeeps == ASSUME AppInv, Restart PROVE AppInv'
<1>1. \A r \in Reqs : pc'[r] = "idle"
  BY DEF Restart
<1>2. TypeOK'
  BY DEF Restart, tables, AppInv, TypeOK, Registered, Steps
<1> QED
  BY <1>1, <1>2
  DEF Restart, tables, AppInv, JobsFit, WindowsFit, LaunchesFit, LaunchWithinCeiling, Launching,
      Registered

LEMMA AppStepKeeps == ASSUME AppInv, AppStep PROVE AppInv'
BY RegisterAppKeeps, TableStepKeeps, LookUpAppKeeps, AdmitLaunchKeeps, UpdateCeilingKeeps,
   IssueAppTokenKeeps, GrantLaunchKeeps, ThenUpdateTTLKeeps
DEF AppStep

LEMMA AppsKeep == ASSUME AppInv, [Next]_vars PROVE AppInv'
<1>1. CASE Next
  BY <1>1, AppStepKeeps, SaveLaunchTokenKeeps, RestartKeeps DEF Next
<1>2. CASE UNCHANGED vars
  BY <1>2
  DEF vars, tables, AppInv, TypeOK, Registered, JobsFit, WindowsFit, LaunchesFit,
      LaunchWithinCeiling, Launching
<1> QED
  BY <1>1, <1>2

\* What is shut off stays so.
LEMMA ShutOffStays ==
  ASSUME AppInv, [Next]_vars, NEW a \in AppIds, ShutOff(a) PROVE ShutOff(a)'
<1>0. /\ a \in Registered /\ app[a].status # "active"
      /\ a \in cut \/ a \notin bearers
      /\ \A r \in Reqs : pc[r] \in {"lookedUp", "admitted", "granted"} => job[r].app # a
  BY DEF ShutOff, Active
<1> SUFFICES /\ a \in Registered' /\ app'[a].status # "active"
             /\ a \in cut' \/ a \notin bearers'
             /\ \A r \in Reqs : pc'[r] \in {"lookedUp", "admitted", "granted"} => job'[r].app # a
  BY DEF ShutOff, Active
<1>1. CASE UNCHANGED vars
  BY <1>0, <1>1 DEF vars, tables, Registered
<1>2. ASSUME NEW b \in AppIds, NEW scopes \in ScopeLists, NEW ttl \in TTLs,
             RegisterApp(b, scopes, ttl)
      PROVE  ShutOff(a)'
  <2>1. a # b /\ a \in Registered' /\ app'[a] = app[a]
    BY <1>0, <1>2 DEF RegisterApp, SaveApp, Extend, Registered
  <2> QED
    BY <1>0, <1>2, <2>1 DEF RegisterApp, ShutOff, Active
<1>3. ASSUME NEW b \in AppIds, TokenLapses(b) \/ RevokeApp(b) PROVE ShutOff(a)'
  BY <1>0, <1>3 DEF TokenLapses, RevokeApp, ShutOff, Active, Registered
<1>4. ASSUME NEW b \in AppIds, NEW ttl \in TTLs, UpdateAppTTL(b, ttl) PROVE ShutOff(a)'
  <2>1. Registered' = Registered /\ app'[a].status = app[a].status
    BY <1>0, <1>4, SetTTLTyped DEF UpdateAppTTL
  <2> QED
    BY <1>0, <1>4, <2>1 DEF UpdateAppTTL, ShutOff, Active
<1>5. ASSUME NEW b \in AppIds, DeregisterApp(b) PROVE ShutOff(a)'
  <2>1. Registered' = Registered /\ app'[a].status # "active"
    BY <1>0, <1>5 DEF DeregisterApp, UpdateAppStatus, Registered, AppInv, TypeOK
  <2> QED
    BY <1>0, <1>5, <2>1 DEF DeregisterApp, ShutOff, Active
<1>6. ASSUME NEW r \in Reqs, NEW b \in AppIds, LookUpApp(r, b) PROVE ShutOff(a)'
  <2>1. b # a
    BY <1>0, <1>6 DEF LookUpApp, Active
  <2> QED
    BY <1>0, <1>6, <2>1
    DEF LookUpApp, Begin, tables, ShutOff, Active, Registered, AppInv, TypeOK, JobsFit
<1>7. ASSUME NEW r \in Reqs, NEW b \in AppIds, NEW allowed \in ScopeLists,
             AdmitLaunch(r, b, allowed)
      PROVE  ShutOff(a)'
  <2>1. b # a
    BY <1>0, <1>7 DEF AdmitLaunch
  <2>2. /\ job'[r].app = b
        /\ \A q \in Reqs \ {r} : pc'[q] = pc[q] /\ job'[q] = job[q]
        /\ UNCHANGED <<app, bearers, cut>>
    BY <1>7 DEF AdmitLaunch, Begin, tables, AppInv, TypeOK, JobsFit
  <2> QED
    BY <1>0, <2>1, <2>2 DEF ShutOff, Active, Registered
<1>8. ASSUME NEW r \in Reqs, NEW b \in AppIds, NEW scopes \in ScopeLists, NEW ttl \in TTLs,
             UpdateCeiling(r, b, scopes, ttl)
      PROVE  ShutOff(a)'
  <2>1. Registered' = Registered /\ app'[a].status = app[a].status
    BY <1>0, <1>8 DEF UpdateCeiling, UpdateApp, SetCeiling, Registered, AppInv, TypeOK
  <2>2. \A q \in Reqs : pc'[q] \in {"lookedUp", "admitted", "granted"} =>
          pc'[q] = pc[q] /\ job'[q] = job[q]
    BY <1>8 DEF UpdateCeiling, AppInv, TypeOK, JobsFit
  <2> QED
    BY <1>0, <1>8, <2>1, <2>2 DEF UpdateCeiling, ShutOff, Active
<1>9. ASSUME NEW r \in Reqs, Respond(r), UNCHANGED cut,
             Registered' = Registered, app'[a].status = app[a].status,
             bearers' \subseteq bearers \cup (Registered \ {a})
      PROVE  ShutOff(a)'
  <2>1. /\ pc'[r] = "idle"
        /\ \A q \in Reqs \ {r} : pc'[q] = pc[q] /\ job'[q] = job[q]
    BY <1>9 DEF Respond, AppInv, TypeOK, JobsFit
  <2> QED
    BY <1>0, <1>9, <2>1 DEF ShutOff, Active
<1>10. ASSUME NEW r \in Reqs, IssueAppToken(r) PROVE ShutOff(a)'
  <2>1. job[r].app \in Registered \ {a}
    BY <1>0, <1>10 DEF IssueAppToken, AppInv, TypeOK
  <2> QED
    BY <1>9, <1>10, <2>1 DEF IssueAppToken, Registered
<1>11. ASSUME NEW r \in Reqs, GrantLaunch(r) PROVE ShutOff(a)'
  <2>1. CASE ScopeIsSubset(job[r].allowed, app[job[r].app].ceiling)
    BY <1>0, <1>11, <2>1 DEF GrantLaunch, tables, ShutOff, Active, Registered, AppInv, TypeOK
  <2>2. CASE ~ScopeIsSubset(job[r].allowed, app[job[r].app].ceiling)
    BY <1>9, <1>11, <2>2 DEF GrantLaunch, tables, Registered
  <2> QED
    BY <2>1, <2>2
<1>12. ASSUME NEW r \in Reqs, NEW t \in LaunchTokens, SaveLaunchToken(r, t) PROVE ShutOff(a)'
  BY <1>9, <1>12 DEF SaveLaunchToken, tables, Registered
<1>13. ASSUME NEW r \in Reqs, ThenUpdateTTL(r) PROVE ShutOff(a)'
  <2>1. job[r].app \in Registered /\ job[r].ttl \in TTLs /\ SetTTL(job[r].app, job[r].ttl)
    BY <1>13 DEF ThenUpdateTTL, AppInv, TypeOK, JobsFit
  <2>2. Registered' = Registered /\ app'[a].status = app[a].status
    BY <1>0, <2>1, SetTTLTyped
  <2> QED
    BY <1>9, <1>13, <2>2 DEF ThenUpdateTTL
<1>14. CASE Restart
  BY <1>0, <1>14 DEF Restart, tables, Registered
<1>15. ShutOff(a)'
  BY <1>1, <1>2, <1>3, <1>4, <1>5, <1>6, <1>7, <1>8, <1>10, <1>11, <1>12, <1>13, <1>14
  DEF Next, AppStep, ShutOff, Active
<1> QED
  BY <1>15 DEF ShutOff, Active

\* Apps are well typed, and a launch token never allows more than a ceiling
\* its app had while the request for it was on.
THEOREM CeilingTheorem == Spec => [](TypeOK /\ LaunchWithinCeiling)
<1>1. AppInv => TypeOK /\ LaunchWithinCeiling
  BY DEF AppInv, LaunchesFit
<1> QED
  BY <1>1, InitAppInv, AppsKeep, PTL DEF Spec

\* No sequence of logins, updates and restarts brings back an app that is
\* shut off.
THEOREM ShutOffTheorem == Spec => ShutOffIsFinal
<1>1. AppInv /\ [Next]_vars => [\A a \in AppIds : ShutOff(a) => ShutOff(a)']_vars
  BY ShutOffStays
<1> QED
  BY <1>1, InitAppInv, AppsKeep, PTL DEF Spec, ShutOffIsFinal
-----------------------------------------------------------------------------
(* Onboarding *)

\* To the apps, onboarding is one of their own steps or none at all.
LEMMA OnboardStep == ASSUME [OnboardNext]_onboardVars PROVE [Next]_vars
BY DEF OnboardNext, OnboardFairness, onboardVars, OfferLaunchToken, LaunchTokenExpires,
   AdmitAgent, RejectAgent, EnrollAgent, RestartAll, Next

LEMMA InitOnboardInv == OnboardInit => OnboardInv
<1> SUFFICES ASSUME OnboardInit PROVE OnboardInv
  OBVIOUS
<1>1. AppInv
  BY InitAppInv DEF OnboardInit
<1>2. DOMAIN shelf = {} /\ DOMAIN launched = {} /\ agents = {}
  BY DEF OnboardInit, Init
<1> QED
  BY <1>1, <1>2 DEF OnboardInit, OnboardInv, OnboardTypeOK, AppInv, ShelfFits, AgentsFit

\* Registered apps and launch tokens stay what they are.
LEMMA NothingVanishes ==
  ASSUME AppInv, [Next]_vars
  PROVE  /\ Registered \subseteq Registered'
         /\ DOMAIN launched \subseteq DOMAIN launched'
         /\ \A t \in DOMAIN launched : launched'[t] = launched[t]
<1>1. CASE UNCHANGED vars
  BY <1>1 DEF vars, tables, Registered
<1>2. CASE Restart
  BY <1>2 DEF Restart, tables, Registered
<1>3. ASSUME NEW r \in Reqs, NEW t \in LaunchTokens, SaveLaunchToken(r, t)
      PROVE  /\ Registered \subseteq Registered'
             /\ DOMAIN launched \subseteq DOMAIN launched'
             /\ \A u \in DOMAIN launched : launched'[u] = launched[u]
  BY <1>3 DEF SaveLaunchToken, tables, Registered, Extend
<1>4. CASE AppStep
  <2>1. launched' = launched
    BY <1>4
    DEF AppStep, RegisterApp, TokenLapses, RevokeApp, UpdateAppTTL, DeregisterApp, LookUpApp,
        AdmitLaunch, UpdateCeiling, IssueAppToken, GrantLaunch, ThenUpdateTTL
  <2>2. Registered \subseteq Registered'
    <3>1. \A a \in AppIds, scopes \in ScopeLists, ttl \in TTLs :
            RegisterApp(a, scopes, ttl) => Registered \subseteq Registered'
      BY DEF RegisterApp, SaveApp, Extend, Registered
    <3>2. \A a \in AppIds :
            TokenLapses(a) \/ RevokeApp(a) \/ (\E ttl \in TTLs : UpdateAppTTL(a, ttl))
              \/ DeregisterApp(a) => Registered \subseteq Registered'
      BY DEF TokenLapses, RevokeApp, UpdateAppTTL, SetTTL, DeregisterApp, UpdateAppStatus,
         Registered
    <3>3. \A r \in Reqs, a \in AppIds :
            LookUpApp(r, a) \/ (\E allowed \in ScopeLists : AdmitLaunch(r, a, allowed))
              => Registered \subseteq Registered'
      BY DEF LookUpApp, AdmitLaunch, tables, Registered
    <3>4. \A r \in Reqs, a \in AppIds, scopes \in ScopeLists, ttl \in TTLs :
            UpdateCeiling(r, a, scopes, ttl) => Registered \subseteq Registered'
      BY DEF UpdateCeiling, UpdateApp, SetCeiling, Registered
    <3>5. \A r \in Reqs : IssueAppToken(r) \/ GrantLaunch(r) \/ ThenUpdateTTL(r)
              => Registered \subseteq Registered'
      BY DEF IssueAppToken, GrantLaunch, ThenUpdateTTL, SetTTL, tables, Registered
    <3> QED
      BY <1>4, <3>1, <3>2, <3>3, <3>4, <3>5 DEF AppStep
  <2> QED
    BY <2>1, <2>2
<1> QED
  BY <1>1, <1>2, <1>3, <1>4 DEF Next

\* The shelf has a place of the right form for every launch token.
ShelfTyped ==
  /\ DOMAIN shelf = DOMAIN launched
  /\ \A t \in DOMAIN shelf :
       shelf[t] \in [state : {"open", "expired", "consumed", "forgotten"}, single : BOOLEAN]

ClaimsTyped ==
  /\ claim \in [Claims -> [launch : DOMAIN shelf, scope : ScopeLists] \cup {NoClaim}]
  /\ agents \subseteq [launch : DOMAIN shelf, scope : ScopeLists]

\* What is left to show of a step that is one of the apps.
LEMMA OnboardInvFrom ==
  ASSUME OnboardInv, [Next]_vars, ShelfTyped', ClaimsTyped', ShelfFits', AgentsFit'
  PROVE  OnboardInv'
<1>1. AppInv'
  BY AppsKeep DEF OnboardInv
<1> QED
  BY <1>1 DEF OnboardInv, OnboardTypeOK, AppInv, LaunchesFit, ShelfTyped, ClaimsTyped

\* Claims and agents that stay have launch tokens that stay.
LEMMA ClaimsStay ==
  ASSUME OnboardInv, [Next]_vars, UNCHANGED agents,
         DOMAIN shelf \subseteq DOMAIN shelf',
         DOMAIN claim' = Claims, claim' = [c \in Claims |-> claim'[c]],
         \A c \in Claims : claim'[c] \in {claim[c], NoClaim}
  PROVE  ClaimsTyped' /\ AgentsFit'
<1>1. /\ DOMAIN shelf = DOMAIN launched
      /\ \A t \in DOMAIN launched : launched'[t] = launched[t]
  BY NothingVanishes DEF OnboardInv, OnboardTypeOK
<1>2. ClaimsTyped'
  <2>1. \A c \in Claims : claim'[c] \in [launch : DOMAIN shelf', scope : ScopeLists] \cup {NoClaim}
    BY DEF OnboardInv, OnboardTypeOK
  <2>2. agents' \subseteq [launch : DOMAIN shelf', scope : ScopeLists]
    BY DEF OnboardInv, OnboardTypeOK
  <2>3. claim' \in [Claims -> [launch : DOMAIN shelf', scope : ScopeLists] \cup {NoClaim}]
    BY <2>1
  <2> QED
    BY <2>2, <2>3 DEF ClaimsTyped
<1>3. ASSUME NEW c \in Claims, claim'[c] # NoClaim
      PROVE  ScopeIsSubset(claim'[c].scope, launched'[claim'[c].launch].allowed)
  <2>1. claim'[c] = claim[c] /\ claim[c].launch \in DOMAIN launched
    BY <1>1, <1>3 DEF OnboardInv, OnboardTypeOK
  <2> QED
    BY <1>1, <1>3, <2>1 DEF OnboardInv, AgentsFit
<1>4. ASSUME NEW agent \in agents'
      PROVE  ScopeIsSubset(agent.scope, launched'[agent.launch].allowed)
  <2>1. agent \in agents /\ agent.launch \in DOMAIN launched
    BY <1>1, <1>4 DEF OnboardInv, OnboardTypeOK
  <2> QED
    BY <1>1, <2>1 DEF OnboardInv, AgentsFit
<1> QED
  BY <1>2, <1>3, <1>4 DEF AgentsFit

LEMMA OnboardKeeps == ASSUME OnboardInv, [OnboardNext]_onboardVars PROVE OnboardInv'
<1>0. [Next]_vars
  BY OnboardStep
<1>a. /\ DOMAIN shelf = DOMAIN launched /\ ShelfTyped /\ ShelfFits
      /\ DOMAIN claim = Claims /\ claim = [c \in Claims |-> claim[c]]
  BY DEF OnboardInv, OnboardTypeOK, ShelfTyped
<1>b. ASSUME UNCHANGED <<shelf, claim, agents>>, DOMAIN launched' = DOMAIN launched
      PROVE  OnboardInv'
  <2>1. ShelfTyped' /\ ShelfFits'
    BY <1>a, <1>b DEF ShelfTyped, ShelfFits
  <2>2. ClaimsTyped' /\ AgentsFit'
    BY <1>0, <1>a, <1>b, ClaimsStay
  <2> QED
    BY <1>0, <2>1, <2>2, OnboardInvFrom
<1>1. CASE UNCHANGED onboardVars
  BY <1>b, <1>1 DEF onboardVars, vars
<1>2. CASE AppStep /\ UNCHANGED <<shelf, claim, agents>>
  <2>1. launched' = launched
    BY <1>2
    DEF AppStep, RegisterApp, TokenLapses, RevokeApp, UpdateAppTTL, DeregisterApp, LookUpApp,
        AdmitLaunch, UpdateCeiling, IssueAppToken, GrantLaunch, ThenUpdateTTL
  <2> QED
    BY <1>b, <1>2, <2>1
<1>3. ASSUME NEW r \in Reqs, NEW t \in LaunchTokens, NEW single \in BOOLEAN,
             OfferLaunchToken(r, t, single)
      PROVE  OnboardInv'
  <2> DEFINE place == [state |-> "open", single |-> single]
  <2>1. /\ DOMAIN launched' = DOMAIN launched \cup {t} /\ t \notin DOMAIN launched
        /\ shelf' = Extend(shelf, t, place) /\ UNCHANGED <<claim, agents>>
    BY <1>3 DEF OfferLaunchToken, SaveLaunchToken, Extend
  <2>2. place \in [state : {"open", "expired", "consumed", "forgotten"}, single : BOOLEAN]
    OBVIOUS
  <2> HIDE DEF place
  <2>3. /\ DOMAIN shelf' = DOMAIN shelf \cup {t}
        /\ shelf' = [u \in DOMAIN shelf' |-> shelf'[u]]
        /\ shelf'[t] = place /\ \A u \in DOMAIN shelf : shelf'[u] = shelf[u]
    BY <1>a, <2>1 DEF Extend
  <2>4. ShelfTyped' /\ ShelfFits'
    BY <1>a, <2>1, <2>2, <2>3 DEF ShelfTyped, ShelfFits
  <2>5. ClaimsTyped' /\ AgentsFit'
    BY <1>0, <1>a, <2>1, <2>3, ClaimsStay
  <2> QED
    BY <1>0, <2>4, <2>5, OnboardInvFrom
<1>4. ASSUME NEW t \in LaunchTokens, LaunchTokenExpires(t) PROVE OnboardInv'
  <2>1. launched' = launched /\ UNCHANGED <<claim, agents>>
    BY <1>4 DEF LaunchTokenExpires, vars
  <2>2. ShelfTyped' /\ ShelfFits' /\ DOMAIN shelf' = DOMAIN shelf
    BY <1>4, <1>a, <2>1 DEF LaunchTokenExpires, ShelfTyped, ShelfFits
  <2>3. ClaimsTyped' /\ AgentsFit'
    BY <1>0, <1>a, <2>1, <2>2, ClaimsStay
  <2> QED
    BY <1>0, <2>2, <2>3, OnboardInvFrom
<1>5. ASSUME NEW c \in Claims, NEW t \in LaunchTokens, NEW scope \in ScopeLists,
             AdmitAgent(c, t, scope)
      PROVE  OnboardInv'
  <2>1. /\ UNCHANGED <<launched, shelf, agents>> /\ t \in DOMAIN shelf
        /\ claim' = [claim EXCEPT ![c] = [launch |-> t, scope |-> scope]]
        /\ ScopeIsSubset(scope, launched[t].allowed)
    BY <1>5 DEF AdmitAgent, vars
  <2>2. ShelfTyped' /\ ShelfFits'
    BY <1>a, <2>1 DEF ShelfTyped, ShelfFits
  <2>3. ClaimsTyped'
    BY <2>1 DEF ClaimsTyped, OnboardInv, OnboardTypeOK
  <2>4. claim'[c].launch = t /\ claim'[c].scope = scope /\ \A d \in Claims \ {c} : claim'[d] = claim[d]
    BY <1>a, <2>1
  <2>5. AgentsFit'
    BY <2>1, <2>4 DEF AgentsFit, OnboardInv
  <2> QED
    BY <1>0, <2>2, <2>3, <2>5, OnboardInvFrom
<1>6. ASSUME NEW c \in Claims, RejectAgent(c) PROVE OnboardInv'
  <2>1. /\ UNCHANGED <<launched, shelf, agents>> /\ DOMAIN claim' = Claims
        /\ claim' = [d \in Claims |-> claim'[d]]
        /\ \A d \in Claims : claim'[d] \in {claim[d], NoClaim}
    BY <1>6, <1>a DEF RejectAgent, vars
  <2>2. ShelfTyped' /\ ShelfFits'
    BY <1>a, <2>1 DEF ShelfTyped, ShelfFits
  <2>3. ClaimsTyped' /\ AgentsFit'
    BY <1>0, <2>1, ClaimsStay
  <2> QED
    BY <1>0, <2>2, <2>3, OnboardInvFrom
<1>7. ASSUME NEW c \in Claims, EnrollAgent(c) PROVE OnboardInv'
  <2>1. /\ launched' = launched /\ claim[c] # NoClaim
        /\ claim[c] \in [launch : DOMAIN shelf, scope : ScopeLists]
        /\ agents' \in {agents, agents \cup {claim[c]}}
        /\ claim' = [claim EXCEPT ![c] = NoClaim]
    BY <1>7 DEF EnrollAgent, vars, OnboardInv, OnboardTypeOK
  <2>2. ShelfTyped' /\ ShelfFits' /\ DOMAIN shelf' = DOMAIN shelf
    <3>1. CASE shelf[claim[c].launch].single
      <4>1. shelf' = [shelf EXCEPT ![claim[c].launch].state = "consumed"]
        BY <1>7, <3>1 DEF EnrollAgent
      <4> QED
        BY <1>a, <2>1, <4>1 DEF ShelfTyped, ShelfFits
    <3>2. CASE ~shelf[claim[c].launch].single
      <4>1. shelf' = shelf
        BY <1>7, <3>2 DEF EnrollAgent
      <4> QED
        BY <1>a, <2>1, <4>1 DEF ShelfTyped, ShelfFits
    <3> QED
      BY <3>1, <3>2
  <2>3. ClaimsTyped'
    BY <2>1, <2>2 DEF ClaimsTyped, OnboardInv, OnboardTypeOK
  <2>4. AgentsFit'
    <3>1. \A d \in Claims : claim'[d] # NoClaim => claim'[d] = claim[d]
      BY <1>a, <2>1
    <3> QED
      BY <2>1, <3>1 DEF AgentsFit, OnboardInv
  <2> QED
    BY <1>0, <2>2, <2>3, <2>4, OnboardInvFrom
<1>8. CASE RestartAll
  <2>1. /\ launched' = launched /\ agents' = agents
        /\ DOMAIN claim' = Claims /\ claim' = [c \in Claims |-> claim'[c]]
        /\ \A c \in Claims : claim'[c] = NoClaim
    BY <1>8 DEF RestartAll, Restart
  <2>2. ShelfTyped' /\ ShelfFits' /\ DOMAIN shelf' = DOMAIN shelf
    BY <1>8, <1>a, <2>1 DEF RestartAll, ShelfTyped, ShelfFits
  <2>3. ClaimsTyped' /\ AgentsFit'
    BY <1>0, <2>1, <2>2, ClaimsStay
  <2> QED
    BY <1>0, <2>2, <2>3, OnboardInvFrom
<1> QED
  BY <1>1, <1>2, <1>3, <1>4, <1>5, <1>6, <1>7, <1>8 DEF OnboardNext

\* What an agent was granted is within a ceiling its app had: the comparisons
\* at the launch token and at the registration compose.
LEMMA AgentsWithin == ASSUME OnboardInv PROVE AgentWithinCeiling
<1> SUFFICES ASSUME NEW agent \in agents
             PROVE  \E ceiling \in launched[agent.launch].window :
                      ScopeIsSubset(agent.scope, ceiling)
  BY DEF AgentWithinCeiling
<1>1. /\ agent.launch \in DOMAIN launched
      /\ ScopeIsSubset(agent.scope, launched[agent.launch].allowed)
  BY DEF OnboardInv, OnboardTypeOK, AgentsFit
<1>2. PICK ceiling \in launched[agent.launch].window :
        ScopeIsSubset(launched[agent.launch].allowed, ceiling)
  BY <1>1 DEF OnboardInv, AppInv, LaunchesFit, LaunchWithinCeiling
<1> QED
  BY <1>1, <1>2, SubsetTransitive

\* What is drained stays so and gets no agent.
LEMMA DrainedStays ==
  ASSUME OnboardInv, [OnboardNext]_onboardVars, NEW a \in AppIds, Drained(a)
  PROVE  Drained(a)' /\ AgentsOf(a)' = AgentsOf(a)
<1>0. /\ ShutOff(a)
      /\ \A t \in DOMAIN shelf : launched[t].app = a => shelf[t].state # "open"
      /\ \A c \in Claims : claim[c] # NoClaim => launched[claim[c].launch].app # a
  BY DEF Drained
<1>a. /\ DOMAIN shelf = DOMAIN launched /\ DOMAIN claim = Claims
      /\ \A c \in Claims : claim[c] # NoClaim => claim[c].launch \in DOMAIN launched
      /\ \A agent \in agents : agent.launch \in DOMAIN launched
  BY DEF OnboardInv, OnboardTypeOK
<1>b. ShutOff(a)' /\ \A t \in DOMAIN launched : launched'[t] = launched[t]
  BY <1>0, OnboardStep, ShutOffStays, NothingVanishes DEF OnboardInv
<1>c. ASSUME \A t \in DOMAIN shelf' :
               launched'[t].app = a => t \in DOMAIN shelf /\ shelf'[t].state # "open",
             \A c \in Claims : claim'[c] = claim[c] \/ claim'[c] = NoClaim,
             \A agent \in agents' \ agents : launched'[agent.launch].app # a,
             agents \subseteq agents'
      PROVE  Drained(a)' /\ AgentsOf(a)' = AgentsOf(a)
  <2>1. \A c \in Claims : claim'[c] # NoClaim => launched'[claim'[c].launch].app # a
    BY <1>0, <1>a, <1>b, <1>c
  <2>2. AgentsOf(a)' = AgentsOf(a)
    BY <1>a, <1>b, <1>c DEF AgentsOf
  <2> QED
    BY <1>b, <1>c, <2>1, <2>2 DEF Drained
<1>d. ASSUME UNCHANGED <<shelf, claim, agents>>
      PROVE  Drained(a)' /\ AgentsOf(a)' = AgentsOf(a)
  <2>1. \A t \in DOMAIN shelf' : launched'[t].app = a => t \in DOMAIN shelf /\ shelf'[t].state # "open"
    BY <1>0, <1>a, <1>b, <1>d
  <2> QED
    BY <1>c, <1>d, <2>1
<1>1. CASE UNCHANGED onboardVars \/ (AppStep /\ UNCHANGED <<shelf, claim, agents>>)
  BY <1>d, <1>1 DEF onboardVars
<1>2. ASSUME NEW r \in Reqs, NEW t \in LaunchTokens, NEW single \in BOOLEAN,
             OfferLaunchToken(r, t, single)
      PROVE  Drained(a)' /\ AgentsOf(a)' = AgentsOf(a)
  <2>1. /\ DOMAIN shelf' = DOMAIN shelf \cup {t} /\ t \notin DOMAIN launched
        /\ \A u \in DOMAIN shelf : shelf'[u] = shelf[u]
        /\ launched'[t].app = job[r].app /\ UNCHANGED <<claim, agents>>
    BY <1>a, <1>2 DEF OfferLaunchToken, SaveLaunchToken, Extend
  <2>2. job[r].app # a
    BY <1>0, <1>2 DEF OfferLaunchToken, SaveLaunchToken, ShutOff
  <2>3. \A u \in DOMAIN shelf' : launched'[u].app = a => u \in DOMAIN shelf /\ shelf'[u].state # "open"
    BY <1>0, <1>a, <1>b, <2>1, <2>2
  <2> QED
    BY <1>c, <2>1, <2>3
<1>3. ASSUME NEW t \in LaunchTokens, LaunchTokenExpires(t)
      PROVE  Drained(a)' /\ AgentsOf(a)' = AgentsOf(a)
  <2>1. DOMAIN shelf' = DOMAIN shelf /\ UNCHANGED <<claim, agents>>
    BY <1>3 DEF LaunchTokenExpires
  <2>2. \A u \in DOMAIN shelf : shelf'[u].state # "open" \/ shelf'[u] = shelf[u]
    BY <1>3 DEF LaunchTokenExpires, OnboardInv, OnboardTypeOK
  <2>3. \A u \in DOMAIN shelf' : launched'[u].app = a => u \in DOMAIN shelf /\ shelf'[u].state # "open"
    BY <1>0, <1>a, <1>b, <2>1, <2>2
  <2> QED
    BY <1>c, <2>1, <2>3
<1>4. ASSUME NEW c \in Claims, NEW t \in LaunchTokens, NEW scope \in ScopeLists,
             AdmitAgent(c, t, scope)
      PROVE  Drained(a)' /\ AgentsOf(a)' = AgentsOf(a)
  <2>1. /\ UNCHANGED <<shelf, agents>> /\ launched[t].app # a
        /\ t \in DOMAIN launched
        /\ claim'[c].launch = t /\ \A d \in Claims \ {c} : claim'[d] = claim[d]
    BY <1>0, <1>a, <1>4 DEF AdmitAgent
  <2>2. \A d \in Claims : claim'[d] # NoClaim => launched'[claim'[d].launch].app # a
    BY <1>0, <1>a, <1>b, <2>1
  <2>3. \A u \in DOMAIN shelf' : launched'[u].app = a => shelf'[u].state # "open"
    BY <1>0, <1>a, <1>b, <2>1
  <2>4. AgentsOf(a)' = AgentsOf(a)
    BY <1>a, <1>b, <2>1 DEF AgentsOf
  <2> QED
    BY <1>b, <2>2, <2>3, <2>4 DEF Drained
<1>5. ASSUME NEW c \in Claims, RejectAgent(c)
      PROVE  Drained(a)' /\ AgentsOf(a)' = AgentsOf(a)
  <2>1. /\ UNCHANGED <<shelf, agents>>
        /\ \A d \in Claims : claim'[d] = claim[d] \/ claim'[d] = NoClaim
    BY <1>5, <1>a DEF RejectAgent
  <2>2. \A u \in DOMAIN shelf' : launched'[u].app = a => u \in DOMAIN shelf /\ shelf'[u].state # "open"
    BY <1>0, <1>a, <1>b, <2>1
  <2> QED
    BY <1>c, <2>1, <2>2
<1>6. ASSUME NEW c \in Claims, EnrollAgent(c)
      PROVE  Drained(a)' /\ AgentsOf(a)' = AgentsOf(a)
  <2>1. /\ claim[c] # NoClaim /\ agents' \in {agents, agents \cup {claim[c]}}
        /\ \A d \in Claims : claim'[d] = claim[d] \/ claim'[d] = NoClaim
        /\ claim[c].launch \in DOMAIN shelf
    BY <1>a, <1>6 DEF EnrollAgent
  <2>2. /\ DOMAIN shelf' = DOMAIN shelf
        /\ \A u \in DOMAIN shelf : shelf'[u].state # "open" \/ shelf'[u] = shelf[u]
    BY <1>6, <2>1 DEF EnrollAgent, OnboardInv, OnboardTypeOK
  <2>3. \A u \in DOMAIN shelf' : launched'[u].app = a => u \in DOMAIN shelf /\ shelf'[u].state # "open"
    BY <1>0, <1>a, <1>b, <2>2
  <2>4. \A agent \in agents' \ agents : launched'[agent.launch].app # a
    BY <1>0, <1>a, <1>b, <2>1
  <2> QED
    BY <1>c, <2>1, <2>3, <2>4
<1>7. CASE RestartAll
  <2>1. /\ DOMAIN shelf' = DOMAIN shelf /\ agents' = agents
        /\ \A u \in DOMAIN shelf : shelf'[u].state = "forgotten"
        /\ \A c \in Claims : claim'[c] = NoClaim
    BY <1>7 DEF RestartAll, OnboardInv, OnboardTypeOK
  <2> QED
    BY <1>c, <2>1
<1> QED
  BY <1>1, <1>2, <1>3, <1>4, <1>5, <1>6, <1>7 DEF OnboardNext

\* Onboarding implements Apps: registrations and launch tokens on the shelf
\* never get in the way of what holds of apps alone.
THEOREM AppsImplemented == OnboardSpec => Spec
<1>1. OnboardInit => Init
  BY DEF OnboardInit
<1> QED
  BY <1>1, OnboardStep, PTL DEF OnboardSpec, Spec

\* Apps, shelf and registrations stay well typed: whoever refers to a launch
\* token refers to one that was made.
THEOREM OnboardTypeCorrect == OnboardSpec => []OnboardTypeOK
<1>1. OnboardInv => OnboardTypeOK
  BY DEF OnboardInv
<1> QED
  BY <1>1, InitOnboardInv, OnboardKeeps, PTL DEF OnboardSpec

\* No agent is ever granted more than a ceiling its app had while its launch
\* token was asked for.
THEOREM AgentTheorem == OnboardSpec => []AgentWithinCeiling
<1>1. OnboardInv => AgentWithinCeiling
  BY AgentsWithin DEF OnboardInv
<1> QED
  BY <1>1, InitOnboardInv, OnboardKeeps, PTL DEF OnboardSpec

\* An app that is shut off stays so, and once drained it never gets another
\* agent.
THEOREM OffboardingTheorem == OnboardSpec => OffboardingIsFinal
<1>1. OnboardInv /\ [OnboardNext]_onboardVars =>
        [\A a \in AppIds :
           /\ ShutOff(a) => ShutOff(a)'
           /\ Drained(a) => Drained(a)' /\ AgentsOf(a)' = AgentsOf(a)]_onboardVars
  BY OnboardStep, ShutOffStays, DrainedStays DEF OnboardInv
<1> QED
  BY <1>1, InitOnboardInv, OnboardKeeps, PTL DEF OnboardSpec, OffboardingIsFinal
=============================================================================
