-------------------------------- MODULE Apps --------------------------------
(***************************************************************************)
(* The life of an app: AppSvc and AppHdl (internal/app) over the apps      *)
(* table of SqlStore, and the app's side of AdminHdl's launch token        *)
(* handler (internal/admin/admin_hdl.go).                                  *)
(*                                                                         *)
(* Requests are processes whose steps are their calls into the store and   *)
(* the token service; no lock and no transaction spans two of them:        *)
(*                                                                         *)
(*   idle -> looked up -> idle             app login (bcrypt in between)   *)
(*   idle -> admitted -> granted -> idle   launch token                    *)
(*   idle -> ceiling set -> idle           update of ceiling, then TTL     *)
(*                                                                         *)
(* An app is good for requests while it holds a token that is neither      *)
(* expired nor revoked.  Renewal (TokenService) lets it hold one for as    *)
(* long as it likes, so a token here lapses when its app lets it.          *)
(***************************************************************************)
EXTENDS Integers, FiniteSets, Scope

CONSTANTS
  AppIds,        \* app_id; client_id and secret are as unique
  ScopeLists,    \* scope lists that requests mention
  TTLs,          \* token_ttl that requests mention, 0 if they do not
  DefaultTTL,    \* AA_APP_TOKEN_TTL
  MinTTL, MaxTTL,   \* minAppTokenTTL, maxAppTokenTTL
  LaunchTokens,  \* bound: launch tokens ever created
  Reqs           \* bound: requests in flight at a time

ASSUME AppsAssumption ==
  /\ TTLs \subseteq Int /\ DefaultTTL \in Int
  /\ MinTTL \in Nat /\ MaxTTL \in Nat /\ MinTTL > 0

VARIABLES
  app,        \* the apps table: [status, ceiling, ttl] by app_id
  bearers,    \* apps that hold a token that has not expired
  cut,        \* apps whose subject "app:<id>" is revoked at the agent level
  pc, job,    \* of each request: its step, and what it carries along
  window,     \* history: the ceilings its app had while a request was on
  launched    \* history: the launch tokens created

tables == <<app, bearers, cut>>
vars == <<tables, pc, job, window, launched>>

Steps == {"idle", "lookedUp", "admitted", "granted", "ceilingSet"}
NoJob == [app |-> "none"]

Init ==
  /\ app = << >>
  /\ bearers = {} /\ cut = {}
  /\ pc = [r \in Reqs |-> "idle"]
  /\ job = [r \in Reqs |-> NoJob]
  /\ window = [r \in Reqs |-> {}]
  /\ launched = << >>
-----------------------------------------------------------------------------
Registered == DOMAIN app
Active(a) == a \in Registered /\ app[a].status = "active"

\* A mutant of ValidTTL: only the lower bound.
LongEnough(ttl) == ttl >= MinTTL

ValidTTL(ttl) == ttl \in MinTTL..MaxTTL
ValidScopes(scopes) == \A s \in scopes : Parses(s)

Extend(f, x, v) == [y \in DOMAIN f \cup {x} |-> IF y = x THEN v ELSE f[y]]

Begin(r, step, record, ceilings) ==
  /\ pc[r] = "idle"
  /\ pc' = [pc EXCEPT ![r] = step]
  /\ job' = [job EXCEPT ![r] = record]
  /\ window' = [window EXCEPT ![r] = ceilings]

Respond(r) ==
  /\ pc' = [pc EXCEPT ![r] = "idle"]
  /\ job' = [job EXCEPT ![r] = NoJob]
  /\ window' = [window EXCEPT ![r] = {}]

\* The record of a new app: a TTL of 0 means the default, which nobody checks.
NewRecord(scopes, ttl) ==
  [status |-> "active", ceiling |-> scopes,
   ttl |-> IF ttl = 0 THEN DefaultTTL ELSE ttl]

\* app_id, name and client_id are unique columns.
SaveApp(a, record) ==
  /\ a \notin Registered
  /\ app' = Extend(app, a, record)

\* handleRegisterApp, for an administrator; it wants at least one scope.
RegisterApp(a, scopes, ttl) ==
  /\ scopes # {} /\ ValidScopes(scopes)
  /\ ttl = 0 \/ ValidTTL(ttl)
  /\ SaveApp(a, NewRecord(scopes, ttl))
  /\ UNCHANGED <<bearers, cut, pc, job, window, launched>>

\* A mutant of LookUpApp: the status goes unread.
LookUpAnyApp(r, a) ==
  /\ a \in Registered
  /\ Begin(r, "lookedUp", [app |-> a], {})
  /\ UNCHANGED <<tables, launched>>

\* AuthenticateApp up to the comparison of secrets; a failure of either
\* leaves no trace but an audit event.
LookUpApp(r, a) ==
  /\ Active(a)
  /\ Begin(r, "lookedUp", [app |-> a], {})
  /\ UNCHANGED <<tables, launched>>

\* AuthenticateApp from there on: the row is not read again.
IssueAppToken(r) ==
  /\ pc[r] = "lookedUp"
  /\ bearers' = bearers \cup {job[r].app}
  /\ Respond(r)
  /\ UNCHANGED <<app, cut, launched>>

TokenLapses(a) ==
  /\ a \in bearers
  /\ bearers' = bearers \ {a}
  /\ UNCHANGED <<app, cut, pc, job, window, launched>>

\* Revocation of "app:<id>" at the agent level (RevokeHdl).
RevokeApp(a) ==
  /\ a \in Registered
  /\ cut' = cut \cup {a}
  /\ UNCHANGED <<app, bearers, pc, job, window, launched>>

\* Bound: there is a launch token left for each request on its way to one.
Room ==
  Cardinality({q \in Reqs : pc[q] \in {"admitted", "granted"}})
    < Cardinality(LaunchTokens \ DOMAIN launched)

\* ValMw.Wrap and RequireScope in front of handleCreateLaunchToken.
AdmitLaunch(r, a, allowed) ==
  /\ Room
  /\ a \in bearers \ cut
  /\ allowed # {}
  /\ Begin(r, "admitted",
       [app |-> a, allowed |-> allowed,
        stopped |-> app[a].status = "inactive"],
       {app[a].ceiling})
  /\ UNCHANGED <<tables, launched>>

\* A mutant of GrantLaunch: compared the wrong way round.
GrantIfCeilingFits(r) ==
  /\ pc[r] = "admitted"
  /\ IF ScopeIsSubset(app[job[r].app].ceiling, job[r].allowed)
       THEN pc' = [pc EXCEPT ![r] = "granted"] /\ UNCHANGED <<job, window>>
       ELSE Respond(r)
  /\ UNCHANGED <<tables, launched>>

\* handleCreateLaunchToken reads the app and compares; the status it reads
\* with the rest is not looked at.
GrantLaunch(r) ==
  /\ pc[r] = "admitted"
  /\ IF ScopeIsSubset(job[r].allowed, app[job[r].app].ceiling)
       THEN pc' = [pc EXCEPT ![r] = "granted"] /\ UNCHANGED <<job, window>>
       ELSE Respond(r)
  /\ UNCHANGED <<tables, launched>>

\* CreateLaunchToken trusts the handler.
SaveLaunchToken(r, t) ==
  /\ pc[r] = "granted"
  /\ t \notin DOMAIN launched
  /\ launched' = Extend(launched, t,
       [app |-> job[r].app, allowed |-> job[r].allowed, window |-> window[r],
        stopped |-> job[r].stopped])
  /\ Respond(r)
  /\ UNCHANGED tables

\* A new ceiling, seen by the requests of the app that are under way.
SetCeiling(a, scopes) ==
  /\ app' = [app EXCEPT ![a].ceiling = scopes]
  /\ window' = [r \in Reqs |->
       IF pc[r] \in {"admitted", "granted"} /\ job[r].app = a
         THEN window[r] \cup {scopes} ELSE window[r]]

UpdateApp(a, scopes) ==
  /\ a \in Registered
  /\ ValidScopes(scopes)
  /\ SetCeiling(a, scopes)

\* handleUpdateApp with a new ceiling, which ends the request if no TTL
\* comes with it.
UpdateCeiling(r, a, scopes, ttl) ==
  /\ pc[r] = "idle"
  /\ scopes # {}
  /\ UpdateApp(a, scopes)
  /\ IF ttl = 0
       THEN UNCHANGED <<pc, job>>
       ELSE /\ pc' = [pc EXCEPT ![r] = "ceilingSet"]
            /\ job' = [job EXCEPT ![r] = [app |-> a, ttl |-> ttl]]
  /\ UNCHANGED <<bearers, cut, launched>>

SetTTL(a, ttl) ==
  IF ValidTTL(ttl) THEN app' = [app EXCEPT ![a].ttl = ttl] ELSE UNCHANGED app

\* handleUpdateApp goes on with the TTL.  If that is refused the ceiling
\* stays as it is now, and the response is an error.
ThenUpdateTTL(r) ==
  /\ pc[r] = "ceilingSet"
  /\ SetTTL(job[r].app, job[r].ttl)
  /\ Respond(r)
  /\ UNCHANGED <<bearers, cut, launched>>

\* handleUpdateApp with a TTL only.
UpdateAppTTL(a, ttl) ==
  /\ a \in Registered
  /\ SetTTL(a, ttl)
  /\ UNCHANGED <<bearers, cut, pc, job, window, launched>>

UpdateAppStatus(a, status) ==
  /\ a \in Registered
  /\ app' = [app EXCEPT ![a].status = status]

\* Tokens and launch tokens of the app are left alone.
DeregisterApp(a) ==
  /\ UpdateAppStatus(a, "inactive")
  /\ UNCHANGED <<bearers, cut, pc, job, window, launched>>

\* The process ends: requests are gone; apps and revocations are in SQLite
\* and tokens with their holders.
Restart ==
  /\ pc' = [r \in Reqs |-> "idle"]
  /\ job' = [r \in Reqs |-> NoJob]
  /\ window' = [r \in Reqs |-> {}]
  /\ UNCHANGED <<tables, launched>>

\* All that happens to apps short of a new launch token and a restart.
AppStep ==
  \/ \E a \in AppIds :
       \/ \E scopes \in ScopeLists, ttl \in TTLs : RegisterApp(a, scopes, ttl)
       \/ TokenLapses(a)
       \/ RevokeApp(a)
       \/ \E ttl \in TTLs : UpdateAppTTL(a, ttl)
       \/ DeregisterApp(a)
  \/ \E r \in Reqs, a \in AppIds :
       \/ LookUpApp(r, a)
       \/ \E allowed \in ScopeLists : AdmitLaunch(r, a, allowed)
       \/ \E scopes \in ScopeLists, ttl \in TTLs : UpdateCeiling(r, a, scopes, ttl)
  \/ \E r \in Reqs :
       \/ IssueAppToken(r)
       \/ GrantLaunch(r)
       \/ ThenUpdateTTL(r)

Next ==
  \/ AppStep
  \/ \E r \in Reqs, t \in LaunchTokens : SaveLaunchToken(r, t)
  \/ Restart

Spec == Init /\ [][Next]_vars
-----------------------------------------------------------------------------
\* Apps are well typed; a TTL is within bounds or the configured default.
TypeOK ==
  LET Record == [status : {"active", "inactive"}, ceiling : ScopeLists,
                 ttl : MinTTL..MaxTTL \cup {DefaultTTL}]
  IN  /\ Registered \subseteq AppIds /\ app \in [Registered -> Record]
      /\ bearers \subseteq Registered /\ cut \subseteq Registered
      /\ pc \in [Reqs -> Steps]
      /\ \A r \in Reqs : IF pc[r] = "idle" THEN job[r] = NoJob ELSE job[r].app \in Registered
      /\ DOMAIN launched \subseteq LaunchTokens

\* A launch token never allows more than a ceiling its app had while the
\* request for it was on, whatever updates of the ceiling go on meanwhile.
LaunchWithinCeiling ==
  \A t \in DOMAIN launched :
    \E ceiling \in launched[t].window : ScopeIsSubset(launched[t].allowed, ceiling)

\* An app that is deregistered, holds no token that is not revoked, and has
\* no login or launch request under way, is shut off for good: no later
\* sequence of logins, updates and restarts brings it back.
ShutOff(a) ==
  /\ a \in Registered /\ ~Active(a)
  /\ a \in cut \/ a \notin bearers
  /\ \A r \in Reqs : pc[r] \in {"lookedUp", "admitted", "granted"} => job[r].app # a

ShutOffIsFinal == [][\A a \in AppIds : ShutOff(a) => ShutOff(a)']_vars

\* A deregistered app "can no longer create launch tokens"
\* (app_svc.go:256-258), not counting requests that came in before.
DeregisteredStops == \A t \in DOMAIN launched : ~launched[t].stopped
=============================================================================
