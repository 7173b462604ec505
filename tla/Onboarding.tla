----------------------------- MODULE Onboarding -----------------------------
(***************************************************************************)
(* From an app to its agents: Apps, the launch tokens its requests leave   *)
(* in SqlStore's map, and the agents that register with them               *)
(* (internal/identity/id_svc.go), up to the day the app is deregistered    *)
(* and its last launch token has run out.                                  *)
(*                                                                         *)
(* A registration is a process of two steps: it looks its launch token up  *)
(* and later enrols the agent with what it read then.  What it does in     *)
(* between, and may fail at, is Registration's subject; nothing in between *)
(* reads the app, whose status and ceiling are never looked at again.      *)
(*                                                                         *)
(* Agents outlive all of this: their tokens are their own, and no later    *)
(* step of the app's takes one back.                                       *)
(***************************************************************************)
EXTENDS Apps

CONSTANTS
  Claims   \* bound: registrations in flight at a time

VARIABLES
  shelf,   \* the launchTokens map: [state, single] by launch token
  claim,   \* of each registration: the launch token and the scope it is on
  agents   \* history: launch token and scope of every agent ever enrolled

onboardVars == <<vars, shelf, claim, agents>>

NoClaim == [launch |-> "none"]

OnboardInit ==
  /\ Init
  /\ shelf = << >>
  /\ claim = [c \in Claims |-> NoClaim]
  /\ agents = {}
-----------------------------------------------------------------------------
\* SaveLaunchToken puts the new launch token into the map.
OfferLaunchToken(r, t, single) ==
  /\ SaveLaunchToken(r, t)
  /\ shelf' = Extend(shelf, t, [state |-> "open", single |-> single])
  /\ UNCHANGED <<claim, agents>>

\* A mutant of LaunchTokenExpires: tokens for many agents live on.
SingleUseExpires(t) ==
  /\ t \in DOMAIN shelf /\ shelf[t].single /\ shelf[t].state = "open"
  /\ shelf' = [shelf EXCEPT ![t].state = "expired"]
  /\ UNCHANGED <<vars, claim, agents>>

\* Its ExpiresAt has passed: GetLaunchToken does not find it any more.
LaunchTokenExpires(t) ==
  /\ t \in DOMAIN shelf /\ shelf[t].state = "open"
  /\ shelf' = [shelf EXCEPT ![t].state = "expired"]
  /\ UNCHANGED <<vars, claim, agents>>

\* Mutants of AdmitAgent: the expiry, or the scope, is not looked at.
AdmitLateAgent(c, t, scope) ==
  /\ claim[c] = NoClaim
  /\ t \in DOMAIN shelf /\ shelf[t].state \in {"open", "expired"}
  /\ scope # {} /\ ScopeIsSubset(scope, launched[t].allowed)
  /\ claim' = [claim EXCEPT ![c] = [launch |-> t, scope |-> scope]]
  /\ UNCHANGED <<vars, shelf, agents>>
AdmitGreedyAgent(c, t, scope) ==
  /\ claim[c] = NoClaim
  /\ t \in DOMAIN shelf /\ shelf[t].state = "open"
  /\ scope # {}
  /\ claim' = [claim EXCEPT ![c] = [launch |-> t, scope |-> scope]]
  /\ UNCHANGED <<vars, shelf, agents>>

\* Register looks its launch token up and compares the scopes.
AdmitAgent(c, t, scope) ==
  /\ claim[c] = NoClaim
  /\ t \in DOMAIN shelf /\ shelf[t].state = "open"
  /\ scope # {} /\ ScopeIsSubset(scope, launched[t].allowed)
  /\ claim' = [claim EXCEPT ![c] = [launch |-> t, scope |-> scope]]
  /\ UNCHANGED <<vars, shelf, agents>>

\* Nonce, key or signature are refused, or a single-use launch token is gone
\* by now.
RejectAgent(c) ==
  /\ claim[c] # NoClaim
  /\ claim' = [claim EXCEPT ![c] = NoClaim]
  /\ UNCHANGED <<vars, shelf, agents>>

\* ConsumeLaunchToken, of a single-use token and even past its expiry, then
\* Issue and SaveAgent, or a refusal of the agent's name that wastes the
\* launch token; the agent inherits the app of the launch token.
EnrollAgent(c) ==
  LET t == claim[c].launch IN
  /\ claim[c] # NoClaim
  /\ shelf[t].single => shelf[t].state # "consumed"
  /\ shelf' = IF shelf[t].single THEN [shelf EXCEPT ![t].state = "consumed"] ELSE shelf
  /\ agents' \in {agents, agents \cup {claim[c]}}
  /\ claim' = [claim EXCEPT ![c] = NoClaim]
  /\ UNCHANGED vars

\* A restart takes the map and the registrations with it.
RestartAll ==
  /\ Restart
  /\ shelf' = [t \in DOMAIN shelf |-> [shelf[t] EXCEPT !.state = "forgotten"]]
  /\ claim' = [c \in Claims |-> NoClaim]
  /\ UNCHANGED agents

OnboardNext ==
  \/ AppStep /\ UNCHANGED <<shelf, claim, agents>>
  \/ \E r \in Reqs, t \in LaunchTokens, single \in BOOLEAN : OfferLaunchToken(r, t, single)
  \/ \E t \in LaunchTokens : LaunchTokenExpires(t)
  \/ \E c \in Claims :
       \/ \E t \in LaunchTokens, scope \in ScopeLists : AdmitAgent(c, t, scope)
       \/ RejectAgent(c)
       \/ EnrollAgent(c)
  \/ RestartAll

RunRequest(r) ==
  \/ (IssueAppToken(r) \/ GrantLaunch(r)) /\ UNCHANGED <<shelf, claim, agents>>
  \/ \E t \in LaunchTokens, single \in BOOLEAN : OfferLaunchToken(r, t, single)

\* A handler runs to its end, and an expiry is finite.
OnboardFairness ==
  /\ \A r \in Reqs : WF_onboardVars(RunRequest(r))
  /\ \A c \in Claims : WF_onboardVars(RejectAgent(c) \/ EnrollAgent(c))
  /\ \A t \in LaunchTokens : WF_onboardVars(LaunchTokenExpires(t))

OnboardSpec == OnboardInit /\ [][OnboardNext]_onboardVars /\ OnboardFairness
-----------------------------------------------------------------------------
\* Apps, launch tokens on the shelf and registrations are well typed.
OnboardTypeOK ==
  /\ TypeOK
  /\ DOMAIN shelf = DOMAIN launched
  /\ \A t \in DOMAIN shelf :
       /\ shelf[t] \in [state : {"open", "expired", "consumed", "forgotten"}, single : BOOLEAN]
       /\ launched[t].app \in Registered /\ launched[t].allowed \in ScopeLists
  /\ claim \in [Claims -> [launch : DOMAIN shelf, scope : ScopeLists] \cup {NoClaim}]
  /\ agents \subseteq [launch : DOMAIN shelf, scope : ScopeLists]

\* No agent is ever granted more than a ceiling its app had while the launch
\* token was asked for, whatever updates of the ceiling, deregistrations and
\* restarts come between the app's request and the agent's.
AgentWithinCeiling ==
  \A agent \in agents :
    \E ceiling \in launched[agent.launch].window : ScopeIsSubset(agent.scope, ceiling)

\* An app that is shut off, with none of its launch tokens to be found and no
\* registration on one of them under way, has got rid of its way to agents.
Drained(a) ==
  /\ ShutOff(a)
  /\ \A t \in DOMAIN shelf : launched[t].app = a => shelf[t].state # "open"
  /\ \A c \in Claims : claim[c] # NoClaim => launched[claim[c].launch].app # a

AgentsOf(a) == {agent \in agents : launched[agent.launch].app = a}

\* What is shut off stays shut off, and what is drained stays drained and
\* gets no agent any more, whatever anybody does from there on.
OffboardingIsFinal ==
  [][\A a \in AppIds :
       /\ ShutOff(a) => ShutOff(a)'
       /\ Drained(a) => Drained(a)' /\ AgentsOf(a)' = AgentsOf(a)]_onboardVars

\* Deregistering an app and revoking its tokens is enough to drain it in the
\* end: requests and registrations under way finish, launch tokens run out.
OffboardingDrains ==
  \A a \in AppIds : (a \in Registered /\ ~Active(a) /\ a \in cut) ~> Drained(a)
=============================================================================
