---------------------------- MODULE TokenService ----------------------------
(***************************************************************************)
(* The life of a token in the broker: TknSvc (internal/token), DelegSvc    *)
(* (internal/deleg), the validation middleware ValMw (internal/authz) and  *)
(* the renew, release, delegate and revoke handlers, on top of RevSvc.     *)
(*                                                                         *)
(* Handlers run concurrently, one goroutine per request, and hold no lock  *)
(* from one call into a service to the next.  A request is therefore a     *)
(* process whose steps are those calls:                                    *)
(*                                                                         *)
(*   idle -> verified -> admitted -> idle             release, delegate,   *)
(*                                                    revoke               *)
(*                       admitted -> renewing -> retired -> idle    renew  *)
(*                                                                         *)
(* "verified": ValMw has the claims from Verify; "admitted": they are in   *)
(* the request context and the handler runs; "renewing": Renew has         *)
(* verified the token again; "retired": Renew has revoked it and has yet   *)
(* to issue its successor.  Signed tokens live with the clients, and the   *)
(* signing key is a file, so tokens survive a restart of the broker; the   *)
(* agent table does not.                                                   *)
(*                                                                         *)
(* Left out: signature, issuer and audience (every token here is one this  *)
(* broker signed for itself), orch_id and sid (copied, never tested), the  *)
(* hash and signatures of the delegation chain, audit records.             *)
(***************************************************************************)
EXTENDS Integers, Revocation, Scope

CONSTANTS
  Agents,          \* SPIFFE IDs registration may mint
  Logins,          \* fixed identities: [sub, scope, ttl] of admin and apps
  Tasks,           \* task IDs; NoTask is the empty one
  ScopeLists,      \* scope lists that requests may ask for
  TTLs,            \* lifetimes that requests may ask for, 0 if they do not
  Jtis, NoJti,     \* token identifiers; bound: tokens ever issued
  Reqs,            \* bound: requests in flight at a time
  DefaultTTL, MaxTTL,   \* AA_DEFAULT_TTL, AA_MAX_TTL (0: no ceiling)
  DelegationTTL,   \* lifetime of a delegation that asks for none
  MaxDelegDepth,   \* maxDelegDepth
  AdminEntries,    \* bound: the revocations the administrator makes
  MaxNow           \* bound: the clock

ASSUME TokenAssumption ==
  /\ DefaultTTL \in Int /\ MaxTTL \in Int /\ DelegationTTL \in Nat \ {0}
  /\ TTLs \subseteq Int
  /\ MaxDelegDepth \in Nat /\ MaxNow \in Nat
  /\ NoJti \notin Jtis
  /\ \A l \in Logins : l.scope # {} /\ l.ttl \in Int
                         /\ \A s \in l.scope : Parses(s)

VARIABLES
  now,       \* the wall clock, in seconds
  tok,       \* claims of the tokens issued so far, by jti
  agents,    \* agents in the store's table
  pc, held,  \* of each request: its step and the jti of the token it bears
  root,      \* history: the token a token descends from, itself at the top
  pred       \* history: the token a token replaced in a renewal, or NoJti

tokVars == <<tok, root, pred>>
reqVars == <<pc, held>>
vars == <<now, tok, agents, pc, held, root, pred, revVars>>

RevokeScope == <<"admin", "revoke", "*">>

Subjects == Agents \cup {l.sub : l \in Logins}
Scopes == (UNION ScopeLists) \cup (UNION {l.scope : l \in Logins})
Links == [agent : Subjects, scope : SUBSET Scopes]
Claims == [jti : Jtis, sub : Subjects, scope : SUBSET Scopes,
           task : Tasks \cup {NoTask}, iat : Nat, exp : Int, chain : Seq(Links)]
Entries == [level : {"token"}, target : Jtis]
             \cup [level : {"agent", "chain"}, target : Subjects]
             \cup [level : {"task"}, target : Tasks]
ASSUME AdminAssumption == AdminEntries \subseteq Entries

Steps == {"idle", "verified", "admitted", "renewing", "retired"}

Nothing == [j \in {} |-> NoJti]

Init ==
  /\ now = 0
  /\ tok = Nothing /\ root = Nothing /\ pred = Nothing
  /\ agents = {}
  /\ pc = [r \in Reqs |-> "idle"]
  /\ held = [r \in Reqs |-> NoJti]
  /\ RevInit
-----------------------------------------------------------------------------
Issued == DOMAIN tok

Lifetime(c) == c.exp - c.iat

\* A mutant: the default for every renewal (the SEC-A1 bug).
AlwaysDefault(c) == DefaultTTL

\* The lifetime Issue gives a token of which ttl was asked.
Clamp(ttl) ==
  LET asked == IF ttl <= 0 THEN DefaultTTL ELSE ttl
  IN  IF MaxTTL > 0 /\ asked > MaxTTL THEN MaxTTL ELSE asked

\* Renew carries the lifetime of the predecessor over.
OriginalTTL(c) == IF Lifetime(c) <= 0 THEN DefaultTTL ELSE Lifetime(c)

Extend(f, x, v) == [y \in DOMAIN f \cup {x} |-> IF y = x THEN v ELSE f[y]]

\* Issue signs a token under a fresh jti; r and p are its history.
Issue(j, sub, scope, task, chain, ttl, r, p) ==
  /\ j \in Jtis \ Issued
  /\ tok' = Extend(tok, j,
       [jti |-> j, sub |-> sub, scope |-> scope, task |-> task,
        iat |-> now, exp |-> now + Clamp(ttl), chain |-> chain])
  /\ root' = Extend(root, j, r)
  /\ pred' = Extend(pred, j, p)

\* claims.Validate: a token is still valid in the second of its expiry.
Validate(c) == c.exp > 0 /\ now <= c.exp /\ now >= c.iat

Verify(j) == Validate(tok[j]) /\ ~IsRevoked(tok[j])

\* A mutant: the claims do not reach the handler's context.
GoToWithoutClaims(r, step) ==
  pc' = [pc EXCEPT ![r] = step] /\ held' = [held EXCEPT ![r] = NoJti]

GoTo(r, step) == pc' = [pc EXCEPT ![r] = step] /\ UNCHANGED held

Respond(r) ==
  /\ pc' = [pc EXCEPT ![r] = "idle"]
  /\ held' = [held EXCEPT ![r] = NoJti]
-----------------------------------------------------------------------------
Tick ==
  /\ now < MaxNow
  /\ now' = now + 1
  /\ UNCHANGED <<tokVars, agents, reqVars, revVars>>

\* AdminSvc.Authenticate and AppSvc.AuthenticateApp, once the secret fits.
Login(l, j) ==
  /\ Issue(j, l.sub, l.scope, NoTask, << >>, l.ttl, j, NoJti)
  /\ UNCHANGED <<now, agents, reqVars, revVars>>

\* IdSvc.Register, once its checks pass: a new SPIFFE ID, a scope list that
\* passed ScopeIsSubset and so parses, and the positive lifetime that the
\* launch token grants.
Register(a, j, scope, task, ttl) ==
  /\ \A i \in Issued : tok[i].sub # a
  /\ scope # {} /\ \A s \in scope : Parses(s)
  /\ ttl > 0
  /\ Issue(j, a, scope, task, << >>, ttl, j, NoJti)
  /\ agents' = agents \cup {a}
  /\ UNCHANGED <<now, reqVars, revVars>>

\* ValMw.Wrap up to Verify; a request whose token fails ends here.
Authenticate(r, j) ==
  /\ pc[r] = "idle"
  /\ j \in Issued
  /\ Verify(j)
  /\ pc' = [pc EXCEPT ![r] = "verified"]
  /\ held' = [held EXCEPT ![r] = j]
  /\ UNCHANGED <<now, tokVars, agents, revVars>>

\* ValMw.Wrap from Verify on: a second look at the revocation lists, then
\* the handler, with the claims in the request context.
Recheck(r) ==
  /\ pc[r] = "verified"
  /\ IF IsRevoked(tok[held[r]]) THEN Respond(r) ELSE GoTo(r, "admitted")
  /\ UNCHANGED <<now, tokVars, agents, revVars>>

\* RenewHdl calls Renew, which verifies the token once more.
RenewVerify(r) ==
  /\ pc[r] = "admitted"
  /\ IF Verify(held[r]) THEN GoTo(r, "renewing") ELSE Respond(r)
  /\ UNCHANGED <<now, tokVars, agents, revVars>>

\* A mutant: the predecessor is not revoked.
RenewOnly(r) ==
  pc[r] = "renewing" /\ GoTo(r, "retired") /\ UNCHANGED <<now, tokVars, agents, revVars>>

RenewRevoke(r) ==
  /\ pc[r] = "renewing"
  /\ Revoke(Entry("token", held[r]))
  /\ GoTo(r, "retired")
  /\ UNCHANGED <<now, tokVars, agents>>

RenewIssue(r, j) ==
  /\ pc[r] = "retired"
  /\ LET c == tok[held[r]] IN
       Issue(j, c.sub, c.scope, c.task, c.chain, OriginalTTL(c), root[held[r]], held[r])
  /\ Respond(r)
  /\ UNCHANGED <<now, agents, revVars>>

\* ReleaseHdl revokes the bearer's own token.
Release(r) ==
  /\ pc[r] = "admitted"
  /\ Revoke(Entry("token", held[r]))
  /\ Respond(r)
  /\ UNCHANGED <<now, tokVars, agents>>

\* A mutant: the subset test the wrong way around.
SupersetOnly(c, to, scope) ==
  /\ scope # {} /\ Len(c.chain) < MaxDelegDepth
  /\ ScopeIsSubset(c.scope, scope) /\ to \in agents

\* What Delegate checks of a request to hand scope over to an agent.
MayDelegate(c, to, scope) ==
  /\ scope # {}
  /\ Len(c.chain) < MaxDelegDepth
  /\ ScopeIsSubset(scope, c.scope)
  /\ to \in agents

\* Delegate works on the claims in the request context, captured at Wrap:
\* neither their expiry nor their revocation is looked at again.
Delegate(r, j, to, scope, ttl) ==
  /\ pc[r] = "admitted"
  /\ LET c == tok[held[r]] IN
       /\ MayDelegate(c, to, scope)
       /\ Issue(j, to, scope, c.task,
                Append(c.chain, [agent |-> c.sub, scope |-> c.scope]),
                IF ttl <= 0 THEN DelegationTTL ELSE ttl, root[held[r]], NoJti)
  /\ Respond(r)
  /\ UNCHANGED <<now, agents, revVars>>

\* RevokeHdl behind RequireScope("admin:revoke:*").
RevokeByAdmin(r, e) ==
  /\ pc[r] = "admitted"
  /\ ScopeIsSubset({RevokeScope}, tok[held[r]].scope)
  /\ Revoke(e)
  /\ Respond(r)
  /\ UNCHANGED <<now, tokVars, agents>>

\* A handler refuses: a body that does not parse, a delegation that fails
\* MayDelegate, a revocation without the scope for it.  Only the response
\* leaves the broker.
Refuse(r) ==
  /\ pc[r] = "admitted"
  /\ Respond(r)
  /\ UNCHANGED <<now, tokVars, agents, revVars>>

\* The process ends and comes back: requests in flight are gone, and so is
\* the agent table; the revocation lists are those SQLite has.
Restart ==
  /\ LoadFromEntries
  /\ agents' = {}
  /\ pc' = [r \in Reqs |-> "idle"]
  /\ held' = [r \in Reqs |-> NoJti]
  /\ UNCHANGED <<now, tokVars>>

Serve(r) ==
  \/ \E j \in Jtis : Authenticate(r, j)
  \/ Recheck(r)
  \/ RenewVerify(r)
  \/ RenewRevoke(r)
  \/ \E j \in Jtis : RenewIssue(r, j)
  \/ Release(r)
  \/ \E j \in Jtis, to \in Agents, scope \in ScopeLists, ttl \in TTLs :
       Delegate(r, j, to, scope, ttl)
  \/ \E e \in AdminEntries : RevokeByAdmin(r, e)
  \/ Refuse(r)

Next ==
  \/ Tick
  \/ \E l \in Logins, j \in Jtis : Login(l, j)
  \/ \E a \in Agents, j \in Jtis, scope \in ScopeLists, task \in Tasks, ttl \in TTLs :
       Register(a, j, scope, task, ttl)
  \/ \E r \in Reqs : Serve(r)
  \/ Restart

Spec == Init /\ [][Next]_vars
-----------------------------------------------------------------------------
\* The state is well typed, and a request in flight bears an issued token.
TypeOK ==
  /\ now \in 0..MaxNow
  /\ Issued \subseteq Jtis
  /\ tok \in [Issued -> Claims]
  /\ \A j \in Issued : tok[j].jti = j
  /\ root \in [Issued -> Issued]
  /\ pred \in [Issued -> Issued \cup {NoJti}]
  /\ agents \subseteq Agents
  /\ pc \in [Reqs -> Steps]
  /\ held \in [Reqs -> Issued \cup {NoJti}]
  /\ \A r \in Reqs : pc[r] # "idle" => held[r] \in Issued
  /\ revoked \subseteq Entries /\ saved \subseteq Entries /\ acked \subseteq Entries

\* Permissions never expand: through any sequence of renewals and
\* delegations, a token is covered by the token its line began with, and by
\* the scope every delegator in its chain held (tkn_svc.go Renew,
\* deleg_svc.go Delegate).
AuthorityOnlyShrinks ==
  \A j \in Issued :
    /\ ScopeIsSubset(tok[j].scope, tok[root[j]].scope)
    /\ \A n \in 1..Len(tok[j].chain) :
         ScopeIsSubset(tok[j].scope, tok[j].chain[n].scope)

\* A delegation chain is never longer than maxDelegDepth, renewals or not.
DepthBounded == \A j \in Issued : Len(tok[j].chain) <= MaxDelegDepth

\* The kill switch: revoking the agent and the chain of the agent a line
\* began with, or the task it works on, makes every token of the line
\* unusable, those a request in flight issues afterwards included.
LineageRevocable ==
  \A j \in Issued :
    LET top == tok[root[j]] IN
      \/ {Entry("agent", top.sub), Entry("chain", top.sub)} \subseteq revoked
      \/ top.task # NoTask /\ Entry("task", top.task) \in revoked
      => IsRevoked(tok[j])

\* Renewal neither extends nor shortens a token's life, whatever the
\* configured ceiling and default are (SEC-A1, tkn_svc.go:253-256).
RenewalKeepsLifetime ==
  \A j \in Issued : pred[j] # NoJti => Lifetime(tok[j]) = Lifetime(tok[pred[j]])

\* No token outlives the ceiling, however it came to be (tkn_svc.go:129).
LifetimeBounded ==
  \A j \in Issued : MaxTTL > 0 => Lifetime(tok[j]) <= MaxTTL

\* "The old token is revoked BEFORE the new one is issued": a token that
\* has a successor is unusable from then on, across restarts too.
PredecessorRetired ==
  \A j \in Issued : pred[j] # NoJti => IsRevoked(tok[pred[j]])

\* A renewal leaves one usable token behind, not two.
SoleSuccessor ==
  \A i, j \in Issued :
    i # j /\ pred[i] # NoJti /\ pred[i] = pred[j] => ~(Verify(i) /\ Verify(j))

\* The tokens of an administrator and of an app are "not renewable".
LoginsNotRenewed ==
  \A j \in Issued : tok[j].sub \in {l.sub : l \in Logins} => pred[j] = NoJti

\* Revoking an agent takes the tokens it delegated with it.
AgentRevocationPropagates ==
  \A j \in Issued :
    Entry("agent", tok[root[j]].sub) \in revoked => IsRevoked(tok[j])

(* What makes the above inductive. *)

\* A line of tokens has one top, with no chain, and every token of the line
\* carries its task and leads back to its agent.
LineageTraced ==
  \A j \in Issued :
    LET c == tok[j]
        top == tok[root[j]]
    IN  /\ root[root[j]] = root[j]
        /\ top.chain = << >>
        /\ c.task = top.task
        /\ c.chain = << >> => c.sub = top.sub
        /\ c.chain # << >> => c.chain[1].agent = top.sub

\* Only the default can give a token no life at all, so OriginalTTL falls
\* back to what the token had anyway.
LifetimeClamped ==
  \A j \in Issued : Lifetime(tok[j]) <= 0 => Lifetime(tok[j]) = DefaultTTL

\* The entry that retires a predecessor is there before the successor, and
\* on a disk that does not fail it is in the table as well.
SuccessionSaved ==
  \A j \in Issued : pred[j] # NoJti => Entry("token", pred[j]) \in saved
RetiringSaved ==
  \A r \in Reqs : pc[r] = "retired" => Entry("token", held[r]) \in saved
RetiredFirst == ~DiskFaults => SuccessionSaved /\ RetiringSaved

Ledger == INSTANCE RevocationLedger WITH ledger <- revoked

\* The lists handlers consult implement the ledger: an acknowledged
\* revocation is in force for ever, restarts or not.
RevocationDurable == Ledger!Spec
=============================================================================
