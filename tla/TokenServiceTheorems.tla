------------------------ MODULE TokenServiceTheorems ------------------------
(***************************************************************************)
(* Proofs about TokenService, for any number of agents, tokens, requests,  *)
(* any clock and any configured lifetimes.  Every action either mints one  *)
(* token (Login, Register, RenewIssue, Delegate) or leaves tokens alone,   *)
(* so what is said of all tokens is proved once, for a minted token that   *)
(* descends properly from the token it was made from (Descends).           *)
(***************************************************************************)
EXTENDS TokenService, ScopeTheorems

LEMMA ClampInt == ASSUME NEW ttl \in Int PROVE Clamp(ttl) \in Int
BY TokenAssumption DEF Clamp

LEMMA ScopeListsKnown ==
  /\ \A scope \in ScopeLists : scope \subseteq Scopes
  /\ \A l \in Logins : l.scope \subseteq Scopes /\ l.sub \in Subjects
BY DEF Scopes, Subjects

\* Minting a well-typed token keeps the token part of TypeOK.
TokTypeOK ==
  /\ Issued \subseteq Jtis
  /\ tok \in [Issued -> Claims]
  /\ \A j \in Issued : tok[j].jti = j
  /\ root \in [Issued -> Issued]
  /\ pred \in [Issued -> Issued \cup {NoJti}]

LEMMA IssueTyped ==
  ASSUME TypeOK, NEW j \in Jtis, NEW sub \in Subjects, NEW scope \in SUBSET Scopes,
         NEW task \in Tasks \cup {NoTask}, NEW chain \in Seq(Links), NEW ttl \in Int,
         NEW r \in Issued \cup {j}, NEW p \in Issued \cup {NoJti},
         Issue(j, sub, scope, task, chain, ttl, r, p)
  PROVE  TokTypeOK' /\ Issued \subseteq Issued'
<1> DEFINE c == [jti |-> j, sub |-> sub, scope |-> scope, task |-> task,
                 iat |-> now, exp |-> now + Clamp(ttl), chain |-> chain]
<1>1. tok' = Extend(tok, j, c) /\ root' = Extend(root, j, r) /\ pred' = Extend(pred, j, p)
  BY DEF Issue
<1>2. c \in Claims
  <2>1. now \in Nat /\ now + Clamp(ttl) \in Int
    BY ClampInt, TokenAssumption DEF TypeOK
  <2> QED
    BY <2>1 DEF Claims
<1>3. Issued' = Issued \cup {j}
  <2>1. DOMAIN tok' = DOMAIN tok \cup {j}
    BY <1>1 DEF Extend
  <2> QED
    BY <2>1 DEF Issued
<1>4. DOMAIN root = Issued /\ DOMAIN pred = Issued
  BY DEF TypeOK
<1>5. tok' \in [Issued' -> Claims] /\ \A i \in Issued' : tok'[i].jti = i
  BY <1>1, <1>2, <1>3 DEF TypeOK, Extend, Issued
<1>6. root' \in [Issued' -> Issued']
  BY <1>1, <1>3, <1>4 DEF TypeOK, Extend
<1>7. pred' \in [Issued' -> Issued' \cup {NoJti}]
  BY <1>1, <1>3, <1>4 DEF TypeOK, Extend
<1> QED
  BY <1>3, <1>5, <1>6, <1>7 DEF TokTypeOK, TypeOK, Issue

-----------------------------------------------------------------------------
(* Type correctness. *)

LEMMA EntriesTyped ==
  /\ \A j \in Jtis : Entry("token", j) \in Entries
BY DEF Entries, Entry

LEMMA RevokeTyped ==
  ASSUME TypeOK, NEW e \in Entries, Revoke(e)
  PROVE  revoked' \subseteq Entries /\ saved' \subseteq Entries /\ acked' \subseteq Entries
BY DEF TypeOK, Revoke, SaveRevocation

ReqTypeOK ==
  /\ pc \in [Reqs -> Steps]
  /\ held \in [Reqs -> Issued \cup {NoJti}]
  /\ \A r \in Reqs : pc[r] # "idle" => held[r] \in Issued

\* A response, or a step of one request, leaves all requests well typed.
LEMMA RespondTyped ==
  ASSUME TypeOK, NEW r \in Reqs, Respond(r), Issued \subseteq Issued'
  PROVE  ReqTypeOK'
BY DEF TypeOK, Respond, ReqTypeOK, Steps

LEMMA GoToTyped ==
  ASSUME TypeOK, NEW r \in Reqs, NEW step \in Steps, GoTo(r, step), pc[r] # "idle",
         Issued \subseteq Issued'
  PROVE  ReqTypeOK'
BY DEF TypeOK, GoTo, ReqTypeOK, Steps

LEMMA SameTokens == tokVars' = tokVars => Issued' = Issued /\ tok' = tok /\ root' = root /\ pred' = pred
BY DEF tokVars, Issued

LEMMA InitTyped == Init => TypeOK
<1> SUFFICES ASSUME Init PROVE TypeOK
  OBVIOUS
<1>1. Issued = {}
  BY DEF Init, Nothing, Issued
<1> QED
  BY <1>1, TokenAssumption DEF Init, Nothing, TypeOK, Issued, RevInit, Steps

\* The four actions that mint a token.
LEMMA LoginTyped ==
  ASSUME TypeOK, NEW l \in Logins, NEW j \in Jtis, Login(l, j)
  PROVE  TypeOK'
<1>1. TokTypeOK' /\ Issued \subseteq Issued'
  <2>1. l.sub \in Subjects /\ l.scope \in SUBSET Scopes /\ l.ttl \in Int
    BY ScopeListsKnown, TokenAssumption
  <2>2. << >> \in Seq(Links)
    OBVIOUS
  <2> HIDE DEF Login
  <2>3. Issue(j, l.sub, l.scope, NoTask, << >>, l.ttl, j, NoJti)
    BY DEF Login
  <2> QED
    BY <2>1, <2>2, <2>3, IssueTyped
<1> QED
  BY <1>1 DEF Login, TypeOK, TokTypeOK, reqVars, revVars

LEMMA RegisterTyped ==
  ASSUME TypeOK, NEW a \in Agents, NEW j \in Jtis, NEW scope \in ScopeLists,
         NEW task \in Tasks, NEW ttl \in TTLs, Register(a, j, scope, task, ttl)
  PROVE  TypeOK'
<1>1. TokTypeOK' /\ Issued \subseteq Issued'
  <2>1. a \in Subjects /\ scope \in SUBSET Scopes /\ ttl \in Int
    BY ScopeListsKnown, TokenAssumption DEF Subjects
  <2>2. << >> \in Seq(Links)
    OBVIOUS
  <2>3. Issue(j, a, scope, task, << >>, ttl, j, NoJti)
    BY DEF Register
  <2> QED
    BY <2>1, <2>2, <2>3, IssueTyped
<1> QED
  BY <1>1 DEF Register, TypeOK, TokTypeOK, reqVars, revVars

\* The claims of the token a busy request bears.
LEMMA BornClaims ==
  ASSUME TypeOK, NEW r \in Reqs, pc[r] # "idle"
  PROVE  /\ held[r] \in Issued
         /\ tok[held[r]] \in Claims
         /\ root[held[r]] \in Issued
         /\ Lifetime(tok[held[r]]) \in Int
<1>1. held[r] \in Issued /\ tok[held[r]] \in Claims /\ root[held[r]] \in Issued
  BY DEF TypeOK
<1> QED
  BY <1>1 DEF Claims, Lifetime

LEMMA RenewIssueTyped ==
  ASSUME TypeOK, NEW r \in Reqs, NEW j \in Jtis, RenewIssue(r, j)
  PROVE  TypeOK'
<1> DEFINE c == tok[held[r]]
<1>1. /\ held[r] \in Issued /\ c \in Claims /\ root[held[r]] \in Issued
      /\ OriginalTTL(c) \in Int
  BY BornClaims, TokenAssumption DEF RenewIssue, OriginalTTL
<1>2. TokTypeOK' /\ Issued \subseteq Issued'
  <2>1. /\ c.sub \in Subjects /\ c.scope \in SUBSET Scopes
        /\ c.task \in Tasks \cup {NoTask} /\ c.chain \in Seq(Links)
    BY <1>1 DEF Claims
  <2>2. Issue(j, c.sub, c.scope, c.task, c.chain, OriginalTTL(c), root[held[r]], held[r])
    BY DEF RenewIssue
  <2> QED
    BY <1>1, <2>1, <2>2, IssueTyped
<1>3. ReqTypeOK'
  BY <1>2, RespondTyped DEF RenewIssue
<1> QED
  BY <1>2, <1>3 DEF RenewIssue, TypeOK, TokTypeOK, ReqTypeOK, revVars

LEMMA DelegateTyped ==
  ASSUME TypeOK, NEW r \in Reqs, NEW j \in Jtis, NEW to \in Agents,
         NEW scope \in ScopeLists, NEW ttl \in TTLs, Delegate(r, j, to, scope, ttl)
  PROVE  TypeOK'
<1> DEFINE c == tok[held[r]]
           link == [agent |-> c.sub, scope |-> c.scope]
           life == IF ttl <= 0 THEN DelegationTTL ELSE ttl
<1>1. held[r] \in Issued /\ c \in Claims /\ root[held[r]] \in Issued
  BY BornClaims DEF Delegate
<1>2. TokTypeOK' /\ Issued \subseteq Issued'
  <2>1. link \in Links /\ c.task \in Tasks \cup {NoTask}
    BY <1>1 DEF Claims, Links
  <2>2. Append(c.chain, link) \in Seq(Links)
    BY <1>1, <2>1 DEF Claims
  <2>3. to \in Subjects /\ scope \in SUBSET Scopes /\ life \in Int
    BY ScopeListsKnown, TokenAssumption DEF Subjects
  <2>4. Issue(j, to, scope, c.task, Append(c.chain, link), life, root[held[r]], NoJti)
    BY DEF Delegate
  <2> HIDE DEF link, life
  <2> QED
    BY <1>1, <2>1, <2>2, <2>3, <2>4, IssueTyped
<1>3. ReqTypeOK'
  BY <1>2, RespondTyped DEF Delegate
<1> QED
  BY <1>2, <1>3 DEF Delegate, TypeOK, TokTypeOK, ReqTypeOK, revVars

\* The other actions: tokens stay as they are.
LEMMA QuietTyped ==
  ASSUME TypeOK, UNCHANGED tokVars, now' \in 0..MaxNow,
         agents' \subseteq Agents, ReqTypeOK',
         revoked' \subseteq Entries /\ saved' \subseteq Entries /\ acked' \subseteq Entries
  PROVE  TypeOK'
BY SameTokens DEF TypeOK, ReqTypeOK

LEMMA ServeTyped ==
  ASSUME TypeOK, NEW r \in Reqs, Serve(r)
  PROVE  TypeOK'
<1>0. /\ revoked \subseteq Entries /\ saved \subseteq Entries /\ acked \subseteq Entries
      /\ agents \subseteq Agents
      /\ now \in 0..MaxNow
  BY DEF TypeOK
<1>1. ASSUME NEW j \in Jtis, Authenticate(r, j) PROVE TypeOK'
  <2>1. ReqTypeOK'
    BY <1>1, SameTokens DEF Authenticate, TypeOK, ReqTypeOK, Steps
  <2> QED
    BY <1>0, <1>1, <2>1, QuietTyped DEF Authenticate, revVars
<1>2. CASE Recheck(r)
  <2>1. ReqTypeOK'
    BY <1>2, SameTokens, RespondTyped, GoToTyped DEF Recheck, Steps
  <2> QED
    BY <1>0, <1>2, <2>1, QuietTyped DEF Recheck, revVars
<1>3. CASE RenewVerify(r)
  <2>1. ReqTypeOK'
    BY <1>3, SameTokens, RespondTyped, GoToTyped DEF RenewVerify, Steps
  <2> QED
    BY <1>0, <1>3, <2>1, QuietTyped DEF RenewVerify, revVars
<1>4. CASE RenewRevoke(r)
  <2>1. ReqTypeOK'
    BY <1>4, SameTokens, GoToTyped DEF RenewRevoke, Steps
  <2>2. Entry("token", held[r]) \in Entries
    BY <1>4, EntriesTyped, BornClaims DEF RenewRevoke, TypeOK
  <2> QED
    BY <1>0, <1>4, <2>1, <2>2, RevokeTyped, QuietTyped DEF RenewRevoke
<1>5. ASSUME NEW j \in Jtis, RenewIssue(r, j) PROVE TypeOK'
  BY <1>5, RenewIssueTyped
<1>6. CASE Release(r)
  <2>1. ReqTypeOK'
    BY <1>6, SameTokens, RespondTyped DEF Release
  <2>2. Entry("token", held[r]) \in Entries
    BY <1>6, EntriesTyped, BornClaims DEF Release, TypeOK
  <2> QED
    BY <1>0, <1>6, <2>1, <2>2, RevokeTyped, QuietTyped DEF Release
<1>7. ASSUME NEW j \in Jtis, NEW to \in Agents, NEW scope \in ScopeLists, NEW ttl \in TTLs,
             Delegate(r, j, to, scope, ttl)
      PROVE  TypeOK'
  BY <1>7, DelegateTyped
<1>8. ASSUME NEW e \in AdminEntries, RevokeByAdmin(r, e) PROVE TypeOK'
  <2>1. ReqTypeOK'
    BY <1>8, SameTokens, RespondTyped DEF RevokeByAdmin
  <2>2. e \in Entries
    BY AdminAssumption
  <2> QED
    BY <1>0, <1>8, <2>1, <2>2, RevokeTyped, QuietTyped DEF RevokeByAdmin
<1>9. CASE Refuse(r)
  <2>1. ReqTypeOK'
    BY <1>9, SameTokens, RespondTyped DEF Refuse
  <2> QED
    BY <1>0, <1>9, <2>1, QuietTyped DEF Refuse, revVars
<1> QED
  BY <1>1, <1>2, <1>3, <1>4, <1>5, <1>6, <1>7, <1>8, <1>9 DEF Serve

LEMMA NextTyped == TypeOK /\ [Next]_vars => TypeOK'
<1> SUFFICES ASSUME TypeOK, [Next]_vars PROVE TypeOK'
  OBVIOUS
<1>1. CASE Tick
  <2>1. now' \in 0..MaxNow
    BY <1>1, TokenAssumption DEF Tick, TypeOK
  <2>2. ReqTypeOK'
    BY <1>1, SameTokens DEF Tick, reqVars, TypeOK, ReqTypeOK
  <2>3. UNCHANGED <<agents, revoked, saved, acked>>
    BY <1>1 DEF Tick, revVars
  <2>4. agents \subseteq Agents
        /\ revoked \subseteq Entries /\ saved \subseteq Entries /\ acked \subseteq Entries
    BY DEF TypeOK
  <2> QED
    BY <1>1, <2>1, <2>2, <2>3, <2>4, QuietTyped DEF Tick
<1>2. ASSUME NEW l \in Logins, NEW j \in Jtis, Login(l, j) PROVE TypeOK'
  BY <1>2, LoginTyped
<1>3. ASSUME NEW a \in Agents, NEW j \in Jtis, NEW scope \in ScopeLists, NEW task \in Tasks,
             NEW ttl \in TTLs, Register(a, j, scope, task, ttl)
      PROVE  TypeOK'
  BY <1>3, RegisterTyped
<1>4. ASSUME NEW r \in Reqs, Serve(r) PROVE TypeOK'
  BY <1>4, ServeTyped
<1>5. CASE Restart
  BY <1>5, SameTokens DEF Restart, LoadFromEntries, TypeOK, Steps
<1>6. CASE UNCHANGED vars
  <2>1. /\ UNCHANGED <<now, tokVars, agents, revoked, saved, acked>>
        /\ UNCHANGED <<pc, held>>
    BY <1>6 DEF vars, tokVars, reqVars, revVars
  <2>2. ReqTypeOK'
    BY <2>1, SameTokens DEF TypeOK, ReqTypeOK
  <2>3. /\ now \in 0..MaxNow /\ agents \subseteq Agents
        /\ revoked \subseteq Entries /\ saved \subseteq Entries /\ acked \subseteq Entries
    BY DEF TypeOK
  <2> QED
    BY <2>1, <2>2, <2>3, QuietTyped
<1> QED
  BY <1>1, <1>2, <1>3, <1>4, <1>5, <1>6 DEF Next

\* In every reachable state claims, requests and revocation lists are well
\* typed, and a request in flight bears a token that was issued.
THEOREM TypeCorrect == Spec => []TypeOK
BY InitTyped, NextTyped, PTL DEF Spec
-----------------------------------------------------------------------------
(* What holds of every token. *)

LEMMA IssueFacts ==
  ASSUME TypeOK, NEW j, NEW sub, NEW scope, NEW task, NEW chain, NEW ttl, NEW r, NEW p,
         Issue(j, sub, scope, task, chain, ttl, r, p)
  PROVE  /\ j \notin Issued
         /\ Issued' = Issued \cup {j}
         /\ tok'[j] = [jti |-> j, sub |-> sub, scope |-> scope, task |-> task,
                       iat |-> now, exp |-> now + Clamp(ttl), chain |-> chain]
         /\ root'[j] = r
         /\ pred'[j] = p
         /\ \A i \in Issued : tok'[i] = tok[i] /\ root'[i] = root[i] /\ pred'[i] = pred[i]
<1> DEFINE c == [jti |-> j, sub |-> sub, scope |-> scope, task |-> task,
                 iat |-> now, exp |-> now + Clamp(ttl), chain |-> chain]
<1> HIDE DEF c
<1>1. j \notin Issued /\ tok' = Extend(tok, j, c) /\ root' = Extend(root, j, r)
      /\ pred' = Extend(pred, j, p)
  BY DEF Issue, c
<1>2. DOMAIN tok = Issued /\ DOMAIN root = Issued /\ DOMAIN pred = Issued
  BY DEF TypeOK
<1>3. Issued' = Issued \cup {j}
  <2>1. DOMAIN tok' = DOMAIN tok \cup {j}
    BY <1>1 DEF Extend
  <2> QED
    BY <2>1 DEF Issued
<1>4. tok'[j] = c /\ root'[j] = r /\ pred'[j] = p
  BY <1>1 DEF Extend
<1>5. \A i \in Issued : tok'[i] = tok[i] /\ root'[i] = root[i] /\ pred'[i] = pred[i]
  BY <1>1, <1>2 DEF Extend
<1> QED
  BY <1>1, <1>3, <1>4, <1>5 DEF c

TokInv == /\ AuthorityOnlyShrinks
          /\ DepthBounded
          /\ LineageTraced
          /\ LifetimeBounded
          /\ LifetimeClamped
          /\ RenewalKeepsLifetime

\* The same, field by field.
LEMMA MintedFields ==
  ASSUME TypeOK, NEW j, NEW sub, NEW scope, NEW task, NEW chain, NEW ttl, NEW r, NEW p,
         Issue(j, sub, scope, task, chain, ttl, r, p)
  PROVE  /\ j \notin Issued /\ Issued' = Issued \cup {j}
         /\ tok'[j].sub = sub /\ tok'[j].scope = scope /\ tok'[j].task = task
         /\ tok'[j].chain = chain /\ root'[j] = r
         /\ \A i \in Issued : tok'[i] = tok[i] /\ root'[i] = root[i]
<1>1. tok'[j] = [jti |-> j, sub |-> sub, scope |-> scope, task |-> task,
                 iat |-> now, exp |-> now + Clamp(ttl), chain |-> chain]
  BY IssueFacts
<1>2. /\ j \notin Issued /\ Issued' = Issued \cup {j} /\ root'[j] = r
      /\ \A i \in Issued : tok'[i] = tok[i] /\ root'[i] = root[i]
  BY IssueFacts, ZenonT(30)
<1> QED
  BY <1>1, <1>2

\* The lifetime of a minted token.
LEMMA MintedLifetime ==
  ASSUME TypeOK, NEW j, NEW sub, NEW scope, NEW task, NEW chain, NEW ttl \in Int, NEW r, NEW p,
         Issue(j, sub, scope, task, chain, ttl, r, p)
  PROVE  Lifetime(tok'[j]) = Clamp(ttl)
<1>1. now \in Int /\ Clamp(ttl) \in Int
  BY ClampInt, TokenAssumption DEF TypeOK
<1>2. tok'[j].iat = now /\ tok'[j].exp = now + Clamp(ttl)
  <2>1. tok'[j] = [jti |-> j, sub |-> sub, scope |-> scope, task |-> task,
                   iat |-> now, exp |-> now + Clamp(ttl), chain |-> chain]
    BY IssueFacts
  <2> QED
    BY <2>1
<1> QED
  BY <1>1, <1>2 DEF Lifetime

LEMMA ClampFacts ==
  ASSUME NEW ttl \in Int
  PROVE  /\ MaxTTL > 0 => Clamp(ttl) <= MaxTTL
         /\ Clamp(ttl) <= 0 => Clamp(ttl) = DefaultTTL
BY TokenAssumption DEF Clamp

\* A lifetime that Clamp has given once, it gives again.
LEMMA ClampIdempotent ==
  ASSUME NEW c, Lifetime(c) \in Int, MaxTTL > 0 => Lifetime(c) <= MaxTTL,
         Lifetime(c) <= 0 => Lifetime(c) = DefaultTTL
  PROVE  Clamp(OriginalTTL(c)) = Lifetime(c)
BY TokenAssumption DEF Clamp, OriginalTTL

\* The lifetime invariants survive minting with any lifetime, provided a
\* renewal asks for the lifetime of its predecessor.
LEMMA MintLifetimes ==
  ASSUME TypeOK, TokInv,
         NEW j, NEW sub, NEW scope, NEW task, NEW chain, NEW ttl \in Int, NEW r,
         NEW p \in Issued \cup {NoJti},
         Issue(j, sub, scope, task, chain, ttl, r, p),
         p # NoJti => ttl = OriginalTTL(tok[p])
  PROVE  LifetimeBounded' /\ LifetimeClamped' /\ RenewalKeepsLifetime'
<1> USE DEF TokInv
<1>1. Lifetime(tok'[j]) = Clamp(ttl)
  BY MintedLifetime
<1>2. /\ Issued' = Issued \cup {j} /\ j \notin Issued /\ pred'[j] = p
      /\ \A i \in Issued : tok'[i] = tok[i] /\ pred'[i] = pred[i]
  BY IssueFacts, ZenonT(30)
<1>3. \A i \in Issued : pred[i] \in Issued \cup {NoJti} /\ Lifetime(tok[i]) \in Int
  BY DEF TypeOK, Lifetime, Claims
<1>4. LifetimeBounded'
  BY <1>1, <1>2, ClampFacts DEF LifetimeBounded
<1>5. LifetimeClamped'
  BY <1>1, <1>2, ClampFacts DEF LifetimeClamped
<1>6. RenewalKeepsLifetime'
  <2> SUFFICES ASSUME NEW i \in Issued', pred'[i] # NoJti
               PROVE  Lifetime(tok'[i]) = Lifetime(tok'[pred'[i]])
    BY DEF RenewalKeepsLifetime
  <2>1. CASE i = j
    <3>1. p \in Issued /\ tok'[p] = tok[p]
      BY <1>2, <2>1
    <3>2. Clamp(OriginalTTL(tok[p])) = Lifetime(tok[p])
      BY <3>1, <1>3, ClampIdempotent DEF LifetimeBounded, LifetimeClamped
    <3> QED
      BY <1>1, <1>2, <2>1, <3>1, <3>2
  <2>2. CASE i # j
    BY <1>2, <1>3, <2>2 DEF RenewalKeepsLifetime
  <2> QED
    BY <2>1, <2>2
<1> QED
  BY <1>4, <1>5, <1>6

\* Login and Register: a token at the top of a new line.
LEMMA MintTop ==
  ASSUME TypeOK, TokInv,
         NEW j, NEW sub, NEW scope, \A s \in scope : Parses(s), NEW task, NEW ttl \in Int,
         Issue(j, sub, scope, task, << >>, ttl, j, NoJti)
  PROVE  TokInv'
<1>1. /\ Issued' = Issued \cup {j} /\ j \notin Issued
      /\ tok'[j].sub = sub /\ tok'[j].scope = scope /\ tok'[j].task = task
      /\ tok'[j].chain = << >> /\ root'[j] = j
      /\ \A i \in Issued : tok'[i] = tok[i] /\ root'[i] = root[i]
  BY MintedFields
<1>2. \A i \in Issued : root[i] \in Issued
  BY DEF TypeOK
<1>3. LifetimeBounded' /\ LifetimeClamped' /\ RenewalKeepsLifetime'
  BY MintLifetimes
<1>4. AuthorityOnlyShrinks'
  <2>1. ASSUME NEW i \in Issued
        PROVE  /\ ScopeIsSubset(tok'[i].scope, tok'[root'[i]].scope)
               /\ \A n \in 1..Len(tok'[i].chain) :
                    ScopeIsSubset(tok'[i].scope, tok'[i].chain[n].scope)
    <3>1. /\ ScopeIsSubset(tok[i].scope, tok[root[i]].scope)
          /\ \A n \in 1..Len(tok[i].chain) : ScopeIsSubset(tok[i].scope, tok[i].chain[n].scope)
      BY DEF TokInv, AuthorityOnlyShrinks
    <3>2. tok'[i] = tok[i] /\ root'[i] = root[i] /\ tok'[root[i]] = tok[root[i]]
      BY <1>1, <1>2
    <3> QED
      BY <3>1, <3>2
  <2>2. /\ ScopeIsSubset(tok'[j].scope, tok'[root'[j]].scope)
        /\ \A n \in 1..Len(tok'[j].chain) :
             ScopeIsSubset(tok'[j].scope, tok'[j].chain[n].scope)
    BY <1>1, SubsetReflexive
  <2> QED
    BY <1>1, <2>1, <2>2 DEF AuthorityOnlyShrinks
<1>5. DepthBounded'
  BY <1>1, TokenAssumption DEF TokInv, DepthBounded
<1>6. LineageTraced'
  BY <1>1, <1>2 DEF TokInv, LineageTraced
<1> QED
  BY <1>3, <1>4, <1>5, <1>6 DEF TokInv

\* RenewIssue and Delegate: a token further down the line of a token h.
LEMMA MintDown ==
  ASSUME TypeOK, TokInv, NEW h \in Issued,
         NEW j, NEW sub, NEW scope, NEW chain, NEW ttl \in Int,
         NEW p \in Issued \cup {NoJti},
         Issue(j, sub, scope, tok[h].task, chain, ttl, root[h], p),
         p # NoJti => ttl = OriginalTTL(tok[p]),
         Len(chain) <= MaxDelegDepth,
         ScopeIsSubset(scope, tok[root[h]].scope),
         \A n \in 1..Len(chain) : ScopeIsSubset(scope, chain[n].scope),
         chain = << >> => sub = tok[root[h]].sub,
         chain # << >> => chain[1].agent = tok[root[h]].sub
  PROVE  TokInv'
<1>1. /\ Issued' = Issued \cup {j} /\ j \notin Issued
      /\ tok'[j].sub = sub /\ tok'[j].scope = scope /\ tok'[j].task = tok[h].task
      /\ tok'[j].chain = chain /\ root'[j] = root[h]
      /\ \A i \in Issued : tok'[i] = tok[i] /\ root'[i] = root[i]
  BY MintedFields
<1>2. \A i \in Issued : root[i] \in Issued
  BY DEF TypeOK
<1>3. LifetimeBounded' /\ LifetimeClamped' /\ RenewalKeepsLifetime'
  BY MintLifetimes
<1>4. AuthorityOnlyShrinks'
  <2>1. ASSUME NEW i \in Issued
        PROVE  /\ ScopeIsSubset(tok'[i].scope, tok'[root'[i]].scope)
               /\ \A n \in 1..Len(tok'[i].chain) :
                    ScopeIsSubset(tok'[i].scope, tok'[i].chain[n].scope)
    <3>1. /\ ScopeIsSubset(tok[i].scope, tok[root[i]].scope)
          /\ \A n \in 1..Len(tok[i].chain) : ScopeIsSubset(tok[i].scope, tok[i].chain[n].scope)
      BY DEF TokInv, AuthorityOnlyShrinks
    <3>2. tok'[i] = tok[i] /\ root'[i] = root[i] /\ tok'[root[i]] = tok[root[i]]
      BY <1>1, <1>2
    <3> QED
      BY <3>1, <3>2
  <2>2. /\ ScopeIsSubset(tok'[j].scope, tok'[root'[j]].scope)
        /\ \A n \in 1..Len(tok'[j].chain) :
             ScopeIsSubset(tok'[j].scope, tok'[j].chain[n].scope)
    <3>1. tok'[root'[j]] = tok[root[h]]
      BY <1>1, <1>2
    <3> QED
      BY <1>1, <3>1
  <2> QED
    BY <1>1, <2>1, <2>2 DEF AuthorityOnlyShrinks
<1>5. DepthBounded'
  BY <1>1 DEF TokInv, DepthBounded
<1>6. LineageTraced'
  <2>1. /\ root[root[h]] = root[h] /\ tok[root[h]].chain = << >>
        /\ tok[h].task = tok[root[h]].task
    BY DEF TokInv, LineageTraced
  <2> QED
    BY <1>1, <1>2, <2>1 DEF TokInv, LineageTraced
<1> QED
  BY <1>3, <1>4, <1>5, <1>6 DEF TokInv

LEMMA RenewIssueInv ==
  ASSUME TypeOK, TokInv, NEW r \in Reqs, NEW j \in Jtis, RenewIssue(r, j)
  PROVE  TokInv'
<1> DEFINE h == held[r]
           c == tok[h]
<1>1. h \in Issued /\ OriginalTTL(c) \in Int
  BY BornClaims, TokenAssumption DEF RenewIssue, OriginalTTL
<1>2. Issue(j, c.sub, c.scope, c.task, c.chain, OriginalTTL(c), root[h], h)
  BY DEF RenewIssue
<1>3. /\ Len(c.chain) <= MaxDelegDepth
      /\ ScopeIsSubset(c.scope, tok[root[h]].scope)
      /\ \A n \in 1..Len(c.chain) : ScopeIsSubset(c.scope, c.chain[n].scope)
      /\ c.chain = << >> => c.sub = tok[root[h]].sub
      /\ c.chain # << >> => c.chain[1].agent = tok[root[h]].sub
  BY <1>1 DEF TokInv, AuthorityOnlyShrinks, DepthBounded, LineageTraced
<1> HIDE DEF h
<1> QED
  BY <1>1, <1>2, <1>3, MintDown

\* What Append does, said of any sequence.
LEMMA AppendFacts ==
  ASSUME NEW S, NEW s \in Seq(S), NEW x \in S
  PROVE  /\ Append(s, x) \in Seq(S)
         /\ Len(Append(s, x)) = Len(s) + 1 /\ Append(s, x) # << >>
         /\ Append(s, x)[Len(s) + 1] = x
         /\ \A n \in 1..Len(s) : Append(s, x)[n] = s[n]
OBVIOUS

LEMMA DelegateInv ==
  ASSUME TypeOK, TokInv, NEW r \in Reqs, NEW j \in Jtis, NEW to \in Agents,
         NEW scope \in ScopeLists, NEW ttl \in TTLs, Delegate(r, j, to, scope, ttl)
  PROVE  TokInv'
<1> DEFINE h == held[r]
           c == tok[h]
           link == [agent |-> c.sub, scope |-> c.scope]
           chain == Append(c.chain, link)
           life == IF ttl <= 0 THEN DelegationTTL ELSE ttl
<1>1. h \in Issued /\ c \in Claims /\ c.chain \in Seq(Links) /\ life \in Int
  BY BornClaims, TokenAssumption DEF Delegate, Claims
<1>2. /\ Issue(j, to, scope, c.task, chain, life, root[h], NoJti)
      /\ ScopeIsSubset(scope, c.scope)
      /\ Len(c.chain) < MaxDelegDepth
  BY DEF Delegate, MayDelegate
<1>3. /\ ScopeIsSubset(c.scope, tok[root[h]].scope)
      /\ \A n \in 1..Len(c.chain) : ScopeIsSubset(c.scope, c.chain[n].scope)
      /\ c.chain = << >> => c.sub = tok[root[h]].sub
      /\ c.chain # << >> => c.chain[1].agent = tok[root[h]].sub
  BY <1>1 DEF TokInv, AuthorityOnlyShrinks, LineageTraced
<1>4. /\ Len(chain) = Len(c.chain) + 1 /\ chain # << >>
      /\ chain[Len(c.chain) + 1] = link
      /\ \A n \in 1..Len(c.chain) : chain[n] = c.chain[n]
  <2>1. link \in Links
    BY <1>1 DEF Claims, Links
  <2> HIDE DEF link, c
  <2> QED
    BY <1>1, <2>1, AppendFacts
<1>5. Len(chain) <= MaxDelegDepth
  BY <1>1, <1>2, <1>4, TokenAssumption
<1>6. ScopeIsSubset(scope, tok[root[h]].scope)
  BY <1>2, <1>3, SubsetTransitive
<1>7. \A n \in 1..Len(chain) : ScopeIsSubset(scope, chain[n].scope)
  <2> SUFFICES ASSUME NEW n \in 1..Len(chain) PROVE ScopeIsSubset(scope, chain[n].scope)
    OBVIOUS
  <2>1. CASE n = Len(c.chain) + 1
    <3>1. chain[n] = link
      BY <1>4, <2>1, Zenon
    <3>2. link.scope = c.scope
      OBVIOUS
    <3> HIDE DEF chain, link, c
    <3> QED
      BY <1>2, <3>1, <3>2
  <2>2. CASE n # Len(c.chain) + 1
    <3>1. n \in 1..Len(c.chain)
      BY <1>1, <1>4, <2>2
    <3>2. ScopeIsSubset(c.scope, c.chain[n].scope) /\ chain[n] = c.chain[n]
      BY <1>3, <1>4, <3>1
    <3> QED
      BY <1>2, <3>2, SubsetTransitive
  <2> QED
    BY <2>1, <2>2
<1>8. chain[1].agent = tok[root[h]].sub
  <2>1. CASE c.chain = << >>
    BY <1>3, <1>4, <2>1
  <2>2. CASE c.chain # << >>
    <3>1. 1 \in 1..Len(c.chain)
      BY <1>1, <2>2
    <3> QED
      BY <1>3, <1>4, <2>2, <3>1
  <2> QED
    BY <2>1, <2>2
<1> HIDE DEF h, chain, life
<1> QED
  BY <1>1, <1>2, <1>4, <1>5, <1>6, <1>7, <1>8, MintDown

LEMMA QuietTokInv == ASSUME TokInv, UNCHANGED tokVars PROVE TokInv'
BY SameTokens DEF TokInv, AuthorityOnlyShrinks, DepthBounded, LineageTraced, LifetimeBounded,
   LifetimeClamped, RenewalKeepsLifetime

LEMMA NextTokInv == TypeOK /\ TokInv /\ [Next]_vars => TokInv'
<1> SUFFICES ASSUME TypeOK, TokInv, [Next]_vars PROVE TokInv'
  OBVIOUS
<1>1. CASE Tick
  BY <1>1, QuietTokInv DEF Tick
<1>2. ASSUME NEW l \in Logins, NEW j \in Jtis, Login(l, j) PROVE TokInv'
  <2>1. (\A s \in l.scope : Parses(s)) /\ l.ttl \in Int
    BY TokenAssumption
  <2>2. Issue(j, l.sub, l.scope, NoTask, << >>, l.ttl, j, NoJti)
    BY <1>2 DEF Login
  <2> QED
    BY <2>1, <2>2, MintTop
<1>3. ASSUME NEW a \in Agents, NEW j \in Jtis, NEW scope \in ScopeLists, NEW task \in Tasks,
             NEW ttl \in TTLs, Register(a, j, scope, task, ttl)
      PROVE  TokInv'
  BY <1>3, MintTop, TokenAssumption DEF Register
<1>4. ASSUME NEW r \in Reqs, Serve(r) PROVE TokInv'
  <2>1. ASSUME NEW j \in Jtis, RenewIssue(r, j) PROVE TokInv'
    BY <2>1, RenewIssueInv
  <2>2. ASSUME NEW j \in Jtis, NEW to \in Agents, NEW scope \in ScopeLists, NEW ttl \in TTLs,
               Delegate(r, j, to, scope, ttl)
        PROVE  TokInv'
    BY <2>2, DelegateInv
  <2>3. ASSUME NEW j \in Jtis, Authenticate(r, j) PROVE TokInv'
    BY <2>3, QuietTokInv DEF Authenticate
  <2>4. ASSUME NEW e \in AdminEntries, RevokeByAdmin(r, e) PROVE TokInv'
    BY <2>4, QuietTokInv DEF RevokeByAdmin
  <2>5. CASE Recheck(r) \/ RenewVerify(r) \/ RenewRevoke(r)
    BY <2>5, QuietTokInv DEF Recheck, RenewVerify, RenewRevoke
  <2>6. CASE Release(r) \/ Refuse(r)
    BY <2>6, QuietTokInv DEF Release, Refuse
  <2> QED
    BY <1>4, <2>1, <2>2, <2>3, <2>4, <2>5, <2>6 DEF Serve
<1>5. CASE Restart
  BY <1>5, QuietTokInv DEF Restart
<1>6. CASE UNCHANGED vars
  BY <1>6, QuietTokInv DEF vars, tokVars
<1> QED
  BY <1>1, <1>2, <1>3, <1>4, <1>5, <1>6 DEF Next

LEMMA InitTokInv == Init => TokInv
<1> SUFFICES ASSUME Init PROVE TokInv
  OBVIOUS
<1>1. Issued = {}
  BY DEF Init, Nothing, Issued
<1> QED
  BY <1>1 DEF TokInv, AuthorityOnlyShrinks, DepthBounded, LineageTraced, LifetimeBounded,
     LifetimeClamped, RenewalKeepsLifetime

LEMMA TokInvariant == Spec => []TokInv
BY InitTokInv, NextTokInv, TypeCorrect, PTL DEF Spec

\* Permissions never expand, for any number of renewals and delegations by
\* any number of concurrent requests: a token is covered by the top of its
\* line and by every delegator in its chain.
THEOREM AuthorityTheorem == Spec => []AuthorityOnlyShrinks
<1>1. TokInv => AuthorityOnlyShrinks
  BY DEF TokInv
<1> QED
  BY <1>1, TokInvariant, PTL

\* No chain is longer than maxDelegDepth.
THEOREM DepthTheorem == Spec => []DepthBounded
<1>1. TokInv => DepthBounded
  BY DEF TokInv
<1> QED
  BY <1>1, TokInvariant, PTL

\* For every DefaultTTL and MaxTTL, zero and negative ones included, no
\* token exceeds the ceiling and a renewal keeps its predecessor's lifetime.
THEOREM LifetimeTheorem == Spec => [](LifetimeBounded /\ RenewalKeepsLifetime)
<1>1. TokInv => LifetimeBounded /\ RenewalKeepsLifetime
  BY DEF TokInv
<1> QED
  BY <1>1, TokInvariant, PTL

\* Two revocations, or one of the task, disable a whole line of tokens,
\* however long and whenever its tokens were issued.
THEOREM KillSwitchTheorem == Spec => []LineageRevocable
<1>1. TypeOK /\ TokInv => LineageRevocable
  BY DEF TypeOK, TokInv, LineageTraced, LineageRevocable, IsRevoked
<1> QED
  BY <1>1, TypeCorrect, TokInvariant, PTL
-----------------------------------------------------------------------------
(* Revocation, on a disk that does not fail. *)

\* Whatever a step does, the revocation service sees one of three calls.
LEMMA RevocationCalls ==
  ASSUME TypeOK, [Next]_vars
  PROVE  (\E e \in Entries : Revoke(e)) \/ LoadFromEntries \/ UNCHANGED revVars
<1>1. ASSUME NEW r \in Reqs, Serve(r) PROVE (\E e \in Entries : Revoke(e)) \/ UNCHANGED revVars
  <2>1. CASE RenewRevoke(r) \/ Release(r)
    <3>1. Entry("token", held[r]) \in Entries
      BY <2>1, EntriesTyped, BornClaims DEF RenewRevoke, Release, TypeOK
    <3> QED
      BY <2>1, <3>1 DEF RenewRevoke, Release
  <2>2. ASSUME NEW e \in AdminEntries, RevokeByAdmin(r, e)
        PROVE  \E x \in Entries : Revoke(x)
    BY <2>2, AdminAssumption DEF RevokeByAdmin
  <2>3. CASE Recheck(r) \/ RenewVerify(r) \/ Refuse(r)
    BY <2>3 DEF Recheck, RenewVerify, Refuse
  <2>4. ASSUME NEW j \in Jtis, Authenticate(r, j) \/ RenewIssue(r, j) PROVE UNCHANGED revVars
    BY <2>4 DEF Authenticate, RenewIssue
  <2>5. ASSUME NEW j \in Jtis, NEW to \in Agents, NEW scope \in ScopeLists, NEW ttl \in TTLs,
               Delegate(r, j, to, scope, ttl)
        PROVE  UNCHANGED revVars
    BY <2>5 DEF Delegate
  <2> QED
    BY <1>1, <2>1, <2>2, <2>3, <2>4, <2>5 DEF Serve
<1> QED
  BY <1>1 DEF Next, Tick, Login, Register, Restart, vars, revVars

RevInv == MemoryHoldsTable /\ AcknowledgedIsSaved

LEMMA RevInvariant == Spec => []RevInv
<1>1. Init => RevInv
  BY DEF Init, RevInit, RevInv, MemoryHoldsTable, AcknowledgedIsSaved
<1>2. TypeOK /\ RevInv /\ [Next]_vars => RevInv'
  <2> SUFFICES ASSUME TypeOK, RevInv, [Next]_vars PROVE RevInv'
    OBVIOUS
  <2>1. ASSUME NEW e \in Entries, Revoke(e) PROVE RevInv'
    BY <2>1 DEF Revoke, SaveRevocation, RevInv, MemoryHoldsTable, AcknowledgedIsSaved
  <2>2. CASE LoadFromEntries
    BY <2>2 DEF LoadFromEntries, RevInv, MemoryHoldsTable, AcknowledgedIsSaved
  <2>3. CASE UNCHANGED revVars
    BY <2>3 DEF revVars, RevInv, MemoryHoldsTable, AcknowledgedIsSaved
  <2> QED
    BY <2>1, <2>2, <2>3, RevocationCalls
<1> QED
  BY <1>1, <1>2, TypeCorrect, PTL DEF Spec

\* If no write to the revocations table fails, the lists that handlers
\* consult implement RevocationLedger: through crashes and restarts, what
\* was acknowledged stays in force.
THEOREM DurabilityTheorem == ASSUME ~DiskFaults PROVE Spec => RevocationDurable
<1>1. Init => Ledger!Init
  BY DEF Init, RevInit, Ledger!Init
<1>2. TypeOK /\ RevInv /\ [Next]_vars => [Ledger!Next]_revoked
  <2> SUFFICES ASSUME TypeOK, RevInv, [Next]_vars PROVE [Ledger!Next]_revoked
    OBVIOUS
  <2>1. ASSUME NEW e \in Entries, Revoke(e) PROVE Ledger!Next
    BY <2>1 DEF Revoke, Ledger!Next, Ledger!Acknowledge
  <2>2. CASE LoadFromEntries
    BY <2>2 DEF LoadFromEntries, RevInv, MemoryHoldsTable, AcknowledgedIsSaved
  <2>3. CASE UNCHANGED revVars
    BY <2>3 DEF revVars
  <2> QED
    BY <2>1, <2>2, <2>3, RevocationCalls
<1> QED
  BY <1>1, <1>2, TypeCorrect, RevInvariant, PTL DEF Spec, RevocationDurable, Ledger!Spec

\* Saved entries stay in the table.
LEMMA TableGrows == ASSUME TypeOK, [Next]_vars PROVE saved \subseteq saved'
BY RevocationCalls DEF Revoke, SaveRevocation, LoadFromEntries, revVars

\* No step takes an entry out of the table, so the two parts of
\* RetiredFirst can only break where a token or a retirement is added.
LEMMA SuccessionKept ==
  ASSUME TypeOK, SuccessionSaved, saved \subseteq saved', UNCHANGED tokVars
  PROVE  SuccessionSaved'
BY SameTokens DEF SuccessionSaved, Entry

LEMMA MintedPred ==
  ASSUME TypeOK, NEW j, NEW sub, NEW scope, NEW task, NEW chain, NEW ttl, NEW r, NEW p,
         Issue(j, sub, scope, task, chain, ttl, r, p)
  PROVE  /\ j \notin Issued /\ Issued' = Issued \cup {j} /\ pred'[j] = p
         /\ \A i \in Issued : pred'[i] = pred[i]
<1>1. Issued' = Issued \cup {j}
  BY IssueFacts
<1>2. pred'[j] = p
  <2>1. pred' = Extend(pred, j, p)
    BY DEF Issue
  <2> QED
    BY <2>1 DEF Extend
<1>3. \A i \in Issued : pred'[i] = pred[i]
  BY IssueFacts
<1>4. j \notin Issued
  BY IssueFacts
<1> QED
  BY <1>1, <1>2, <1>3, <1>4

LEMMA SuccessionExtended ==
  ASSUME TypeOK, SuccessionSaved, saved \subseteq saved',
         NEW j, NEW sub, NEW scope, NEW task, NEW chain, NEW ttl, NEW r, NEW p,
         Issue(j, sub, scope, task, chain, ttl, r, p),
         p # NoJti => Entry("token", p) \in saved
  PROVE  SuccessionSaved'
<1>1. /\ Issued' = Issued \cup {j} /\ pred'[j] = p
      /\ \A i \in Issued : pred'[i] = pred[i]
  BY MintedPred
<1> QED
  BY <1>1 DEF SuccessionSaved, Entry

LEMMA RetiringKept ==
  ASSUME TypeOK, RetiringSaved, saved \subseteq saved',
         \/ UNCHANGED reqVars
         \/ \E r \in Reqs : Respond(r) \/ GoTo(r, "admitted") \/ GoTo(r, "renewing")
  PROVE  RetiringSaved'
<1>1. CASE UNCHANGED reqVars
  BY <1>1 DEF reqVars, RetiringSaved, Entry
<1>2. ASSUME NEW r \in Reqs, Respond(r) PROVE RetiringSaved'
  BY <1>2 DEF Respond, RetiringSaved, Entry, TypeOK
<1>3. ASSUME NEW r \in Reqs, GoTo(r, "admitted") \/ GoTo(r, "renewing") PROVE RetiringSaved'
  BY <1>3 DEF GoTo, RetiringSaved, Entry, TypeOK
<1> QED
  BY <1>1, <1>2, <1>3

LEMMA RetiredFirstStep ==
  ASSUME ~DiskFaults, TypeOK, SuccessionSaved, RetiringSaved, [Next]_vars
  PROVE  SuccessionSaved' /\ RetiringSaved'
<1>1. saved \subseteq saved'
  BY TableGrows
<1>2. CASE Tick \/ UNCHANGED vars
  BY <1>1, <1>2, SuccessionKept, RetiringKept DEF Tick, vars, tokVars, reqVars
<1>3. ASSUME NEW l \in Logins, NEW j \in Jtis, Login(l, j)
      PROVE  SuccessionSaved' /\ RetiringSaved'
  BY <1>1, <1>3, SuccessionExtended, RetiringKept DEF Login
<1>4. ASSUME NEW a \in Agents, NEW j \in Jtis, NEW scope \in ScopeLists, NEW task \in Tasks,
             NEW ttl \in TTLs, Register(a, j, scope, task, ttl)
      PROVE  SuccessionSaved' /\ RetiringSaved'
  BY <1>1, <1>4, SuccessionExtended, RetiringKept DEF Register
<1>5. ASSUME NEW r \in Reqs, Serve(r) PROVE SuccessionSaved' /\ RetiringSaved'
  <2>1. ASSUME NEW j \in Jtis, Authenticate(r, j) PROVE SuccessionSaved' /\ RetiringSaved'
    <3>1. RetiringSaved'
      BY <1>1, <2>1 DEF Authenticate, RetiringSaved, Entry, TypeOK
    <3> QED
      BY <1>1, <2>1, <3>1, SuccessionKept DEF Authenticate
  <2>2. CASE Recheck(r) \/ RenewVerify(r) \/ Refuse(r) \/ Release(r)
    BY <1>1, <2>2, SuccessionKept, RetiringKept DEF Recheck, RenewVerify, Refuse, Release
  <2>3. CASE RenewRevoke(r)
    <3>1. saved' = saved \cup {Entry("token", held[r])} /\ GoTo(r, "retired")
      BY <2>3 DEF RenewRevoke, Revoke, SaveRevocation
    <3>2. RetiringSaved'
      BY <3>1 DEF GoTo, RetiringSaved, Entry, TypeOK
    <3> QED
      BY <1>1, <2>3, <3>2, SuccessionKept DEF RenewRevoke
  <2>4. ASSUME NEW j \in Jtis, RenewIssue(r, j) PROVE SuccessionSaved' /\ RetiringSaved'
    <3>1. Entry("token", held[r]) \in saved
      BY <2>4 DEF RenewIssue, RetiringSaved
    <3> QED
      BY <1>1, <2>4, <3>1, SuccessionExtended, RetiringKept DEF RenewIssue
  <2>5. ASSUME NEW j \in Jtis, NEW to \in Agents, NEW scope \in ScopeLists, NEW ttl \in TTLs,
               Delegate(r, j, to, scope, ttl)
        PROVE  SuccessionSaved' /\ RetiringSaved'
    BY <1>1, <2>5, SuccessionExtended, RetiringKept DEF Delegate
  <2>6. ASSUME NEW e \in AdminEntries, RevokeByAdmin(r, e)
        PROVE  SuccessionSaved' /\ RetiringSaved'
    BY <1>1, <2>6, SuccessionKept, RetiringKept DEF RevokeByAdmin
  <2> QED
    BY <1>5, <2>1, <2>2, <2>3, <2>4, <2>5, <2>6 DEF Serve
<1>6. CASE Restart
  <2>1. RetiringSaved'
    BY <1>6 DEF Restart, RetiringSaved
  <2> QED
    BY <1>1, <1>6, <2>1, SuccessionKept DEF Restart
<1> QED
  BY <1>2, <1>3, <1>4, <1>5, <1>6 DEF Next

LEMMA RetiredFirstInvariant == ASSUME ~DiskFaults PROVE Spec => [](SuccessionSaved /\ RetiringSaved)
<1>1. Init => SuccessionSaved /\ RetiringSaved
  BY DEF Init, Nothing, Issued, SuccessionSaved, RetiringSaved
<1>2. TypeOK /\ SuccessionSaved /\ RetiringSaved /\ [Next]_vars
        => SuccessionSaved' /\ RetiringSaved'
  BY RetiredFirstStep
<1> QED
  BY <1>1, <1>2, TypeCorrect, PTL DEF Spec

\* On a disk that does not fail, a token that has a successor is unusable
\* for ever, whenever the broker crashes during a renewal or after it.
THEOREM RetirementTheorem == ASSUME ~DiskFaults PROVE Spec => []PredecessorRetired
<1>1. TypeOK /\ RevInv /\ SuccessionSaved => PredecessorRetired
  BY DEF TypeOK, RevInv, MemoryHoldsTable, SuccessionSaved, PredecessorRetired, IsRevoked
<1> QED
  BY <1>1, TypeCorrect, RevInvariant, RetiredFirstInvariant, PTL
-----------------------------------------------------------------------------
(* One successor, as long as no two requests renew one token at once. *)

Renewing(r) == pc[r] \in {"renewing", "retired"}

\* Between Renew's Verify and its Issue, no other request is there with the
\* same token.
NoRace ==
  \A r, s \in Reqs : r # s /\ Renewing(r) /\ Renewing(s) => held[r] # held[s]

\* A token has one successor at most, and none while it is being renewed.
OneSuccessor ==
  /\ \A i, j \in Issued : pred[i] # NoJti /\ pred[i] = pred[j] => i = j
  /\ \A r \in Reqs, j \in Issued : Renewing(r) => pred[j] # held[r]

\* Steps that begin no renewal keep it, those that leave tokens alone and
\* those that issue one which succeeds none.
NoneBegins == \A r \in Reqs : Renewing(r)' => Renewing(r) /\ held'[r] = held[r]

LEMMA QuietSuccessors ==
  ASSUME TypeOK, OneSuccessor, UNCHANGED tokVars, NoneBegins
  PROVE  OneSuccessor'
<1>1. Issued' = Issued /\ pred' = pred
  BY SameTokens
<1> QED
  BY <1>1 DEF OneSuccessor, NoneBegins

LEMMA MintedSuccessors ==
  ASSUME TypeOK, OneSuccessor, NoneBegins,
         NEW j, NEW sub, NEW scope, NEW task, NEW chain, NEW ttl, NEW r,
         Issue(j, sub, scope, task, chain, ttl, r, NoJti)
  PROVE  OneSuccessor'
<1>1. /\ Issued' = Issued \cup {j} /\ pred'[j] = NoJti
      /\ \A i \in Issued : pred'[i] = pred[i]
  BY MintedPred
<1>2. \A s \in Reqs : Renewing(s) => held[s] # NoJti
  BY TokenAssumption DEF TypeOK, Renewing
<1> QED
  BY <1>1, <1>2 DEF OneSuccessor, NoneBegins

\* Steps of one request that do not lead into a renewal.
LEMMA RequestsKept ==
  ASSUME TypeOK,
         \/ UNCHANGED reqVars
         \/ \E r \in Reqs : \/ Respond(r)
                            \/ GoTo(r, "admitted")
                            \/ Renewing(r) /\ GoTo(r, "retired")
         \/ \E r \in Reqs, j \in Jtis : Authenticate(r, j)
         \/ Restart
  PROVE  NoneBegins
<1>1. CASE UNCHANGED reqVars
  BY <1>1 DEF reqVars, Renewing, NoneBegins
<1>2. ASSUME NEW r \in Reqs,
             Respond(r) \/ GoTo(r, "admitted") \/ (Renewing(r) /\ GoTo(r, "retired"))
      PROVE  NoneBegins
  BY <1>2 DEF Respond, GoTo, Renewing, TypeOK, NoneBegins
<1>3. ASSUME NEW r \in Reqs, NEW j \in Jtis, Authenticate(r, j) PROVE NoneBegins
  BY <1>3 DEF Authenticate, Renewing, TypeOK, NoneBegins
<1>4. CASE Restart
  BY <1>4 DEF Restart, Renewing, NoneBegins
<1> QED
  BY <1>1, <1>2, <1>3, <1>4

\* Renew's Verify finds the token unrevoked, so it has no successor yet.
LEMMA RenewalBegins ==
  ASSUME TypeOK, RevInv, SuccessionSaved, OneSuccessor,
         NEW r \in Reqs, RenewVerify(r), Verify(held[r])
  PROVE  OneSuccessor'
<1>1. /\ UNCHANGED tokVars /\ held' = held /\ pc' = [pc EXCEPT ![r] = "renewing"]
      /\ pc[r] = "admitted" /\ ~IsRevoked(tok[held[r]])
  BY DEF RenewVerify, Verify, GoTo
<1>2. held[r] \in Issued /\ tok[held[r]].jti = held[r]
  BY <1>1 DEF TypeOK
<1>3. Entry("token", held[r]) \notin saved
  BY <1>1, <1>2 DEF IsRevoked, RevInv, MemoryHoldsTable
<1>4. \A j \in Issued : pred[j] # held[r]
  BY <1>2, <1>3, TokenAssumption DEF SuccessionSaved, TypeOK
<1>5. \A s \in Reqs : Renewing(s)' => s = r \/ Renewing(s)
  BY <1>1 DEF Renewing, TypeOK
<1>6. Issued' = Issued /\ pred' = pred
  BY <1>1, SameTokens
<1> QED
  BY <1>1, <1>4, <1>5, <1>6 DEF OneSuccessor

\* Renew's Issue gives the token its successor, and no other request is at
\* it with the same token.
LEMMA RenewalEnds ==
  ASSUME TypeOK, OneSuccessor, NoRace, NEW r \in Reqs, NEW j \in Jtis, RenewIssue(r, j)
  PROVE  OneSuccessor'
<1> DEFINE h == held[r]
<1>1. pc[r] = "retired" /\ Respond(r)
  BY DEF RenewIssue
<1>2. /\ j \notin Issued /\ Issued' = Issued \cup {j} /\ pred'[j] = h
      /\ \A i \in Issued : pred'[i] = pred[i]
  <2> DEFINE c == tok[h]
  <2>1. Issue(j, c.sub, c.scope, c.task, c.chain, OriginalTTL(c), root[h], h)
    BY DEF RenewIssue
  <2> HIDE DEF h, c
  <2> QED
    BY <2>1, MintedPred
<1>3. \A i \in Issued : pred[i] # h
  BY <1>1 DEF OneSuccessor, Renewing
<1>4. \A s \in Reqs : Renewing(s)' => s # r /\ Renewing(s) /\ held'[s] = held[s]
  BY <1>1 DEF Respond, Renewing, TypeOK
<1>5. \A s \in Reqs : Renewing(s)' => held'[s] # h
  <2>1. Renewing(r)
    BY <1>1 DEF Renewing
  <2> QED
    BY <1>4, <2>1 DEF NoRace
<1> HIDE DEF h
<1> QED
  BY <1>2, <1>3, <1>4, <1>5 DEF OneSuccessor

LEMMA OneSuccessorStep ==
  ASSUME TypeOK, RevInv, SuccessionSaved, OneSuccessor, NoRace, [Next]_vars
  PROVE  OneSuccessor'
<1>1. CASE Tick \/ UNCHANGED vars
  <2>1. UNCHANGED tokVars /\ UNCHANGED reqVars
    BY <1>1 DEF Tick, vars, tokVars, reqVars
  <2> QED
    BY <2>1, QuietSuccessors, RequestsKept
<1>2. ASSUME NEW l \in Logins, NEW j \in Jtis, Login(l, j) PROVE OneSuccessor'
  <2>1. Issue(j, l.sub, l.scope, NoTask, << >>, l.ttl, j, NoJti) /\ UNCHANGED reqVars
    BY <1>2 DEF Login
  <2>2. NoneBegins
    BY <2>1, RequestsKept
  <2> QED
    BY <2>1, <2>2, MintedSuccessors
<1>3. ASSUME NEW a \in Agents, NEW j \in Jtis, NEW scope \in ScopeLists, NEW task \in Tasks,
             NEW ttl \in TTLs, Register(a, j, scope, task, ttl)
      PROVE  OneSuccessor'
  <2>1. Issue(j, a, scope, task, << >>, ttl, j, NoJti) /\ UNCHANGED reqVars
    BY <1>3 DEF Register
  <2>2. NoneBegins
    BY <2>1, RequestsKept
  <2> QED
    BY <2>1, <2>2, MintedSuccessors
<1>4. ASSUME NEW r \in Reqs, Serve(r) PROVE OneSuccessor'
  <2>1. ASSUME NEW j \in Jtis, Authenticate(r, j) PROVE OneSuccessor'
    <3>1. UNCHANGED tokVars
      BY <2>1 DEF Authenticate
    <3> QED
      BY <2>1, <3>1, QuietSuccessors, RequestsKept
  <2>2. CASE Recheck(r) \/ Refuse(r) \/ Release(r)
    <3>1. UNCHANGED tokVars /\ (Respond(r) \/ GoTo(r, "admitted"))
      BY <2>2 DEF Recheck, Refuse, Release
    <3>2. NoneBegins
      BY <1>4, <3>1, RequestsKept
    <3> QED
      BY <3>1, <3>2, QuietSuccessors
  <2>3. CASE RenewVerify(r)
    <3>1. CASE ~Verify(held[r])
      <4>1. UNCHANGED tokVars /\ Respond(r)
        BY <2>3, <3>1 DEF RenewVerify
      <4>2. NoneBegins
        BY <1>4, <4>1, RequestsKept
      <4> QED
        BY <4>1, <4>2, QuietSuccessors
    <3> QED
      BY <2>3, <3>1, RenewalBegins
  <2>4. CASE RenewRevoke(r)
    <3>1. UNCHANGED tokVars /\ Renewing(r) /\ GoTo(r, "retired")
      BY <2>4 DEF RenewRevoke, Renewing
    <3>2. NoneBegins
      BY <1>4, <3>1, RequestsKept
    <3> QED
      BY <3>1, <3>2, QuietSuccessors
  <2>5. ASSUME NEW j \in Jtis, RenewIssue(r, j) PROVE OneSuccessor'
    BY <2>5, RenewalEnds
  <2>6. ASSUME NEW j \in Jtis, NEW to \in Agents, NEW scope \in ScopeLists, NEW ttl \in TTLs,
               Delegate(r, j, to, scope, ttl)
        PROVE  OneSuccessor'
    <3> DEFINE c == tok[held[r]]
               chain == Append(c.chain, [agent |-> c.sub, scope |-> c.scope])
               life == IF ttl <= 0 THEN DelegationTTL ELSE ttl
    <3>1. Issue(j, to, scope, c.task, chain, life, root[held[r]], NoJti) /\ Respond(r)
      BY <2>6 DEF Delegate
    <3>2. NoneBegins
      BY <1>4, <3>1, RequestsKept
    <3> HIDE DEF c, chain, life
    <3> QED
      BY <3>1, <3>2, MintedSuccessors
  <2>7. ASSUME NEW e \in AdminEntries, RevokeByAdmin(r, e) PROVE OneSuccessor'
    <3>1. UNCHANGED tokVars /\ Respond(r)
      BY <2>7 DEF RevokeByAdmin
    <3>2. NoneBegins
      BY <1>4, <3>1, RequestsKept
    <3> QED
      BY <3>1, <3>2, QuietSuccessors
  <2> QED
    BY <1>4, <2>1, <2>2, <2>3, <2>4, <2>5, <2>6, <2>7 DEF Serve
<1>5. CASE Restart
  <2>1. UNCHANGED tokVars
    BY <1>5 DEF Restart
  <2> QED
    BY <1>5, <2>1, QuietSuccessors, RequestsKept
<1> QED
  BY <1>1, <1>2, <1>3, <1>4, <1>5 DEF Next

\* The race of two renewals between Verify and Issue is the only way to two
\* usable successors: where no two requests are in it with one token, a
\* renewal leaves one usable token behind, whatever else runs beside it and
\* however often the broker restarts.
THEOREM SuccessorTheorem == ASSUME ~DiskFaults PROVE Spec /\ []NoRace => []SoleSuccessor
<1>1. Init => OneSuccessor
  BY DEF Init, Nothing, Issued, OneSuccessor, Renewing
<1>2. TypeOK /\ RevInv /\ SuccessionSaved /\ OneSuccessor /\ NoRace /\ [Next]_vars => OneSuccessor'
  BY OneSuccessorStep
<1>3. OneSuccessor => SoleSuccessor
  BY DEF OneSuccessor, SoleSuccessor
<1> QED
  BY <1>1, <1>2, <1>3, TypeCorrect, RevInvariant, RetiredFirstInvariant, PTL DEF Spec
=============================================================================
