--------------------------- MODULE AuthzTheorems ---------------------------
(***************************************************************************)
(* Proofs about internal/authz.  Scopes: however many hops authority is    *)
(* handed down, and whatever the strings, nobody is permitted what the     *)
(* ceiling does not permit, and the subset test is containment of          *)
(* meanings.  Rate limiter: for any number of clients, any burst and any   *)
(* rate, the requests let through are those the budget allows.             *)
(***************************************************************************)
EXTENDS Attenuation, RateLimiter, TLAPS

\* A covered scope permits nothing its cover does not.
LEMMA CoverPermits ==
  ASSUME NEW a, NEW b \in ScopeStrings, ScopeCovers(a, b)
  PROVE  Permissions(b) \subseteq Permissions(a)
BY AttenuationAssumption DEF ScopeCovers, Permissions

\* The same for lists.
LEMMA SubsetPermits ==
  ASSUME NEW R \in SUBSET ScopeStrings, NEW A, ScopeIsSubset(R, A)
  PROVE  PermissionsOf(R) \subseteq PermissionsOf(A)
<1> SUFFICES ASSUME NEW r \in R PROVE Permissions(r) \subseteq PermissionsOf(A)
  BY DEF PermissionsOf
<1>1. PICK a \in A : ScopeCovers(a, r)
  BY DEF ScopeIsSubset
<1> QED
  BY <1>1, CoverPermits DEF PermissionsOf

\* The scopes RequireScope let the holder in with are covered by its list.
OpenedByLast == ScopeIsSubset(opened, Last)

IInv == TypeOK /\ NeverExpands /\ OpenedByLast

LEMMA ListsAreKnown == ASSUME NEW S \in ScopeLists PROVE S \subseteq ScopeStrings
BY DEF ScopeLists

LEMMA InitInv == Init => IInv
<1> SUFFICES ASSUME Init PROVE IInv
  OBVIOUS
<1>1. PICK S \in ScopeLists : line = <<S>> /\ opened = {}
  BY DEF Init
<1>2. TypeOK
  <2>1. <<S>> \in Seq(ScopeLists) /\ Len(<<S>>) = 1
    OBVIOUS
  <2> QED
    BY <1>1, <2>1, AttenuationAssumption DEF TypeOK
<1>3. NeverExpands
  BY <1>1 DEF NeverExpands
<1>4. OpenedByLast
  BY <1>1 DEF OpenedByLast, ScopeIsSubset
<1> QED
  BY <1>2, <1>3, <1>4 DEF IInv

\* A hop appends a list that permits no more than the last one did.
LEMMA HandDownInv ==
  ASSUME IInv, NEW requested \in ScopeLists, HandDown(requested)
  PROVE  IInv'
<1> USE DEF IInv, HandDown
<1>1. Len(line) \in Nat /\ Len(line) >= 1 /\ Len(line) < MaxHops /\ line \in Seq(ScopeLists)
  BY AttenuationAssumption DEF TypeOK
<1>2. /\ line' \in Seq(ScopeLists)
      /\ Len(line') = Len(line) + 1
      /\ line'[Len(line) + 1] = requested
      /\ \A n \in 1..Len(line) : line'[n] = line[n]
  BY <1>1
<1>3. TypeOK'
  BY <1>1, <1>2, AttenuationAssumption DEF TypeOK
<1>4. PermissionsOf(requested) \subseteq PermissionsOf(line[1])
  <2>1. PermissionsOf(requested) \subseteq PermissionsOf(Last)
    BY SubsetPermits, ListsAreKnown
  <2>2. PermissionsOf(Last) \subseteq PermissionsOf(line[1])
    BY <1>1 DEF NeverExpands, Last
  <2> QED
    BY <2>1, <2>2
<1>5. NeverExpands'
  <2> SUFFICES ASSUME NEW n \in 1..Len(line')
               PROVE  PermissionsOf(line'[n]) \subseteq PermissionsOf(line'[1])
    BY DEF NeverExpands
  <2>1. line'[1] = line[1]
    BY <1>1, <1>2
  <2>2. CASE n = Len(line) + 1
    BY <2>1, <2>2, <1>2, <1>4
  <2>3. CASE n # Len(line) + 1
    <3>1. n \in 1..Len(line)
      BY <1>1, <1>2, <2>3
    <3> QED
      BY <3>1, <2>1, <1>2 DEF NeverExpands
  <2> QED
    BY <2>2, <2>3
<1>6. OpenedByLast'
  BY DEF OpenedByLast, ScopeIsSubset
<1> QED
  BY <1>3, <1>5, <1>6

\* RequireScope and RequireAnyScope add a covered scope to those opened.
LEMMA OpenInv ==
  ASSUME IInv, NEW scope \in ScopeStrings, ScopeIsSubset({scope}, Last),
         opened' = opened \cup {scope}, UNCHANGED line
  PROVE  IInv'
<1>1. TypeOK'
  BY DEF IInv, TypeOK
<1>2. NeverExpands'
  BY DEF IInv, NeverExpands
<1>3. OpenedByLast'
  BY DEF IInv, OpenedByLast, ScopeIsSubset, Last
<1> QED
  BY <1>1, <1>2, <1>3 DEF IInv

LEMMA NextInv == IInv /\ [Next]_vars => IInv'
<1> SUFFICES ASSUME IInv, [Next]_vars PROVE IInv'
  OBVIOUS
<1>1. ASSUME NEW requested \in ScopeLists, HandDown(requested) PROVE IInv'
  BY <1>1, HandDownInv
<1>2. ASSUME NEW scope \in ScopeStrings, RequireScope(scope) PROVE IInv'
  BY <1>2, OpenInv DEF RequireScope
<1>3. ASSUME NEW scopes \in ScopeLists, RequireAnyScope(scopes) PROVE IInv'
  BY <1>3, OpenInv, ListsAreKnown DEF RequireAnyScope
<1>4. CASE UNCHANGED vars
  BY <1>4 DEF vars, IInv, TypeOK, NeverExpands, OpenedByLast, Last
<1> QED
  BY <1>1, <1>2, <1>3, <1>4 DEF Next

\* The inductive invariant covers what the last holder was let into.
LEMMA InvImplies == IInv => NeverExpands /\ OpenedByCeiling
<1> SUFFICES ASSUME IInv, NEW scope \in opened
             PROVE  Parses(scope) /\ Permissions(scope) \subseteq PermissionsOf(line[1])
  BY DEF IInv, OpenedByCeiling
<1>1. PICK alw \in Last : ScopeCovers(alw, scope)
  BY DEF IInv, OpenedByLast, ScopeIsSubset
<1>2. Permissions(scope) \subseteq PermissionsOf(Last)
  BY <1>1, CoverPermits DEF IInv, TypeOK, PermissionsOf
<1>3. PermissionsOf(Last) \subseteq PermissionsOf(line[1])
  BY AttenuationAssumption DEF IInv, TypeOK, NeverExpands, Last
<1> QED
  BY <1>1, <1>2, <1>3 DEF ScopeCovers

\* Permissions can never expand: for every set of scope strings and every
\* number of hops, no holder is permitted more than the ceiling
\* (ScopeIsSubset, hop by hop).
THEOREM AttenuationSafe == Spec => []NeverExpands
BY InitInv, NextInv, InvImplies, PTL DEF Spec

\* RequireScope and RequireAnyScope let the last holder into no endpoint that
\* the ceiling would not open, and malformed scopes open none.
THEOREM OpenedTheorem == Spec => []OpenedByCeiling
BY InitInv, NextInv, InvImplies, PTL DEF Spec
-----------------------------------------------------------------------------
\* There are more identifiers than scope strings name.
Unnamed == \E id \in Identifiers : \A s \in ScopeStrings : Identifier(s) # id

\* What a scope string permits, one triple at a time.
LEMMA PermissionsMember ==
  ASSUME NEW s, Parses(s), NEW p
  PROVE  p \in Permissions(s) <=>
           \E id \in IF Identifier(s) = Wildcard THEN Identifiers \cup {Wildcard} ELSE {Identifier(s)} :
             p = <<<<s[1], s[2]>>, id>>
BY DEF Permissions

\* Containment of meanings is found out by ScopeIsSubset: a concrete scope is
\* its own witness, a wildcard has an identifier that only wildcards reach.
LEMMA ContainedIsSubset ==
  ASSUME Unnamed, NEW R \in SUBSET ScopeStrings, NEW A \in SUBSET ScopeStrings,
         \A r \in R : Parses(r), PermissionsOf(R) \subseteq PermissionsOf(A)
  PROVE  ScopeIsSubset(R, A)
<1> SUFFICES ASSUME NEW r \in R PROVE \E a \in A : ScopeCovers(a, r)
  BY DEF ScopeIsSubset
<1>1. Parses(r) /\ Permissions(r) \subseteq PermissionsOf(A)
  BY DEF PermissionsOf
<1>2. ASSUME NEW id, <<<<r[1], r[2]>>, id>> \in Permissions(r)
      PROVE  \E a \in A : /\ Parses(a) /\ a[1] = r[1] /\ a[2] = r[2]
                          /\ Identifier(a) \in {id, Wildcard}
  <2>1. PICK a \in A : <<<<r[1], r[2]>>, id>> \in Permissions(a)
    BY <1>1, <1>2 DEF PermissionsOf
  <2>2. Parses(a)
    BY <2>1 DEF Permissions
  <2>3. PICK other \in IF Identifier(a) = Wildcard THEN Identifiers \cup {Wildcard} ELSE {Identifier(a)} :
          <<<<r[1], r[2]>>, id>> = <<<<a[1], a[2]>>, other>>
    BY <2>1, <2>2, PermissionsMember
  <2> QED
    BY <2>2, <2>3
<1>3. CASE Identifier(r) # Wildcard
  <2>1. <<<<r[1], r[2]>>, Identifier(r)>> \in Permissions(r)
    BY <1>1, <1>3, PermissionsMember
  <2> QED
    BY <1>1, <1>2, <2>1 DEF ScopeCovers
<1>4. CASE Identifier(r) = Wildcard
  <2>1. PICK id \in Identifiers : \A s \in ScopeStrings : Identifier(s) # id
    BY DEF Unnamed
  <2>2. <<<<r[1], r[2]>>, id>> \in Permissions(r)
    BY <1>1, <1>4, PermissionsMember
  <2>3. PICK a \in A : /\ Parses(a) /\ a[1] = r[1] /\ a[2] = r[2]
                       /\ Identifier(a) \in {id, Wildcard}
    BY <1>2, <2>2
  <2>4. Identifier(a) = Wildcard
    BY <2>1, <2>3
  <2> QED
    BY <1>1, <2>3, <2>4 DEF ScopeCovers
<1> QED
  BY <1>3, <1>4

LEMMA ContainmentExact == ASSUME Unnamed, IInv PROVE SubsetIsContainment
<1>1. Last \in SUBSET ScopeStrings
  BY ListsAreKnown, AttenuationAssumption DEF IInv, TypeOK, Last
<1> SUFFICES ASSUME NEW requested \in ScopeLists, \A s \in requested : Parses(s)
             PROVE  ScopeIsSubset(requested, Last)
                      <=> PermissionsOf(requested) \subseteq PermissionsOf(Last)
  BY DEF SubsetIsContainment
<1> QED
  BY <1>1, SubsetPermits, ContainedIsSubset, ListsAreKnown

\* On scopes that parse, ScopeIsSubset is exactly containment of what scope
\* lists mean, if there is an identifier that no scope string names: it never
\* refuses a request for less, and never grants one for more.
THEOREM ContainmentTheorem ==
  ASSUME Unnamed PROVE Spec => []SubsetIsContainment
<1>1. IInv => SubsetIsContainment
  BY ContainmentExact
<1> QED
  BY <1>1, InitInv, NextInv, PTL DEF Spec
-----------------------------------------------------------------------------
(* The rate limiter. *)

\* Parts spent from the i-th request of k on, and refilled since then.
Spent(k, i) == (Len(log[k]) - i + 1) * Cost
Earned(k, i, then) == (then - log[k][i]) * Refill

\* A bucket that holds so many tokens at a time is exactly as full as the
\* tightest window that ends there allows.
Balanced(k, tokens, then) ==
  /\ tokens \in 0..Full
  /\ \A i \in 1..Len(log[k]) :
       log[k][i] <= then /\ Spent(k, i) + tokens <= Full + Earned(k, i, then)
  /\ \/ tokens = Full
     \/ \E i \in 1..Len(log[k]) : Spent(k, i) + tokens = Full + Earned(k, i, then)

LimiterTypeOK ==
  /\ now \in Nat
  /\ DOMAIN bucket \subseteq Clients
  /\ \A k \in DOMAIN bucket : bucket[k] \in [tokens : Nat, lastSeen : 0..now]
  /\ log \in [Clients -> Seq(Nat)]
  /\ \A k \in Clients \ DOMAIN bucket : log[k] = << >>
  /\ ~last.allowed => last.client \in Clients

LimiterInv ==
  /\ LimiterTypeOK
  /\ \A k \in DOMAIN bucket : Balanced(k, bucket[k].tokens, bucket[k].lastSeen)
  /\ WithinBudget
  /\ RefusedForCause

LEMMA FullHolds == Full \in Nat /\ Cost <= Full
<1> DEFINE spare == Burst - 1
<1>1. spare \in Nat /\ Burst = spare + 1
  BY LimiterAssumption
<1>2. spare * Cost \in Nat /\ (spare + 1) * Cost = spare * Cost + Cost
  BY <1>1, LimiterAssumption
<1> QED
  BY <1>1, <1>2, LimiterAssumption DEF Full

LEMMA Distributes ==
  ASSUME NEW a \in Nat, NEW b \in Nat, NEW c \in Nat
  PROVE  a * c \in Nat /\ b * c \in Nat /\ (a + b) * c = a * c + b * c
OBVIOUS

\* Time adds to what was earned at the rate of the bucket.
LEMMA EarnedLater ==
  ASSUME LimiterTypeOK, NEW k \in Clients, NEW i \in 1..Len(log[k]),
         NEW s \in Nat, NEW t \in Nat, log[k][i] <= s, s <= t
  PROVE  /\ Earned(k, i, s) \in Nat /\ Spent(k, i) \in Nat
         /\ (t - s) * Refill \in Nat
         /\ Earned(k, i, t) = Earned(k, i, s) + (t - s) * Refill
<1>1. /\ log[k] \in Seq(Nat) /\ Len(log[k]) \in Nat /\ log[k][i] \in Nat
      /\ Refill \in Nat /\ Cost \in Nat
  BY LimiterAssumption DEF LimiterTypeOK
<1> DEFINE a == s - log[k][i]  b == t - s  n == Len(log[k]) - i + 1
<1>2. a \in Nat /\ b \in Nat /\ t - log[k][i] = a + b
  BY <1>1
<1>3. n \in Nat
  BY <1>1
<1> HIDE DEF a, b, n
<1>4. n * Cost \in Nat
  BY <1>1, <1>3, Distributes
<1>5. (a + b) * Refill = a * Refill + b * Refill /\ a * Refill \in Nat /\ b * Refill \in Nat
  BY <1>1, <1>2, Distributes
<1> QED
  BY <1>2, <1>4, <1>5 DEF Earned, Spent, a, b, n

\* The lazy refill keeps the balance.
LEMMA RefillBalances ==
  ASSUME LimiterInv, NEW k \in DOMAIN bucket
  PROVE  Balanced(k, Refilled(bucket[k]), now)
<1> DEFINE b == bucket[k]
           gain == (now - b.lastSeen) * Refill
           tokens == Refilled(b)
<1>1. k \in Clients /\ b.lastSeen \in Nat /\ now \in Nat /\ b.lastSeen <= now /\ b.tokens \in Nat
  BY DEF LimiterInv, LimiterTypeOK
<1>2. Balanced(k, b.tokens, b.lastSeen)
  BY DEF LimiterInv
<1>3. gain \in Nat /\ Full \in Nat
  <2>1. now - b.lastSeen \in Nat /\ Refill \in Nat
    BY <1>1, LimiterAssumption
  <2> QED
    BY <2>1, FullHolds
<1>4. /\ tokens \in 0..Full
      /\ tokens <= b.tokens + gain
      /\ tokens = Full \/ tokens = b.tokens + gain
  BY <1>1, <1>3 DEF Refilled, Least
<1>5. ASSUME NEW i \in 1..Len(log[k])
      PROVE  /\ log[k][i] <= now
             /\ Spent(k, i) \in Nat /\ Earned(k, i, b.lastSeen) \in Nat
             /\ Earned(k, i, now) = Earned(k, i, b.lastSeen) + gain
             /\ Spent(k, i) + b.tokens <= Full + Earned(k, i, b.lastSeen)
  <2>1. log[k][i] <= b.lastSeen /\ Spent(k, i) + b.tokens <= Full + Earned(k, i, b.lastSeen)
    BY <1>2 DEF Balanced
  <2>2. log[k][i] \in Nat
    BY <1>1 DEF LimiterInv, LimiterTypeOK
  <2>3. LimiterTypeOK
    BY DEF LimiterInv
  <2> DEFINE s == b.lastSeen
  <2>4. s \in Nat /\ s <= now /\ log[k][i] <= s
    BY <1>1, <2>1
  <2> HIDE DEF s
  <2>5. /\ Earned(k, i, s) \in Nat /\ Spent(k, i) \in Nat
        /\ Earned(k, i, now) = Earned(k, i, s) + (now - s) * Refill
    BY <1>1, <2>3, <2>4, EarnedLater
  <2>6. log[k][i] <= now
    BY <1>1, <2>2, <2>4
  <2> QED
    BY <2>1, <2>5, <2>6 DEF s
<1> HIDE DEF b, gain, tokens
<1>6. \A i \in 1..Len(log[k]) :
        log[k][i] <= now /\ Spent(k, i) + tokens <= Full + Earned(k, i, now)
  BY <1>1, <1>3, <1>4, <1>5
<1>7. \/ tokens = Full
      \/ \E i \in 1..Len(log[k]) : Spent(k, i) + tokens = Full + Earned(k, i, now)
  <2>1. CASE tokens = Full
    BY <2>1
  <2>2. CASE tokens # Full /\ b.tokens = Full
    BY <1>1, <1>3, <1>4, <2>2
  <2>3. CASE tokens # Full /\ b.tokens # Full
    <3>1. PICK i \in 1..Len(log[k]) :
            Spent(k, i) + b.tokens = Full + Earned(k, i, b.lastSeen)
      BY <1>2, <2>3 DEF Balanced, b
    <3>2. tokens = b.tokens + gain
      BY <1>4, <2>3
    <3>3. Spent(k, i) \in Nat /\ Earned(k, i, b.lastSeen) \in Nat
          /\ Earned(k, i, now) = Earned(k, i, b.lastSeen) + gain
      BY <1>5
    <3> DEFINE spent == Spent(k, i)  earned == Earned(k, i, b.lastSeen)  held == b.tokens
    <3>4. spent \in Nat /\ earned \in Nat /\ held \in Nat /\ spent + held = Full + earned
      BY <1>1, <3>1, <3>3
    <3> HIDE DEF spent, earned, held
    <3>5. spent + (held + gain) = Full + (earned + gain)
      BY <1>3, <3>4
    <3> QED
      BY <3>2, <3>3, <3>5 DEF spent, earned, held
  <2> QED
    BY <2>1, <2>2, <2>3
<1> QED
  BY <1>4, <1>6, <1>7 DEF Balanced, tokens, b

LEMMA LimiterStarts == LimiterInit => LimiterInv
<1> SUFFICES ASSUME LimiterInit PROVE LimiterInv
  OBVIOUS
<1> USE DEF LimiterInit
<1>1. DOMAIN bucket = {}
  OBVIOUS
<1>2. \A k \in Clients : log[k] = << >> /\ Len(log[k]) = 0
  OBVIOUS
<1>3. LimiterTypeOK
  BY <1>1, <1>2 DEF LimiterTypeOK, None
<1>4. WithinBudget
  BY <1>2 DEF WithinBudget
<1>5. RefusedForCause
  BY DEF RefusedForCause, None
<1> QED
  BY <1>1, <1>3, <1>4, <1>5 DEF LimiterInv

\* Another client's bucket and log stay as they are.
LEMMA OthersBalanced ==
  ASSUME LimiterInv, NEW k \in Clients, NEW tokens, NEW then, Put(k, tokens, then),
         \A c \in Clients \ {k} : log'[c] = log[c]
  PROVE  /\ DOMAIN bucket' = DOMAIN bucket \cup {k}
         /\ bucket'[k] = [tokens |-> tokens, lastSeen |-> then]
         /\ \A c \in DOMAIN bucket \ {k} :
              bucket'[c] = bucket[c] /\ Balanced(c, bucket[c].tokens, bucket[c].lastSeen)'
<1>1. DOMAIN bucket' = DOMAIN bucket \cup {k} /\ bucket'[k] = [tokens |-> tokens, lastSeen |-> then]
  BY DEF Put
<1>2. ASSUME NEW c \in DOMAIN bucket \ {k}
      PROVE  bucket'[c] = bucket[c] /\ Balanced(c, bucket[c].tokens, bucket[c].lastSeen)'
  <2>1. bucket'[c] = bucket[c]
    BY DEF Put
  <2>2. c \in Clients /\ log'[c] = log[c]
    BY DEF LimiterInv, LimiterTypeOK
  <2>3. Balanced(c, bucket[c].tokens, bucket[c].lastSeen)
    BY DEF LimiterInv
  <2> QED
    BY <2>1, <2>2, <2>3 DEF Balanced, Spent, Earned, Full
<1> QED
  BY <1>1, <1>2

\* A request that is let through takes a token and begins a window.
LEMMA GrantKeeps ==
  ASSUME LimiterInv, NEW k \in Clients, NEW tokens,
         Balanced(k, tokens, now), Cost <= tokens,
         Put(k, tokens - Cost, now), Answer(k, TRUE), UNCHANGED now
  PROVE  LimiterInv'
<1>0. PICK n \in Nat : n = Len(log[k])
  BY DEF LimiterInv, LimiterTypeOK
<1>1. /\ log \in [Clients -> Seq(Nat)] /\ log[k] \in Seq(Nat) /\ n \in Nat /\ now \in Nat
      /\ Cost \in Nat /\ Refill \in Nat /\ Full \in Nat /\ Cost <= Full
      /\ tokens \in Nat /\ tokens <= Full /\ tokens - Cost \in 0..Full
  BY <1>0, FullHolds, LimiterAssumption DEF LimiterInv, LimiterTypeOK, Balanced
<1>2. /\ log' = [log EXCEPT ![k] = Append(@, now)]
      /\ last' = [client |-> k, at |-> now, allowed |-> TRUE]
  BY DEF Answer
<1>3. /\ log'[k] = Append(log[k], now) /\ Len(log'[k]) = n + 1 /\ log'[k][n + 1] = now
      /\ \A i \in 1..n : log'[k][i] = log[k][i]
      /\ \A c \in Clients \ {k} : log'[c] = log[c]
      /\ log' \in [Clients -> Seq(Nat)]
  BY <1>0, <1>1, <1>2
<1>4. ASSUME NEW i \in 1..n
      PROVE  /\ Spent(k, i) \in Nat /\ Earned(k, i, now) \in Nat /\ log[k][i] <= now
             /\ Spent(k, i)' = Spent(k, i) + Cost
             /\ Earned(k, i, now)' = Earned(k, i, now)
             /\ Spent(k, i) + tokens <= Full + Earned(k, i, now)
  <2>1. log[k][i] <= now /\ Spent(k, i) + tokens <= Full + Earned(k, i, now)
    BY <1>0 DEF Balanced
  <2>2. Spent(k, i) \in Nat /\ Earned(k, i, now) \in Nat
    BY <1>0, <1>1, <2>1, EarnedLater DEF LimiterInv
  <2>3. Earned(k, i, now)' = Earned(k, i, now)
    BY <1>3 DEF Earned
  <2> DEFINE m == n - i + 1
  <2>4. m \in Nat /\ (n + 1) - i + 1 = m + 1 /\ 1 \in Nat
    BY <1>1
  <2> HIDE DEF m
  <2>5. (m + 1) * Cost = m * Cost + 1 * Cost /\ 1 * Cost = Cost
    BY <1>1, <2>4, Distributes
  <2>6. Spent(k, i)' = Spent(k, i) + Cost
    BY <1>0, <1>3, <2>4, <2>5 DEF Spent, m
  <2> QED
    BY <2>1, <2>2, <2>3, <2>6
<1>5. Spent(k, n + 1)' = Cost /\ Earned(k, n + 1, now)' = 0
  <2>1. (n + 1) - (n + 1) + 1 = 1 /\ now - now = 0 /\ 1 * Cost = Cost /\ 0 * Refill = 0
    BY <1>1
  <2> QED
    BY <1>3, <2>1 DEF Spent, Earned
<1>6. \A i \in 1..Len(log'[k]) : i \in 1..n \/ i = n + 1
  BY <1>1, <1>3
<1>7. Balanced(k, tokens - Cost, now)'
  <2>1. ASSUME NEW i \in 1..n
        PROVE  Spent(k, i)' + (tokens - Cost) = Spent(k, i) + tokens
    BY <1>1, <1>4
  <2>2. Spent(k, n + 1)' + (tokens - Cost) = tokens /\ Full + Earned(k, n + 1, now)' = Full
    BY <1>1, <1>5
  <2>3. ASSUME NEW i \in 1..Len(log'[k])
        PROVE  /\ log'[k][i] <= now
               /\ Spent(k, i)' + (tokens - Cost) <= Full + Earned(k, i, now)'
    <3>1. CASE i \in 1..n
      BY <1>3, <1>4, <2>1, <3>1
    <3>2. CASE i = n + 1
      BY <1>1, <1>3, <2>2, <3>2
    <3> QED
      BY <1>6, <3>1, <3>2
  <2>4. \/ tokens - Cost = Full
        \/ \E i \in 1..Len(log'[k]) :
             Spent(k, i)' + (tokens - Cost) = Full + Earned(k, i, now)'
    <3>1. CASE tokens = Full
      BY <1>1, <1>3, <2>2, <3>1
    <3>2. CASE tokens # Full
      <4>1. PICK i \in 1..n : Spent(k, i) + tokens = Full + Earned(k, i, now)
        BY <1>0, <3>2 DEF Balanced
      <4>2. i \in 1..Len(log'[k])
        BY <1>1, <1>3, <4>1
      <4> QED
        BY <1>4, <2>1, <4>1, <4>2
    <3> QED
      BY <3>1, <3>2
  <2> QED
    BY <1>1, <2>3, <2>4 DEF Balanced, Full
<1>8. WithinBudget'
  <2> SUFFICES ASSUME NEW c \in Clients, NEW i \in 1..Len(log'[c]), NEW j \in 1..Len(log'[c]), i <= j
               PROVE  (j - i + 1) * Cost <= Full + (log'[c][j] - log'[c][i]) * Refill
    BY DEF WithinBudget, Budget, Full
  <2>1. CASE c # k \/ j \in 1..n
    <3>1. /\ i \in 1..Len(log[c]) /\ j \in 1..Len(log[c])
          /\ log'[c][i] = log[c][i] /\ log'[c][j] = log[c][j]
      <4>1. CASE c # k
        BY <1>3, <4>1
      <4>2. CASE c = k /\ j \in 1..n
        <5>1. i \in 1..n
          BY <1>1, <1>3, <4>2
        <5> QED
          BY <1>0, <1>3, <4>2, <5>1
      <4> QED
        BY <2>1, <4>1, <4>2
    <3> QED
      BY <3>1 DEF LimiterInv, WithinBudget, Budget
  <2>2. CASE c = k /\ j = n + 1
    <3>1. (j - i + 1) * Cost = Spent(k, i)' /\ (log'[c][j] - log'[c][i]) * Refill = Earned(k, i, now)'
      BY <1>3, <2>2 DEF Spent, Earned
    <3>2. CASE i \in 1..n
      BY <1>1, <1>4, <3>1, <3>2
    <3>3. CASE i = n + 1
      BY <1>1, <1>5, <3>1, <3>3
    <3> QED
      BY <1>6, <2>2, <3>2, <3>3
  <2> QED
    BY <1>6, <2>1, <2>2
<1>9. RefusedForCause'
  BY <1>2 DEF RefusedForCause
<1>10. /\ DOMAIN bucket' = DOMAIN bucket \cup {k}
       /\ bucket'[k] = [tokens |-> tokens - Cost, lastSeen |-> now]
       /\ \A c \in DOMAIN bucket \ {k} :
            bucket'[c] = bucket[c] /\ Balanced(c, bucket[c].tokens, bucket[c].lastSeen)'
  <2>1. PICK left, then : left = tokens - Cost /\ then = now
    OBVIOUS
  <2>2. Put(k, left, then)
    BY <2>1
  <2>3. /\ DOMAIN bucket' = DOMAIN bucket \cup {k}
        /\ bucket'[k] = [tokens |-> left, lastSeen |-> then]
        /\ \A c \in DOMAIN bucket \ {k} :
             bucket'[c] = bucket[c] /\ Balanced(c, bucket[c].tokens, bucket[c].lastSeen)'
    BY <1>3, <2>2, OthersBalanced
  <2> QED
    BY <2>1, <2>3
<1>11. LimiterTypeOK'
  BY <1>1, <1>2, <1>3, <1>10 DEF LimiterInv, LimiterTypeOK
<1>12. ASSUME NEW c \in DOMAIN bucket'
       PROVE  Balanced(c, bucket[c].tokens, bucket[c].lastSeen)'
  <2>1. CASE c = k
    <3>1. bucket'[c].tokens = tokens - Cost /\ bucket'[c].lastSeen = now'
      BY <1>10, <2>1
    <3> QED
      BY <1>7, <2>1, <3>1
  <2>2. CASE c # k
    BY <1>10, <2>2
  <2> QED
    BY <2>1, <2>2
<1> QED
  BY <1>8, <1>9, <1>11, <1>12 DEF LimiterInv

\* A request that is refused would have made the tightest window too tight.
LEMMA RefuseKeeps ==
  ASSUME LimiterInv, NEW k \in DOMAIN bucket, NEW tokens,
         Balanced(k, tokens, now), tokens < Cost,
         Refuse(k, tokens), UNCHANGED now
  PROVE  LimiterInv'
<1>0. PICK n \in Nat : n = Len(log[k])
  BY DEF LimiterInv, LimiterTypeOK
<1>1. /\ k \in Clients /\ log[k] \in Seq(Nat) /\ n \in Nat /\ now \in Nat
      /\ Cost \in Nat /\ Full \in Nat /\ Cost <= Full /\ tokens \in Nat
  BY <1>0, FullHolds, LimiterAssumption DEF LimiterInv, LimiterTypeOK, Balanced
<1>2. log' = log /\ last' = [client |-> k, at |-> now, allowed |-> FALSE]
  BY DEF Refuse, Answer
<1>3. /\ DOMAIN bucket' = DOMAIN bucket \cup {k}
      /\ bucket'[k] = [tokens |-> tokens, lastSeen |-> now]
      /\ \A c \in DOMAIN bucket \ {k} :
           bucket'[c] = bucket[c] /\ Balanced(c, bucket[c].tokens, bucket[c].lastSeen)'
  BY <1>1, <1>2, OthersBalanced DEF Refuse
<1>4. Balanced(k, tokens, now)'
  BY <1>2 DEF Balanced, Spent, Earned, Full
<1>5. WithinBudget'
  BY <1>2 DEF LimiterInv, WithinBudget, Budget, Full
<1>6. RefusedForCause'
  <2>1. PICK i \in 1..n : Spent(k, i) + tokens = Full + Earned(k, i, now)
    BY <1>0, <1>1 DEF Balanced
  <2>2. Spent(k, i) \in Nat /\ Earned(k, i, now) \in Nat
    <3>1. log[k][i] <= now
      BY <1>0, <2>1 DEF Balanced
    <3> QED
      BY <1>0, <1>1, <2>1, <3>1, EarnedLater DEF LimiterInv
  <2> DEFINE m == n - i + 1
  <2>3. m \in Nat /\ n - i + 2 = m + 1 /\ 1 \in Nat
    BY <1>1, <2>1
  <2> HIDE DEF m
  <2>4. (m + 1) * Cost = m * Cost + 1 * Cost /\ 1 * Cost = Cost
    BY <1>1, <2>3, Distributes
  <2>5. (n - i + 2) * Cost = Spent(k, i) + Cost
    BY <1>0, <2>3, <2>4 DEF Spent, m
  <2>6. Full + Earned(k, i, now) < Spent(k, i) + Cost
    BY <1>1, <2>1, <2>2
  <2>7. (n - i + 2) * Cost > Full + Earned(k, i, now)
    BY <1>1, <2>2, <2>5, <2>6
  <2> QED
    BY <1>0, <1>2, <2>1, <2>7 DEF RefusedForCause, Budget, Earned, Full
<1>7. LimiterTypeOK'
  BY <1>1, <1>2, <1>3 DEF LimiterInv, LimiterTypeOK
<1>8. ASSUME NEW c \in DOMAIN bucket'
      PROVE  Balanced(c, bucket[c].tokens, bucket[c].lastSeen)'
  <2>1. CASE c = k
    <3>1. bucket'[c].tokens = tokens /\ bucket'[c].lastSeen = now'
      BY <1>3, <2>1
    <3> QED
      BY <1>4, <2>1, <3>1
  <2>2. CASE c # k
    BY <1>3, <2>2
  <2> QED
    BY <2>1, <2>2
<1> QED
  BY <1>5, <1>6, <1>7, <1>8 DEF LimiterInv

LEMMA LimiterKeeps ==
  ASSUME LimiterInv, [LimiterNext]_limiterVars PROVE LimiterInv'
<1>1. CASE Tick
  <2>1. now \in Nat /\ now' = now + 1 /\ UNCHANGED <<bucket, log, last>>
    BY <1>1 DEF Tick, LimiterInv, LimiterTypeOK
  <2>2. LimiterTypeOK'
    BY <2>1 DEF LimiterInv, LimiterTypeOK
  <2> QED
    BY <2>1, <2>2
    DEF LimiterInv, Balanced, Spent, Earned, WithinBudget, RefusedForCause,
        Budget, Full
<1>2. ASSUME NEW k \in Clients, Allow(k) PROVE LimiterInv'
  <2>1. CASE k \notin DOMAIN bucket
    <3>1. Balanced(k, Full, now)
      <4>1. Len(log[k]) = 0 /\ Full \in Nat
        BY <2>1, FullHolds DEF LimiterInv, LimiterTypeOK
      <4> QED
        BY <4>1 DEF Balanced
    <3> QED
      BY <1>2, <2>1, <3>1, GrantKeeps, FullHolds DEF Allow
  <2>2. CASE k \in DOMAIN bucket
    <3> DEFINE tokens == Refilled(bucket[k])
    <3>1. Balanced(k, tokens, now)
      BY <2>2, RefillBalances
    <3>2. tokens \in Nat /\ Cost \in Nat
      BY <3>1, FullHolds, LimiterAssumption DEF Balanced
    <3>3. CASE tokens < Cost
      BY <1>2, <2>2, <3>1, <3>3, RefuseKeeps DEF Allow
    <3>4. CASE ~(tokens < Cost)
      <4>1. Cost <= tokens
        BY <3>2, <3>4
      <4> QED
        BY <1>2, <2>2, <3>1, <3>4, <4>1, GrantKeeps DEF Allow
    <3> QED
      BY <3>3, <3>4
  <2> QED
    BY <2>1, <2>2
<1>3. CASE UNCHANGED limiterVars
  BY <1>3
  DEF limiterVars, LimiterInv, LimiterTypeOK, Balanced, Spent, Earned, WithinBudget,
      RefusedForCause, Budget, Full
<1> QED
  BY <1>1, <1>2, <1>3 DEF LimiterNext

\* No window of time lets more of a client's requests through than a burst
\* and what the rate refills in it (RateLimiter.Allow), for every rate, burst
\* and pattern of requests and refusals.
THEOREM BudgetTheorem == LimiterSpec => []WithinBudget
<1>1. LimiterInv => WithinBudget
  BY DEF LimiterInv
<1>2. LimiterInv /\ [LimiterNext]_limiterVars => LimiterInv'
  BY LimiterKeeps
<1>3. LimiterInit => LimiterInv
  BY LimiterStarts
<1> QED
  BY <1>1, <1>2, <1>3, PTL DEF LimiterSpec

\* Whoever is refused had a window that the request would have overdrawn: the
\* limiter takes nothing away for refusals, nor for other clients' requests.
THEOREM CauseTheorem == LimiterSpec => []RefusedForCause
<1>1. LimiterInv => RefusedForCause
  BY DEF LimiterInv
<1>2. LimiterInv /\ [LimiterNext]_limiterVars => LimiterInv'
  BY LimiterKeeps
<1>3. LimiterInit => LimiterInv
  BY LimiterStarts
<1> QED
  BY <1>1, <1>2, <1>3, PTL DEF LimiterSpec
=============================================================================
