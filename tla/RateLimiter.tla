---------------------------- MODULE RateLimiter -----------------------------
(***************************************************************************)
(* RateLimiter (internal/authz/rate_mw.go): a bucket of tokens for every   *)
(* client, refilled lazily, when the client's next request comes.  It      *)
(* guards the logins: 5/s with bursts of 10 by address for administrators  *)
(* (admin_hdl.go:52), 10/min with bursts of 3 by client_id for apps        *)
(* (app_hdl.go:46).                                                        *)
(*                                                                         *)
(* Tokens are cut into parts so that a unit of time refills a whole number *)
(* of them: the code's floats are taken to be exact.  The mutex makes one  *)
(* call of Allow one step.                                                 *)
(***************************************************************************)
EXTENDS Naturals, Sequences

CONSTANTS
  Clients,   \* keys: addresses, or client_ids
  Burst,     \* tokens a bucket holds
  Cost,      \* parts in a token
  Refill,    \* parts refilled in a unit of time
  MaxNow,    \* bound: the clock
  MaxLog     \* bound: requests let through, of each client

ASSUME LimiterAssumption ==
  /\ Burst \in Nat \ {0} /\ Cost \in Nat \ {0} /\ Refill \in Nat
  /\ MaxNow \in Nat /\ MaxLog \in Nat

VARIABLES
  now,      \* the clock
  bucket,   \* the clients map: [tokens, lastSeen]
  log,      \* history, of each client: when its requests were let through
  last      \* history: the latest request, and its answer

limiterVars == <<now, bucket, log, last>>

Full == Burst * Cost
None == [allowed |-> TRUE]

LimiterInit ==
  /\ now = 0
  /\ bucket = << >>
  /\ log = [k \in Clients |-> << >>]
  /\ last = None
-----------------------------------------------------------------------------
Least(m, n) == IF m < n THEN m ELSE n

Tick == now < MaxNow /\ now' = now + 1 /\ UNCHANGED <<bucket, log, last>>

Put(k, tokens, seen) ==
  bucket' = [c \in DOMAIN bucket \cup {k} |->
               IF c = k THEN [tokens |-> tokens, lastSeen |-> seen] ELSE bucket[c]]

Answer(k, allowed) ==
  /\ last' = [client |-> k, at |-> now, allowed |-> allowed]
  /\ log' = IF allowed THEN [log EXCEPT ![k] = Append(@, now)] ELSE log

\* Mutants: no cap on what a bucket holds; a refusal forgets what was
\* refilled up to it.
RefilledUncapped(b) == b.tokens + (now - b.lastSeen) * Refill
RefuseForgetting(k, tokens) == Put(k, bucket[k].tokens, now) /\ Answer(k, FALSE)

Refilled(b) == Least(Full, b.tokens + (now - b.lastSeen) * Refill)

Refuse(k, tokens) == Put(k, tokens, now) /\ Answer(k, FALSE)

Allow(k) ==
  /\ Len(log[k]) < MaxLog
  /\ IF k \notin DOMAIN bucket
       THEN Put(k, Full - Cost, now) /\ Answer(k, TRUE)
       ELSE LET tokens == Refilled(bucket[k]) IN
            IF tokens < Cost
              THEN Refuse(k, tokens)
              ELSE Put(k, tokens - Cost, now) /\ Answer(k, TRUE)
  /\ UNCHANGED now

LimiterNext == Tick \/ \E k \in Clients : Allow(k)

LimiterSpec == LimiterInit /\ [][LimiterNext]_limiterVars
-----------------------------------------------------------------------------
\* What a window that began with the i-th request of k has to spend by then.
Budget(k, i, then) == Full + (then - log[k][i]) * Refill

\* No window of time lets more through than a burst and what the rate
\* refills in it, however requests and refusals are spread over it.
WithinBudget ==
  \A k \in Clients : \A i, j \in 1..Len(log[k]) :
    i <= j => (j - i + 1) * Cost <= Budget(k, i, log[k][j])

\* Nobody is refused without cause: with the refused request some window
\* would have exceeded its budget.  Refusals themselves, and the requests
\* of other clients, cost nothing.
RefusedForCause ==
  ~last.allowed =>
    LET k == last.client IN
    \E i \in 1..Len(log[k]) :
      (Len(log[k]) - i + 2) * Cost > Budget(k, i, last.at)
=============================================================================
