----------------------------- MODULE Revocation -----------------------------
(***************************************************************************)
(* RevSvc (internal/revoke/rev_svc.go) over the revocations table of       *)
(* SqlStore: four in-memory maps, written through to SQLite under the same *)
(* lock and rebuilt from it when the broker starts.  A failed write is     *)
(* logged and the call still succeeds (rev_svc.go:127-132), which is the   *)
(* only way memory and table can differ.                                   *)
(***************************************************************************)
EXTENDS Naturals, Sequences

CONSTANTS
  NoTask,      \* the empty task_id
  DiskFaults   \* whether SaveRevocation may fail

ASSUME RevocationAssumption == DiskFaults \in BOOLEAN

VARIABLES
  revoked,   \* entries of the in-memory maps tokens, agents, tasks, chains
  saved,     \* rows of the revocations table
  acked      \* history: entries whose Revoke call has returned success

revVars == <<revoked, saved, acked>>

Levels == {"token", "agent", "task", "chain"}

Entry(level, target) == [level |-> level, target |-> target]

\* A mutant of IsRevoked: the chain is looked up by the subject.
OwnChain(claims) ==
  \/ Entry("token", claims.jti) \in revoked
  \/ Entry("agent", claims.sub) \in revoked
  \/ claims.task # NoTask /\ Entry("task", claims.task) \in revoked
  \/ Entry("chain", claims.sub) \in revoked

\* The four lookups of IsRevoked; the chain is that of its first delegator.
IsRevoked(claims) ==
  \/ Entry("token", claims.jti) \in revoked
  \/ Entry("agent", claims.sub) \in revoked
  \/ /\ claims.task # NoTask
     /\ Entry("task", claims.task) \in revoked
  \/ /\ claims.chain # << >>
     /\ Entry("chain", claims.chain[1].agent) \in revoked

\* INSERT OR IGNORE, or an error that Revoke swallows.
SaveRevocation(e) ==
  \/ saved' = saved \cup {e}
  \/ DiskFaults /\ UNCHANGED saved

\* Revoke with a valid level and a target: map write and table write happen
\* under one lock.  (A bad level or an empty target changes nothing.)
Revoke(e) ==
  /\ revoked' = revoked \cup {e}
  /\ SaveRevocation(e)
  /\ acked' = acked \cup {e}

\* A mutant of LoadFromEntries: only the first kind of row is loaded.
LoadTokens ==
  /\ revoked' = {e \in saved : e.level = "token"}
  /\ UNCHANGED <<saved, acked>>

\* The process ends and main() rebuilds the maps before it serves again.
LoadFromEntries ==
  /\ revoked' = saved
  /\ UNCHANGED <<saved, acked>>

RevInit ==
  /\ revoked = {}
  /\ saved = {}
  /\ acked = {}

\* The table never holds what memory does not: the strengthening the
\* durability invariants rest on.
MemoryHoldsTable == saved \subseteq revoked /\ revoked \subseteq acked

\* With a disk that does not fail, every acknowledged revocation is in the
\* table, so a restart cannot lose it (rev_svc.go:13-17, sql_store.go:9).
AcknowledgedIsSaved == ~DiskFaults => acked = saved
=============================================================================
