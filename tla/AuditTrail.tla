----------------------------- MODULE AuditTrail -----------------------------
(***************************************************************************)
(* What the audit trail says against what was done: revocation requests    *)
(* (internal/handler/revoke_hdl.go, RevSvc.Revoke) on top of AuditLog,     *)
(* with the graceful shutdown of cmd/broker/serve.go and crashes cutting   *)
(* in between any two steps.                                               *)
(*                                                                         *)
(*   idle -> admitted -> revoked -> recorded -> idle                       *)
(*                                                                         *)
(* Revocation goes to memory and table under one lock, then the event to   *)
(* the log and its table, then the response to the client.  Both tables    *)
(* are in the one database that shutdown closes, if need be under requests *)
(* that outlive the deadline; their writes fail, and they go on regardless *)
(* and answer.  What such an answer tells of may be gone after a restart,  *)
(* while the token that was revoked is with its bearer and the key that    *)
(* signed it in its file.                                                  *)
(*                                                                         *)
(* Every other handler that audits a success keeps the same order: effect, *)
(* event, response.                                                        *)
(***************************************************************************)
EXTENDS AuditLog

CONSTANTS
  Targets,       \* what is revoked; its event type in the log stands for it
  LateRequests,  \* whether requests may outlive the shutdown deadline
  Reqs           \* bound: revocation requests in flight at a time

Nothing == "nothing"

ASSUME TrailAssumption ==
  /\ Targets \subseteq EventTypes /\ Nothing \notin Targets
  /\ LateRequests \in BOOLEAN

VARIABLES
  revoked,    \* the in-memory maps of RevSvc
  saved,      \* rows of the revocations table
  stopping,   \* whether the signal has come: no new request gets in
  pc, on,     \* of each request: its step, and its target
  wrote,      \* history: whether its revocation met an open database
  told        \* history: what clients were told of, late answers included

service == <<revoked, saved, stopping>>
requests == <<pc, on, wrote, told>>
trailVars == <<vars, service, requests>>

TrailInit ==
  /\ Init
  /\ revoked = {} /\ saved = {} /\ stopping = FALSE
  /\ pc = [r \in Reqs |-> "idle"] /\ on = [r \in Reqs |-> Nothing]
  /\ wrote = [r \in Reqs |-> FALSE] /\ told = {}
-----------------------------------------------------------------------------
GoTo(r, step) == pc' = [pc EXCEPT ![r] = step]

End(r) ==
  /\ GoTo(r, "idle")
  /\ on' = [on EXCEPT ![r] = Nothing] /\ wrote' = [wrote EXCEPT ![r] = FALSE]

\* The request is past the middleware.
Admit(r, x) ==
  /\ pc[r] = "idle" /\ ~stopping
  /\ GoTo(r, "admitted") /\ on' = [on EXCEPT ![r] = x]
  /\ UNCHANGED <<vars, service, wrote, told>>

\* SaveRevocation: an error of the insert is logged and swallowed.
SaveRevocation(x) ==
  \/ db /\ saved' = saved \cup {x}
  \/ (DiskFaults \/ ~db) /\ UNCHANGED saved

\* A mutant of Revoke: the row is left to be written some time later.
RevokeInMemory(r) ==
  /\ pc[r] = "admitted"
  /\ revoked' = revoked \cup {on[r]}
  /\ GoTo(r, "revoked") /\ wrote' = [wrote EXCEPT ![r] = db]
  /\ UNCHANGED <<vars, saved, stopping, on, told>>

Revoke(r) ==
  /\ pc[r] = "admitted"
  /\ revoked' = revoked \cup {on[r]}
  /\ SaveRevocation(on[r])
  /\ GoTo(r, "revoked") /\ wrote' = [wrote EXCEPT ![r] = db]
  /\ UNCHANGED <<vars, stopping, on, told>>

RecordRevoked(r) ==
  /\ pc[r] = "revoked"
  /\ Record(on[r])
  /\ GoTo(r, "recorded")
  /\ UNCHANGED <<service, on, wrote, told>>

\* What the client is told of, and whether the database was open at the write
\* of the revocation and is open still.
Tell(r) == told' = told \cup {[target |-> on[r], wrote |-> wrote[r], open |-> db]}

\* A mutant of Acknowledge: the client is told first.
AcknowledgeEarly(r) ==
  /\ pc[r] \in {"revoked", "recorded"}
  /\ Tell(r) /\ End(r)
  /\ UNCHANGED <<vars, service>>

\* The response, which is sent whatever became of the two writes.
Acknowledge(r) ==
  /\ pc[r] = "recorded"
  /\ Tell(r) /\ End(r)
  /\ UNCHANGED <<vars, service>>

\* The response does not arrive: `awrit revoke` reports an error, and the
\* operator may try again, which is a request like any other.
LoseReply(r) ==
  /\ pc[r] = "recorded"
  /\ End(r)
  /\ UNCHANGED <<vars, service, told>>

\* Events of other handlers.
RecordOther(type) ==
  /\ type \notin Targets
  /\ Record(type)
  /\ UNCHANGED <<service, requests>>

\* The client that reads the log.
Read(limit) == Query(limit) /\ UNCHANGED <<service, requests>>

\* SIGTERM or SIGINT.
Signal ==
  /\ ~stopping
  /\ stopping' = TRUE
  /\ UNCHANGED <<vars, revoked, saved, requests>>

\* serve waits for the requests under way, or for the deadline, and then
\* has the database closed.
Shutdown ==
  /\ stopping
  /\ LateRequests \/ \A r \in Reqs : pc[r] = "idle"
  /\ Close
  /\ UNCHANGED <<service, requests>>

\* The process ends, by itself or by a crash at any time, and the next one
\* rebuilds log and revocations from their tables.
Restart ==
  /\ NewAuditLogWithEvents
  /\ revoked' = saved /\ stopping' = FALSE
  /\ pc' = [r \in Reqs |-> "idle"] /\ on' = [r \in Reqs |-> Nothing]
  /\ wrote' = [r \in Reqs |-> FALSE]
  /\ UNCHANGED <<saved, told>>

TrailNext ==
  \/ \E r \in Reqs :
       \/ \E x \in Targets : Admit(r, x)
       \/ Revoke(r)
       \/ RecordRevoked(r)
       \/ Acknowledge(r)
       \/ LoseReply(r)
  \/ \E type \in EventTypes : RecordOther(type)
  \/ \E limit \in PageLimits : Read(limit)
  \/ Signal
  \/ Shutdown
  \/ Restart

TrailSpec == TrailInit /\ [][TrailNext]_trailVars
-----------------------------------------------------------------------------
\* Log and requests are well typed.
TrailTypeOK ==
  /\ TypeOK
  /\ revoked \subseteq Targets /\ saved \subseteq revoked
  /\ told \subseteq [target : Targets, wrote : BOOLEAN, open : BOOLEAN]
  /\ stopping \in BOOLEAN
  /\ ~db => stopping
  /\ pc \in [Reqs -> {"idle", "admitted", "revoked", "recorded"}]
  /\ wrote \in [Reqs -> BOOLEAN]
  /\ \A r \in Reqs : on[r] \in IF pc[r] = "idle" THEN {Nothing} ELSE Targets

\* What a client was told of survives every crash, shutdown and restart as far
\* as the request got before the database was closed: if its revocation was
\* written before that, the revocation is in force and in its table, however
\* late the answer; if the database was open at the answer, the event is in the
\* audit table too.
ToldAndWrittenIsKept ==
  \A t \in told :
    /\ t.wrote => t.target \in revoked /\ t.target \in saved
    /\ t.open => t.wrote /\ \E row \in table : row.type = t.target

\* "Revocation entries are persisted to SQLite and rebuilt from disk on broker
\* restart" (credential-model.md:403), of everything a client was told of.  It
\* holds if no request outlives the shutdown deadline, and not otherwise.
ToldIsKept ==
  \A t \in told :
    /\ t.target \in revoked /\ t.target \in saved
    /\ \E row \in table : row.type = t.target

\* The audit table never tells of a revocation that the next start would not
\* bring back, though the two are written one after the other and the
\* database may be closed, or the process gone, in between.
RecordedIsRevoked ==
  \A row \in table : row.type \in Targets => row.type \in saved
=============================================================================
