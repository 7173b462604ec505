----------------------------- MODULE Heartbeat ------------------------------
(***************************************************************************)
(* HeartbeatMgr (internal/mutauth/heartbeat.go) with a revocation service: *)
(* agents report, and a monitor sweeps over them on every tick of a timer. *)
(* A sweep counts the whole intervals since an agent was last seen, adds   *)
(* them to its missed count, and starts the measurement over, dropping the *)
(* fraction of an interval that is left.  The goroutine runs when the      *)
(* scheduler lets it, so a sweep may be late, and the timer's channel      *)
(* holds one tick and drops the next.                                      *)
(*                                                                         *)
(* Time is counted in fractions of an interval.  Ages stop at the age that *)
(* alone amounts to MaxMiss intervals, and missed counts at MaxMiss: the   *)
(* code compares the count with maxMiss and nothing else.                  *)
(***************************************************************************)
EXTENDS Naturals, Roster

CONSTANTS
  MaxMiss,    \* defaultMaxMiss
  Interval    \* units of time in an interval; bound: how finely it is cut

ASSUME HeartbeatAssumption == MaxMiss \in Nat \ {0} /\ Interval \in Nat \ {0}

VARIABLES
  tracked,   \* keys of the agents map
  age,       \* of each agent: time since lastSeen
  missed,    \* of each agent: missedCount
  clock,     \* time since the timer last fired
  tick,      \* whether a tick waits in the timer's channel
  running,   \* whether the monitor goroutine is there
  silence    \* history, of each agent: time since its last heartbeat

timer == <<clock, tick, running>>
monitorVars == <<tracked, age, missed, revoked, timer, silence>>

Long == MaxMiss * Interval   \* an age that is enough for a revocation
UpTo(limit, n) == IF n > limit THEN limit ELSE n

MonitorInit ==
  /\ tracked = {} /\ revoked = {}
  /\ age = [a \in Agents |-> 0] /\ missed = [a \in Agents |-> 0]
  /\ silence = [a \in Agents |-> 0]
  /\ clock = 0 /\ tick = FALSE /\ running = TRUE
-----------------------------------------------------------------------------
Tick ==
  /\ age' = [a \in Agents |-> UpTo(Long, age[a] + 1)]
  /\ silence' = [a \in Agents |-> UpTo(Long, silence[a] + 1)]
  /\ clock' = (clock + 1) % Interval
  /\ tick' = (tick \/ clock + 1 = Interval)
  /\ UNCHANGED <<tracked, missed, revoked, running>>

\* A mutant: the missed count survives the heartbeat.
RecordWithoutReset(a) ==
  /\ tracked' = tracked \cup {a}
  /\ age' = [age EXCEPT ![a] = 0] /\ silence' = [silence EXCEPT ![a] = 0]
  /\ UNCHANGED <<missed, revoked, timer>>

RecordHeartbeat(a) ==
  /\ tracked' = tracked \cup {a}
  /\ age' = [age EXCEPT ![a] = 0]
  /\ missed' = [missed EXCEPT ![a] = 0]
  /\ silence' = [silence EXCEPT ![a] = 0]
  /\ UNCHANGED <<revoked, timer>>

\* A mutant: an agent that was never seen counts as late.
LateOrUnseen == {a \in Agents : age[a] >= Interval}

\* Agents the sweep has something to count for.
Late == {a \in tracked : age[a] >= Interval}
Counted(a) == UpTo(MaxMiss, missed[a] + age[a] \div Interval)

\* CheckLiveness.
Alive(a) == a \in tracked /\ Counted(a) < MaxMiss

\* Mutants: the measurement goes on over what was counted; the count of the
\* last sweep replaces the total.
SweepTwice ==
  /\ running /\ tick
  /\ tick' = FALSE
  /\ missed' = [a \in Agents |-> IF a \in Late THEN Counted(a) ELSE missed[a]]
  /\ revoked' = revoked \cup {a \in Late : Counted(a) >= MaxMiss}
  /\ UNCHANGED <<tracked, age, clock, running, silence>>
SweepAnew ==
  /\ running /\ tick
  /\ tick' = FALSE
  /\ missed' = [a \in Agents |-> IF a \in Late THEN age[a] \div Interval ELSE missed[a]]
  /\ age' = [a \in Agents |-> IF a \in Late THEN 0 ELSE age[a]]
  /\ revoked' = revoked \cup {a \in Late : age[a] >= Long}
  /\ UNCHANGED <<tracked, clock, running, silence>>

\* The monitor takes a tick and sweeps, under the manager's lock.  Revoke
\* reports no error for an agent ID that is not empty.
Sweep ==
  /\ running /\ tick
  /\ tick' = FALSE
  /\ missed' = [a \in Agents |-> IF a \in Late THEN Counted(a) ELSE missed[a]]
  /\ age' = [a \in Agents |-> IF a \in Late THEN 0 ELSE age[a]]
  /\ revoked' = revoked \cup {a \in Late : Counted(a) >= MaxMiss}
  /\ UNCHANGED <<tracked, clock, running, silence>>

\* The context is canceled.
StopMonitor ==
  /\ running
  /\ running' = FALSE
  /\ UNCHANGED <<tracked, age, missed, revoked, clock, tick, silence>>

MonitorNext ==
  \/ Tick
  \/ \E a \in Agents : RecordHeartbeat(a)
  \/ Sweep
  \/ StopMonitor

MonitorSpec ==
  /\ MonitorInit /\ [][MonitorNext]_monitorVars
  /\ WF_monitorVars(Tick) /\ WF_monitorVars(Sweep)
-----------------------------------------------------------------------------
\* The state is well typed, and only tracked agents are revoked.
MonitorTypeOK ==
  /\ tracked \subseteq Agents /\ revoked \subseteq tracked
  /\ age \in [Agents -> 0..Long] /\ silence \in [Agents -> 0..Long]
  /\ missed \in [Agents -> 0..MaxMiss]
  /\ clock \in 0..(Interval - 1) /\ tick \in BOOLEAN /\ running \in BOOLEAN

\* No interval is counted twice (heartbeat.go:125): an agent is revoked only
\* after a silence of maxMiss whole intervals, however late or bunched the
\* sweeps are.
RevokedAfterSilence ==
  [][\A a \in revoked' \ revoked : silence[a] >= Long]_monitorVars

\* What CheckLiveness gave up on stays given up on until it reports: a sweep
\* never makes an agent look livelier.
DeadUntilHeartbeat ==
  [][\A a \in tracked : ~Alive(a) /\ Alive(a)' => silence'[a] = 0]_monitorVars

\* An agent that falls silent is revoked in the end, as long as the monitor
\* runs, although every sweep drops the fraction it did not count.
SilentIsRevoked ==
  \A a \in Agents :
    a \in tracked /\ silence[a] > 0 ~> a \in revoked \/ silence[a] = 0 \/ ~running
=============================================================================
