----------------------------- MODULE Enrollment -----------------------------
(***************************************************************************)
(* What registration promises, whatever happens on the way: every agent is *)
(* enrolled once, against a nonce no other agent was enrolled with, and    *)
(* against a launch token that, if single-use, no other agent used.        *)
(***************************************************************************)
CONSTANTS Agents, LaunchTokens, Nonces

VARIABLE enrolled   \* [agent, launch, nonce, single] of every enrolment

Init == enrolled = {}

Enroll(a, t, n, single) ==
  /\ \A e \in enrolled :
       /\ e.agent # a
       /\ e.nonce # n
       /\ e.launch = t => ~single /\ ~e.single
  /\ enrolled' = enrolled \cup {[agent |-> a, launch |-> t, nonce |-> n, single |-> single]}

Next ==
  \E a \in Agents, t \in LaunchTokens, n \in Nonces, single \in BOOLEAN :
    Enroll(a, t, n, single)

Spec == Init /\ [][Next]_enrolled
=============================================================================
