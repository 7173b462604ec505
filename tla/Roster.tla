------------------------------- MODULE Roster -------------------------------
(***************************************************************************)
(* What the two halves of internal/mutauth share: the agents, and which of *)
(* them the revocation service has revoked at the agent level, be it for   *)
(* the heartbeat monitor or by hand.                                       *)
(***************************************************************************)
CONSTANT Agents
VARIABLE revoked
=============================================================================
