---------------------------- MODULE MCHandshake -----------------------------
EXTENDS Handshake, TLC

Symm == Permutations(Agents) \cup Permutations(Nonces) \cup Permutations(Calls)
=============================================================================
