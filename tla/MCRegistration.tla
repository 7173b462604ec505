--------------------------- MODULE MCRegistration ---------------------------
EXTENDS Registration, TLC

\* A wildcard and a narrower list.
MCScopeLists == {{<<"read", "data", "*">>}, {<<"read", "data", "x">>}}

Symm == Permutations(Nonces) \cup Permutations(LaunchTokens)
          \cup Permutations(Agents) \cup Permutations(Reqs)
=============================================================================
