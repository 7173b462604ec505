------------------------------- MODULE MCApps -------------------------------
EXTENDS Apps, TLC

\* A wildcard, narrower lists on both sides of it, one that does not parse.
MCScopeLists == {
  {<<"read", "data", "*">>},
  {<<"read", "data", "x">>},
  {<<"read", "data", "x">>, <<"write", "data", "x">>},
  {<<"read", "data">>}}

Symm == Permutations(AppIds) \cup Permutations(LaunchTokens) \cup Permutations(Reqs)
=============================================================================
