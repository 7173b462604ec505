---------------------------- MODULE MCOnboarding ----------------------------
EXTENDS Onboarding

\* A wildcard, a narrower list, one that does not parse.
MCScopeLists == {
  {<<"read", "data", "*">>},
  {<<"read", "data", "x">>},
  {<<"read", "data">>}}
=============================================================================
