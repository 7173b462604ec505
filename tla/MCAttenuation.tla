--------------------------- MODULE MCAttenuation ---------------------------
EXTENDS Attenuation

\* Wildcard, two identifiers, one with a colon in it, a literal "*" as the
\* action, a missing field, an empty identifier and another resource.
MCScopeStrings == {
  <<"read", "data", "*">>,
  <<"read", "data", "x">>,
  <<"read", "data", "x", "y">>,
  <<"*", "data", "*">>,
  <<"read", "data">>,
  <<"read", "data", "">>,
  <<"read", "logs", "x">>}

\* "fresh" is named by no scope string.
MCIdentifiers == {<<"x">>, <<"x", "y">>, <<"fresh">>}
=============================================================================
