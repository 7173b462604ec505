--------------------------- MODULE MCTokenService ---------------------------
EXTENDS TokenService, TLC

CONSTANTS a1, a2, k1

MCAgents == {a1, a2}
MCOneAgent == {a1}
MCTasks == {k1}

\* Delegable scope lists: a wildcard and a narrower list.
MCScopeLists == {{<<"read", "data", "*">>}, {<<"read", "data", "x">>}}

\* Where scopes are not the question, everyone may ask for one list.
MCOneScopeList == {{<<"read", "data", "x">>}}

MCAdmin == [sub |-> "admin", ttl |-> 3,
            scope |-> {<<"admin", "launch-tokens", "*">>,
                       <<"admin", "revoke", "*">>,
                       <<"admin", "audit", "*">>}]

MCLogins == {MCAdmin}
MCNoLogins == {}

\* Every level above the single token, aimed at the agent a1 and its task;
\* tokens are revoked by releases and renewals.
MCAdminEntries ==
  {Entry("agent", a1), Entry("chain", a1), Entry("task", k1)}
MCNoEntries == {}

Symm == Permutations(Jtis) \cup Permutations(Reqs)

\* The agents are alike where no entry of the administrator names one.
SymmAgents == Symm \cup Permutations(Agents)
=============================================================================
