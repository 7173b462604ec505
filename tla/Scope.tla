------------------------------- MODULE Scope -------------------------------
(***************************************************************************)
(* The scope algebra of internal/authz/scope.go.  A scope string is the    *)
(* sequence of the fields between its colons, so "read:data:*" is          *)
(* <<"read", "data", "*">> and "read:data" is a scope with a field         *)
(* missing.  Whatever lies after the second colon is one identifier, the   *)
(* way SplitN(s, ":", 3) leaves it.                                        *)
(***************************************************************************)
EXTENDS Naturals, Sequences

Wildcard == <<"*">>

\* The third part of a scope string, colons included.
Identifier(s) == SubSeq(s, 3, Len(s))

\* ParseScope returns no error: three parts, none of them empty.
Parses(s) ==
  /\ Len(s) >= 3
  /\ s[1] # ""
  /\ s[2] # ""
  /\ Identifier(s) # <<"">>

\* Mutants of ScopeCovers: a wildcard that the requester brings along, an
\* allowed wildcard taken literally, a resource nobody compares.
RequestedWildcard(allowed, requested) ==
  /\ Parses(allowed) /\ Parses(requested)
  /\ allowed[1] = requested[1] /\ allowed[2] = requested[2]
  /\ Wildcard \in {Identifier(allowed), Identifier(requested)}
LiteralWildcard(allowed, requested) == Parses(allowed) /\ allowed = requested
AnyResource(allowed, requested) ==
  /\ Parses(allowed) /\ Parses(requested)
  /\ allowed[1] = requested[1]
  /\ Identifier(allowed) \in {Identifier(requested), Wildcard}

\* Action and resource are compared literally, a "*" there included; only
\* the identifier of the allowed side may be a wildcard.
ScopeCovers(allowed, requested) ==
  /\ Parses(allowed)
  /\ Parses(requested)
  /\ allowed[1] = requested[1]
  /\ allowed[2] = requested[2]
  /\ Identifier(allowed) \in {Identifier(requested), Wildcard}

\* Scope lists are sets here: the nested loops look at every element and
\* stop early, so neither order nor repetition is observable.
ScopeIsSubset(requested, allowed) ==
  \A req \in requested : \E alw \in allowed : ScopeCovers(alw, req)
=============================================================================
