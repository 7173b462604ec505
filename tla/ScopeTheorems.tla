--------------------------- MODULE ScopeTheorems ---------------------------
(***************************************************************************)
(* Facts about the scope algebra, for any strings whatever, that the       *)
(* invariance proofs cite.                                                 *)
(***************************************************************************)
EXTENDS Scope, TLAPS

\* A scope list all of whose members parse covers itself.
LEMMA SubsetReflexive ==
  ASSUME NEW S, \A s \in S : Parses(s)
  PROVE  ScopeIsSubset(S, S)
BY DEF ScopeIsSubset, ScopeCovers

\* ScopeCovers composes: a wildcard survives to the far end.
LEMMA CoversTransitive ==
  ASSUME NEW a, NEW b, NEW c, ScopeCovers(a, b), ScopeCovers(b, c)
  PROVE  ScopeCovers(a, c)
BY DEF ScopeCovers

\* Coverage composes along a line of holders: two attenuations in a row are
\* one attenuation.  This is what makes a check against the previous hop
\* enough for a promise about the first.
THEOREM SubsetTransitive ==
  ASSUME NEW R, NEW S, NEW T, ScopeIsSubset(R, S), ScopeIsSubset(S, T)
  PROVE  ScopeIsSubset(R, T)
<1> SUFFICES ASSUME NEW r \in R PROVE \E t \in T : ScopeCovers(t, r)
  BY DEF ScopeIsSubset
<1>1. PICK s \in S : ScopeCovers(s, r)
  BY DEF ScopeIsSubset
<1>2. PICK t \in T : ScopeCovers(t, s)
  BY DEF ScopeIsSubset
<1> QED
  BY <1>1, <1>2, CoversTransitive
=============================================================================
