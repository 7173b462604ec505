---------------------------- MODULE Attenuation ----------------------------
(***************************************************************************)
(* What "permissions can never expand" promises, hop by hop.  Authority    *)
(* starts as the scope list of a ceiling and is handed down a line of      *)
(* holders: app ceiling, launch token, agent, delegate.  Every hop passes  *)
(* the ScopeIsSubset check of the hop before it, and whoever holds the     *)
(* last list may call the endpoints that RequireScope guards.  What a      *)
(* scope string permits is given independently of ScopeCovers, as the set  *)
(* of concrete (action, resource, identifier) triples it stands for.       *)
(***************************************************************************)
EXTENDS Scope, FiniteSets

CONSTANTS
  ScopeStrings,  \* the scope strings requests mention
  Identifiers,   \* identifiers a wildcard ranges over
  MaxScopes,     \* bound: longest scope list
  MaxHops        \* bound: longest line of holders

ASSUME AttenuationAssumption ==
  /\ MaxScopes \in Nat
  /\ MaxHops \in Nat \ {0}
  /\ Wildcard \notin Identifiers
  /\ \A s \in ScopeStrings : Parses(s) => Identifier(s) \in Identifiers \cup {Wildcard}

VARIABLES
  line,    \* the scope lists handed down so far, the ceiling first
  opened   \* scopes of the endpoints RequireScope let the last holder into

vars == <<line, opened>>

ScopeLists == {S \in SUBSET ScopeStrings : S # {} /\ Cardinality(S) <= MaxScopes}

Last == line[Len(line)]

Init ==
  /\ line \in {<<S>> : S \in ScopeLists}
  /\ opened = {}

\* A hop whose requested list is covered by the list of the hop before it:
\* launch token creation, registration and delegation all make this check.
HandDown(requested) ==
  /\ Len(line) < MaxHops
  /\ ScopeIsSubset(requested, Last)
  /\ line' = Append(line, requested)
  /\ opened' = {}

\* RequireScope runs next only if the scope of the endpoint is covered.
RequireScope(scope) ==
  /\ ScopeIsSubset({scope}, Last)
  /\ opened' = opened \cup {scope}
  /\ UNCHANGED line

\* RequireAnyScope runs next as soon as one of the endpoint's scopes is
\* covered, and that scope is what let the holder in.
RequireAnyScope(scopes) ==
  /\ \E scope \in scopes :
       /\ ScopeIsSubset({scope}, Last)
       /\ opened' = opened \cup {scope}
  /\ UNCHANGED line

Next ==
  \/ \E requested \in ScopeLists : HandDown(requested)
  \/ \E scope \in ScopeStrings : RequireScope(scope)
  \/ \E scopes \in ScopeLists : RequireAnyScope(scopes)

Spec == Init /\ [][Next]_vars
-----------------------------------------------------------------------------
(* The reference meaning of a scope string. *)

Permissions(s) ==
  IF ~Parses(s) THEN {}
  ELSE {<<s[1], s[2]>>} \X
       (IF Identifier(s) = Wildcard THEN Identifiers \cup {Wildcard}
        ELSE {Identifier(s)})

PermissionsOf(S) == UNION {Permissions(s) : s \in S}

\* The variables hold lists of known scope strings.
TypeOK ==
  /\ line \in Seq(ScopeLists)
  /\ Len(line) \in 1..MaxHops
  /\ opened \subseteq ScopeStrings

\* Scopes can never expand: no holder, however far down the line, is
\* permitted anything the ceiling does not permit (scope.go, val_mw.go).
NeverExpands ==
  \A n \in 1..Len(line) : PermissionsOf(line[n]) \subseteq PermissionsOf(line[1])

\* An endpoint opens for the last holder only if the ceiling at the top of
\* the line could have opened it too; a malformed scope opens nothing.
OpenedByCeiling ==
  \A scope \in opened :
    /\ Parses(scope)
    /\ Permissions(scope) \subseteq PermissionsOf(line[1])

\* ScopeIsSubset is exactly containment of meanings on lists that parse:
\* it refuses nothing that is contained and admits nothing that is not.
\* (Identifiers holds at least one identifier no scope string names.)
SubsetIsContainment ==
  \A requested \in ScopeLists :
    (\A s \in requested : Parses(s)) =>
      (ScopeIsSubset(requested, Last)
        <=> PermissionsOf(requested) \subseteq PermissionsOf(Last))
=============================================================================
