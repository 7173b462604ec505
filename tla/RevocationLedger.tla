-------------------------- MODULE RevocationLedger --------------------------
(***************************************************************************)
(* What the revocation service promises, without memory, database or       *)
(* restarts: an entry, once acknowledged, is in force for ever.            *)
(***************************************************************************)
CONSTANT Entries

VARIABLE ledger

Init == ledger = {}

Acknowledge(e) == ledger' = ledger \cup {e}

Next == \E e \in Entries : Acknowledge(e)

Spec == Init /\ [][Next]_ledger
=============================================================================
