------------------------------ MODULE KeyStore ------------------------------
(***************************************************************************)
(* The signing key file of internal/keystore/keystore.go, as the brokers   *)
(* that share it, its operator and the file system see it.  A file is      *)
(* known by the key its creator is about to write: a descriptor opened     *)
(* before the file was deleted writes to nothing anyone will read.         *)
(*                                                                         *)
(*   absent -> partial -> written -> synced                                *)
(***************************************************************************)
EXTENDS Naturals

CONSTANTS Keys   \* bound: Ed25519 key pairs ever generated, by number

ASSUME KeyStoreAssumption == Keys \subseteq Nat \ {0}

VARIABLES
  keyfile,   \* the file at AA_SIGNING_KEY_PATH: [key, state]
  signed,    \* history: keys that a broker has served with
  retired    \* history: keys deleted by the operator or lost by the disk

keyVars == <<keyfile, signed, retired>>

NoKey == 0
NoFile == [key |-> NoKey, state |-> "absent"]
File(k, state) == [key |-> k, state |-> state]

KeyTypeOK ==
  /\ keyfile \in [key : Keys, state : {"partial", "written", "synced"}] \cup {NoFile}
  /\ signed \subseteq Keys /\ retired \subseteq Keys

\* The first start ever, or the key of an earlier life.
KeyInit ==
  \/ keyfile = NoFile /\ signed = {} /\ retired = {}
  \/ \E k \in Keys :
       /\ keyfile = File(k, "synced") /\ signed = {k}
       /\ retired \in SUBSET (Keys \ {k})
-----------------------------------------------------------------------------
\* parseKey finds a key: the PEM block is there to its end.
Parses == keyfile.state \in {"written", "synced"}

\* A mutant: the file is created without O_EXCL and truncated.
CreateOrTruncate(k) ==
  /\ keyfile' = File(k, "partial")
  /\ UNCHANGED <<signed, retired>>

\* OpenFile with O_EXCL in writeKey.
CreateFile(k) ==
  /\ keyfile = NoFile
  /\ keyfile' = File(k, "partial")
  /\ UNCHANGED <<signed, retired>>

\* Write, then Sync, through the descriptor of the file of key k.
Flush(k, state) ==
  /\ keyfile' = IF keyfile.key = k THEN File(k, state) ELSE keyfile
  /\ UNCHANGED <<signed, retired>>

\* A broker starts to sign with k.
Sign(k) ==
  /\ signed' = signed \cup {k}
  /\ UNCHANGED <<keyfile, retired>>

\* The operator rotates the key: deletes the file, and restarts brokers.
DeleteKeyFile ==
  /\ keyfile # NoFile
  /\ keyfile' = NoFile
  /\ retired' = retired \cup {keyfile.key}
  /\ UNCHANGED signed

\* A power failure: of a file that was not synced, the disk has nothing, a
\* part, or all.
KeyPowerFailure ==
  /\ \/ UNCHANGED <<keyfile, retired>>
     \/ /\ keyfile.state \in {"partial", "written"}
        /\ keyfile' \in {NoFile, File(keyfile.key, "partial")}
        /\ retired' = retired \cup {keyfile.key}
  /\ UNCHANGED signed
=============================================================================
