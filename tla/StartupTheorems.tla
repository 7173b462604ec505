-------------------------- MODULE StartupTheorems --------------------------
(***************************************************************************)
(* Proofs about Startup, for any number of brokers, config locations, runs *)
(* of init, keys, crashes and power failures.                              *)
(*                                                                         *)
(* An invariant for each thing that brokers share.  A run of init that is  *)
(* not void has its path to itself (PathHeld).  A key that a broker makes  *)
(* or has read is in the file, or retired, and no two brokers make the     *)
(* same key (KeyHeld).  What a broker is past creating in the database is  *)
(* there (SchemaHeld).  On the first rests a fourth: what a broker has     *)
(* heeded of the secrets the operator was told (SecretInv).                *)
(***************************************************************************)
EXTENDS Startup, TLAPS

\* A run that has opened its file and whose secret may still be counted on
\* finds the file as it left it, and nobody else about to write to it.
PathHeld ==
  \A i \in Inits \ void : run[i].step \in {"opened", "written", "told"} =>
    /\ run[i].at \in Paths
    /\ config[run[i].at].kind = "file"
    /\ run[i].step \in {"written", "told"} => config[run[i].at].secret = i
    /\ \A j \in Inits \ {i} : run[j].step = "opened" => run[j].at # run[i].at

\* A run on its way has a file to write to.
FileThere ==
  \A i \in Inits : InProgress(i) => run[i].at \in Paths /\ config[run[i].at].kind = "file"

ConfigInv == ConfigTypeOK /\ FileThere /\ PathHeld

LEMMA InitConfigInv == ConfigInit => ConfigInv
BY DEF ConfigInit, ConfigInv, ConfigTypeOK, FileThere, InProgress, PathHeld, Leftovers, Absent, Link, Regular, Secrets,
   Steps

LEMMA OpenConfigKeeps ==
  ASSUME ConfigInv, NEW i \in Inits, NEW l \in Paths, NEW force \in BOOLEAN,
         OpenConfig(i, l, force)
  PROVE  ConfigInv'
<1>1. /\ run'[i] = [step |-> "opened", at |-> l] /\ run[i].step = "idle"
      /\ \A j \in Inits \ {i} : run'[j] = run[j]
      /\ config'[l].kind = "file"
      /\ \A p \in Paths \ {l} : config'[p] = config[p]
      /\ void' = void \cup Overtaken(l) \cup (IF MayOverwrite(l) THEN {i} ELSE {})
  BY DEF OpenConfig, Regular, ConfigInv, ConfigTypeOK
<1>2. ConfigTypeOK'
  <2>1. config' \in [Paths -> {Absent, Link} \cup [kind : {"file"}, private : BOOLEAN, secret : Secrets]]
    <3>1. (config[l].kind = "absent" \/ config[l].private) \in BOOLEAN
      BY DEF ConfigInv, ConfigTypeOK, Absent, Link
    <3>2. Regular(config[l].kind = "absent" \/ config[l].private, NoSecret)
            \in [kind : {"file"}, private : BOOLEAN, secret : Secrets]
      BY <3>1 DEF Regular, Secrets
    <3> QED
      BY <3>2 DEF OpenConfig, ConfigInv, ConfigTypeOK
  <2>2. run' \in [Inits -> [step : Steps, at : Paths \cup {Nowhere}]]
    BY DEF OpenConfig, ConfigInv, ConfigTypeOK, Steps
  <2>3. void' \subseteq Inits
    BY <1>1 DEF Overtaken, ConfigInv, ConfigTypeOK
  <2> QED
    BY <2>1, <2>2, <2>3 DEF ConfigTypeOK
<1>3. PathHeld'
  <2> SUFFICES ASSUME NEW j \in Inits \ void', run'[j].step \in {"opened", "written", "told"}
               PROVE  /\ run'[j].at \in Paths
                      /\ config'[run'[j].at].kind = "file"
                      /\ run'[j].step \in {"written", "told"} => config'[run'[j].at].secret = j
                      /\ \A k \in Inits \ {j} : run'[k].step = "opened" => run'[k].at # run'[j].at
    BY DEF PathHeld
  <2>1. CASE j = i
    <3>1. ~MayOverwrite(l)
      BY <1>1, <2>1
    <3> QED
      BY <1>1, <2>1, <3>1 DEF MayOverwrite
  <2>2. CASE j # i
    <3>1. run'[j] = run[j] /\ run[j].at # l /\ j \notin void
      BY <1>1, <2>2 DEF Overtaken
    <3> QED
      BY <1>1, <2>2, <3>1 DEF ConfigInv, PathHeld
  <2> QED
    BY <2>1, <2>2
<1>4. FileThere'
  BY <1>1 DEF FileThere, InProgress, ConfigInv
<1> QED
  BY <1>2, <1>3, <1>4 DEF ConfigInv

LEMMA WriteConfigKeeps == ASSUME ConfigInv, NEW i \in Inits, WriteConfig(i) PROVE ConfigInv'
<1>1. /\ run[i].step = "opened" /\ run'[i].step = "written" /\ run'[i].at = run[i].at
      /\ \A j \in Inits \ {i} : run'[j] = run[j]
      /\ config' = [config EXCEPT ![run[i].at].secret = i] /\ void' = void
      /\ run[i].at \in Paths /\ config[run[i].at].kind = "file"
  BY DEF WriteConfig, ConfigInv, ConfigTypeOK, FileThere, InProgress
<1>2. run' \in [Inits -> [step : Steps, at : Paths \cup {Nowhere}]]
  BY DEF WriteConfig, ConfigInv, ConfigTypeOK, Steps
<1>3. config[run[i].at] \in [kind : {"file"}, private : BOOLEAN, secret : Secrets]
  BY <1>1 DEF ConfigInv, ConfigTypeOK, Absent, Link
<1>4. /\ \A p \in Paths : config'[p].kind = config[p].kind
      /\ \A p \in Paths \ {run[i].at} : config'[p] = config[p]
      /\ config'[run[i].at].secret = i
      /\ config'[run[i].at] \in [kind : {"file"}, private : BOOLEAN, secret : Secrets]
      /\ config' = [p \in Paths |-> config'[p]]
  BY <1>1, <1>3 DEF ConfigInv, ConfigTypeOK, Secrets
<1>5. config' \in [Paths -> {Absent, Link} \cup [kind : {"file"}, private : BOOLEAN, secret : Secrets]]
  BY <1>1, <1>4 DEF ConfigInv, ConfigTypeOK
<1>6. FileThere'
  BY <1>1, <1>4 DEF FileThere, InProgress, ConfigInv
<1>7. PathHeld'
  <2> SUFFICES ASSUME NEW j \in Inits \ void', run'[j].step \in {"opened", "written", "told"}
               PROVE  /\ run'[j].at \in Paths
                      /\ config'[run'[j].at].kind = "file"
                      /\ run'[j].step \in {"written", "told"} => config'[run'[j].at].secret = j
                      /\ \A k \in Inits \ {j} : run'[k].step = "opened" => run'[k].at # run'[j].at
    BY DEF PathHeld
  <2>1. CASE j = i
    BY <1>1, <1>4, <2>1 DEF ConfigInv, PathHeld
  <2>2. CASE j # i
    <3>1. run'[j] = run[j] /\ run[j].at # run[i].at /\ run[j].at \in Paths
      BY <1>1, <2>2 DEF ConfigInv, PathHeld
    <3> QED
      BY <1>1, <1>4, <2>2, <3>1 DEF ConfigInv, PathHeld
  <2> QED
    BY <2>1, <2>2
<1> QED
  BY <1>1, <1>2, <1>5, <1>6, <1>7 DEF ConfigInv, ConfigTypeOK

\* A run that leaves the files alone and does not open one.
LEMMA RunMovesOn ==
  ASSUME ConfigInv, NEW i \in Inits, UNCHANGED <<config, void>>, NEW step \in Steps \ {"opened"},
         run' = [run EXCEPT ![i].step = step],
         step \in {"written", "told"} => run[i].step \in {"written", "told"},
         step = "written" => run[i].step = "written"
  PROVE  ConfigInv'
<1>1. /\ run'[i].step = step /\ run'[i].at = run[i].at
      /\ \A j \in Inits \ {i} : run'[j] = run[j]
      /\ run' \in [Inits -> [step : Steps, at : Paths \cup {Nowhere}]]
  BY DEF ConfigInv, ConfigTypeOK
<1>2. FileThere'
  BY <1>1 DEF ConfigInv, FileThere, InProgress
<1>3. PathHeld'
  BY <1>1 DEF ConfigInv, PathHeld
<1> QED
  BY <1>1, <1>2, <1>3 DEF ConfigInv, ConfigTypeOK

LEMMA ConfigPowerFailureKeeps == ASSUME ConfigInv, ConfigPowerFailure PROVE ConfigInv'
<1>1. PICK lost \in SUBSET {l \in Paths : config[l].kind = "file" /\ config[l].secret \notin Handwritten} :
        /\ \E rest \in [lost -> BOOLEAN] :
             config' = [l \in Paths |->
               IF l \notin lost THEN config[l]
               ELSE IF rest[l] THEN [config[l] EXCEPT !.secret = NoSecret] ELSE Absent]
        /\ run' = [i \in Inits |->
             IF InProgress(i) THEN [run[i] EXCEPT !.step = "failed"] ELSE run[i]]
        /\ void' = void \cup {i \in Inits : run[i].at \in lost}
  BY DEF ConfigPowerFailure
<1>2. /\ \A l \in Paths \ lost : config'[l] = config[l]
      /\ config' \in [Paths -> {Absent, Link} \cup [kind : {"file"}, private : BOOLEAN, secret : Secrets]]
  <2>1. PICK rest \in [lost -> BOOLEAN] :
          config' = [l \in Paths |->
            IF l \notin lost THEN config[l]
            ELSE IF rest[l] THEN [config[l] EXCEPT !.secret = NoSecret] ELSE Absent]
    BY <1>1
  <2>2. \A l \in lost : config[l] \in [kind : {"file"}, private : BOOLEAN, secret : Secrets]
    BY <1>1 DEF ConfigInv, ConfigTypeOK, Absent, Link
  <2>3. \A l \in lost : [config[l] EXCEPT !.secret = NoSecret]
                          \in [kind : {"file"}, private : BOOLEAN, secret : Secrets]
    BY <2>2 DEF Secrets
  <2> QED
    BY <2>1, <2>3 DEF ConfigInv, ConfigTypeOK
<1>3. /\ \A i \in Inits : run'[i].step \notin {"opened", "written"} /\ run'[i].at = run[i].at
      /\ \A i \in Inits : run'[i].step = "told" => run'[i] = run[i]
      /\ run' \in [Inits -> [step : Steps, at : Paths \cup {Nowhere}]]
  BY <1>1 DEF InProgress, Steps, ConfigInv, ConfigTypeOK
<1>4. FileThere'
  BY <1>3 DEF FileThere, InProgress
<1>5. PathHeld'
  <2> SUFFICES ASSUME NEW i \in Inits \ void', run'[i].step = "told"
               PROVE  /\ run'[i].at \in Paths /\ config'[run'[i].at].kind = "file"
                      /\ config'[run'[i].at].secret = i
    BY <1>3 DEF PathHeld
  <2>1. run'[i] = run[i] /\ i \notin void /\ run[i].at \notin lost
    BY <1>1, <1>3
  <2> QED
    BY <1>2, <2>1 DEF ConfigInv, PathHeld
<1> QED
  BY <1>1, <1>2, <1>3, <1>4, <1>5 DEF ConfigInv, ConfigTypeOK

LEMMA ConfigKeeps == ASSUME ConfigInv, [Next]_vars PROVE ConfigInv'
<1>1. CASE UNCHANGED configVars
  BY <1>1 DEF configVars, ConfigInv, ConfigTypeOK, FileThere, InProgress, PathHeld
<1>2. CASE RunInit
  <2>1. PICK i \in Inits :
          \/ \E l \in Paths, force \in BOOLEAN : OpenConfig(i, l, force) \/ RefuseInit(i, l, force)
          \/ WriteConfig(i) \/ Tell(i) \/ InitDies(i)
    BY <1>2 DEF RunInit
  <2>2. ASSUME NEW l \in Paths, NEW force \in BOOLEAN, RefuseInit(i, l, force) PROVE ConfigInv'
    BY <2>2, RunMovesOn DEF RefuseInit, Steps
  <2>3. CASE Tell(i)
    BY <2>3, RunMovesOn DEF Tell, Steps
  <2>4. CASE InitDies(i)
    BY <2>4, RunMovesOn DEF InitDies, Steps
  <2> QED
    BY <2>1, <2>2, <2>3, <2>4, OpenConfigKeeps, WriteConfigKeeps
<1>3. CASE PowerFailure
  BY <1>3, ConfigPowerFailureKeeps DEF PowerFailure
<1>4. ASSUME NEW b \in Brokers, Start(b) \/ Proceed(b) \/ Dies(b) PROVE UNCHANGED configVars
  BY <1>4
  DEF Start, Proceed, Dies, ReadConfig, ReadKeyFile, CreateKeyFile, WriteKey, SyncKey,
      CreateTable, LookForColumn, AddColumn, SkipMigration
<1>5. CASE RotateKey
  BY <1>1, <1>5 DEF RotateKey
<1> QED
  BY <1>1, <1>2, <1>3, <1>4, <1>5 DEF Next, vars

\* What the operator was told by a run of init that nobody overtook is what
\* its file has, whatever runs, crashes and power failures come after.
THEOREM PromisedTheorem == Spec => []PromisedSecretKept
<1>1. Init => ConfigInv
  BY InitConfigInv DEF Init
<1>2. ConfigInv => PromisedSecretKept
  BY DEF ConfigInv, PathHeld, PromisedSecretKept, Promised
<1> QED
  BY <1>1, <1>2, ConfigKeeps, PTL DEF Spec
-----------------------------------------------------------------------------
Making(b) == broker[b].pc \in {"create", "write", "sync"}
PastKey(b) == broker[b].pc \in {"tables", "column", "alter", "serving"}

\* The state is well typed, and main reads the locations and the tables from
\* the first one on.
BrokerTypeOK ==
  /\ TypeOK
  /\ \A b \in Brokers :
       /\ broker[b].next > 0
       /\ broker[b].pc \notin {"config", "tables"} => broker[b].next = 1
       /\ Making(b) => broker[b].made
       /\ broker[b].pc \in {"down", "config", "key"} => ~broker[b].made

\* A key that was made is in the file as far as its maker has got; a key that
\* was read is whole in the file; or the key is retired.
InFile(b) ==
  /\ broker[b].pc = "create" => broker[b].key \notin retired /\ keyfile.key # broker[b].key
  /\ broker[b].pc = "write" /\ broker[b].key \notin retired
       => keyfile = File(broker[b].key, "partial")
  /\ broker[b].pc = "sync" /\ broker[b].key \notin retired
       => keyfile = File(broker[b].key, "written")
  /\ PastKey(b) /\ broker[b].key \notin retired
       => /\ keyfile.key = broker[b].key /\ Parses
          /\ broker[b].made => keyfile.state = "synced"

\* No two brokers make the same key.
MadeOnce ==
  \A a, b \in Brokers : a # b /\ broker[a].made /\ broker[b].made => broker[a].key # broker[b].key

KeyHeld == MadeOnce /\ SignedKeysKept /\ \A b \in Brokers : InFile(b)

\* What main has created is there.
Created(b) ==
  /\ broker[b].pc = "tables" => \A n \in 1..(broker[b].next - 1) : Tables[n] \in schema
  /\ broker[b].pc \in {"column", "alter"} => Old \subseteq schema
  /\ broker[b].pc = "serving" => Old \subseteq schema /\ (Column \in schema \/ broker[b].skipped)

SchemaHeld == \A b \in Brokers : Created(b)

StartInv == BrokerTypeOK /\ KeyHeld /\ SchemaHeld

Record == [pc : Phases, next : Nat, secret : Secrets \cup EnvSecrets,
           from : Paths \cup {Env, Nowhere}, key : Keys \cup {NoKey}, made : BOOLEAN,
           skipped : BOOLEAN, known : SUBSET Inits]

LEMMA DownRecord == Down \in Record
BY DEF Down, Record, Phases, Secrets

LEMMA VeteranRecord ==
  ASSUME NEW s \in EnvSecrets, KeyTypeOK
  PROVE  Veteran(s) \in Record
  /\ Veteran(s).pc = "serving" /\ Veteran(s).next = 1 /\ Veteran(s).made = FALSE
  /\ Veteran(s).key = keyfile.key
<1>1. keyfile.key \in Keys \cup {NoKey}
  BY DEF KeyTypeOK, NoFile
<1>2. s \in Secrets \cup EnvSecrets /\ Env \in Paths \cup {Env, Nowhere} /\ "serving" \in Phases
  BY DEF Phases
<1>3. Veteran(s) \in Record
  BY <1>1, <1>2, DownRecord DEF Veteran, Record
<1>4. /\ Veteran(s).pc = "serving" /\ Veteran(s).next = Down.next
      /\ Veteran(s).made = Down.made /\ Veteran(s).key = keyfile.key
  BY DownRecord DEF Veteran, Record
<1> QED
  BY <1>3, <1>4 DEF Down

LEMMA InitStartInv == Init => StartInv
<1> SUFFICES ASSUME Init PROVE StartInv
  OBVIOUS
<1>1. KeyTypeOK
  BY DEF Init, KeyInit, KeyTypeOK, File
<1>2. ConfigTypeOK
  BY InitConfigInv DEF Init, ConfigInv
<1>3. ASSUME NEW b \in Brokers
      PROVE  /\ broker[b] \in Record /\ broker[b].next = 1 /\ ~broker[b].made
             /\ \/ broker[b].pc = "down"
                \/ broker[b].pc = "serving" /\ keyfile # NoFile /\ Column \in schema
                   /\ broker[b].key = keyfile.key
  <2>1. broker[b] = Down \/ broker[b] \in Veterans
    BY DEF Init
  <2>2. CASE broker[b] = Down
    BY <2>2, DownRecord DEF Down
  <2>3. CASE broker[b] \in Veterans
    BY <2>3, <1>1, VeteranRecord DEF Veterans
  <2> QED
    BY <2>1, <2>2, <2>3
<1>4. Len(Locations) \in Nat /\ Len(Tables) = 3
  BY StartupAssumption DEF Tables
<1>5. schema \subseteq Old \cup {Column} /\ (Column \in schema => schema = Old \cup {Column})
      /\ failures \in 0..Failures
  BY DEF Init, Old, Column
<1>6. broker \in [Brokers -> Record]
  BY <1>3 DEF Init
<1>7. keyfile # NoFile => keyfile.key \in Keys /\ Parses /\ signed = {keyfile.key}
  BY DEF Init, KeyInit, Parses, File
<1>8. BrokerTypeOK
  BY <1>1, <1>2, <1>3, <1>5, <1>6, <1>7 DEF BrokerTypeOK, TypeOK, Record, Making
<1>9. KeyHeld
  <2>1. MadeOnce
    BY <1>3 DEF MadeOnce
  <2>2. SignedKeysKept
    BY <1>7 DEF SignedKeysKept, Init, KeyInit, NoFile, File
  <2>3. ASSUME NEW b \in Brokers PROVE InFile(b)
    BY <1>3, <1>7 DEF InFile, PastKey
  <2> QED
    BY <2>1, <2>2, <2>3 DEF KeyHeld
<1>10. SchemaHeld
  BY <1>3, <1>5 DEF SchemaHeld, Created
<1> QED
  BY <1>8, <1>9, <1>10 DEF StartInv
-----------------------------------------------------------------------------
\* What BrokerTypeOK asks of one broker beyond its type.
InPhase(r) ==
  /\ r.next > 0
  /\ r.pc \notin {"config", "tables"} => r.next = 1
  /\ r.pc = "config" => r.next <= Len(Locations)
  /\ r.pc = "tables" => r.next <= Len(Tables)
  /\ r.pc \in {"create", "write", "sync"} => r.made
  /\ r.pc \in {"down", "config", "key"} => ~r.made
  /\ r.pc \notin {"down", "config", "key"} => r.key \in Keys

\* A step of one broker b, which leads to r.
LEMMA BrokerStep ==
  ASSUME StartInv, ConfigTypeOK', KeyTypeOK', NEW b \in Brokers, NEW r \in Record,
         broker' = [broker EXCEPT ![b] = r], InPhase(r),
         schema \subseteq schema', schema' \subseteq Old \cup {Column}, failures' \in 0..Failures,
         MadeOnce', SignedKeysKept', \A a \in Brokers : InFile(a)', Created(b)'
  PROVE  StartInv'
<1>1. broker \in [Brokers -> Record]
  BY DEF StartInv, BrokerTypeOK, TypeOK, Record
<1>2. broker' \in [Brokers -> Record] /\ broker'[b] = r
      /\ \A a \in Brokers \ {b} : broker'[a] = broker[a]
  BY <1>1
<1>3. BrokerTypeOK'
  <2>1. ASSUME NEW a \in Brokers PROVE InPhase(broker'[a])
    <3>1. CASE a = b
      BY <1>2, <3>1
    <3>2. CASE a # b
      BY <1>2, <3>2 DEF StartInv, BrokerTypeOK, TypeOK, InPhase, Making
    <3> QED
      BY <3>1, <3>2
  <2> QED
    BY <1>2, <2>1 DEF BrokerTypeOK, TypeOK, Record, InPhase, Making
<1>4. SchemaHeld'
  <2>1. ASSUME NEW a \in Brokers PROVE Created(a)'
    <3>1. CASE a = b
      BY <3>1
    <3>2. CASE a # b
      BY <1>2, <3>2 DEF StartInv, SchemaHeld, Created
    <3> QED
      BY <3>1, <3>2
  <2> QED
    BY <2>1 DEF SchemaHeld
<1> QED
  BY <1>3, <1>4 DEF StartInv, KeyHeld

\* A step of one broker that leaves the key file alone.
LEMMA BrokerMoves ==
  ASSUME StartInv, ConfigTypeOK', UNCHANGED keyVars, NEW b \in Brokers, NEW r \in Record,
         broker' = [broker EXCEPT ![b] = r], InPhase(r),
         schema \subseteq schema', schema' \subseteq Old \cup {Column}, failures' \in 0..Failures,
         \A a \in Brokers \ {b} : r.made /\ broker[a].made => r.key # broker[a].key,
         InFile(b)', Created(b)'
  PROVE  StartInv'
<1>1. broker \in [Brokers -> Record]
  BY DEF StartInv, BrokerTypeOK, TypeOK, Record
<1>2. broker'[b] = r /\ \A a \in Brokers \ {b} : broker'[a] = broker[a]
  BY <1>1
<1>3. KeyTypeOK' /\ SignedKeysKept'
  BY DEF StartInv, BrokerTypeOK, TypeOK, KeyTypeOK, keyVars, KeyHeld, SignedKeysKept, Parses
<1>4. MadeOnce'
  BY <1>2 DEF MadeOnce, StartInv, KeyHeld
<1>5. ASSUME NEW a \in Brokers PROVE InFile(a)'
  <2>1. CASE a = b
    BY <2>1
  <2>2. CASE a # b
    BY <1>2, <2>2 DEF StartInv, KeyHeld, InFile, PastKey, Parses, keyVars
  <2> QED
    BY <2>1, <2>2
<1> QED
  BY <1>3, <1>4, <1>5, BrokerStep

LEMMA BrokerKnown ==
  ASSUME StartInv, NEW b \in Brokers
  PROVE  /\ broker \in [Brokers -> Record] /\ broker[b] \in Record /\ InPhase(broker[b])
         /\ schema \subseteq Old \cup {Column} /\ failures \in 0..Failures
         /\ ConfigTypeOK /\ KeyTypeOK
BY DEF StartInv, BrokerTypeOK, TypeOK, Record, InPhase, Making

LEMMA ExitKeeps ==
  ASSUME StartInv, ConfigTypeOK', UNCHANGED <<keyVars, schema>>, failures' \in 0..Failures,
         NEW b \in Brokers, Exit(b)
  PROVE  StartInv'
<1>1. InPhase(Down)
  BY DEF InPhase, Down
<1>2. broker'[b] = Down
  BY BrokerKnown DEF Exit
<1>3. InFile(b)' /\ Created(b)'
  BY <1>2 DEF InFile, PastKey, Created, Down
<1> QED
  BY <1>1, <1>3, BrokerKnown, DownRecord, BrokerMoves DEF Exit, Down

LEMMA StartKeeps == ASSUME StartInv, NEW b \in Brokers, Start(b) PROVE StartInv'
<1> DEFINE r == [broker[b] EXCEPT !.pc = "config", !.known = Promised]
<1>1. broker' = [broker EXCEPT ![b] = r]
  BY BrokerKnown DEF Start
<1>2. r \in Record
  BY BrokerKnown DEF Record, Phases, Promised
<1>3. /\ r.pc = "config" /\ r.next = broker[b].next /\ r.made = broker[b].made
      /\ broker[b].pc = "down"
  BY BrokerKnown DEF Record, Start, In
<1>4. InPhase(r) /\ ~r.made
  BY <1>3, BrokerKnown, StartupAssumption DEF InPhase
<1>5. InFile(b)' /\ Created(b)'
  BY <1>1, <1>3, BrokerKnown DEF InFile, PastKey, Created
<1>6. ConfigTypeOK'
  BY BrokerKnown DEF Start, configVars, ConfigTypeOK, Absent, Link
<1> QED
  BY <1>1, <1>2, <1>4, <1>5, <1>6, BrokerKnown, BrokerMoves DEF Start

LEMMA DiesKeeps == ASSUME StartInv, NEW b \in Brokers, Dies(b) PROVE StartInv'
<1>1. failures' \in 0..Failures
  BY BrokerKnown, StartupAssumption DEF Dies
<1>2. ConfigTypeOK'
  BY BrokerKnown DEF Dies, configVars, ConfigTypeOK, Absent, Link
<1> QED
  BY <1>1, <1>2, ExitKeeps DEF Dies

LEMMA LocationKnown ==
  ASSUME ConfigTypeOK, NEW n \in 1..Len(Locations)
  PROVE  /\ Locations[n] \in Paths
         /\ config[Locations[n]].kind = "file" => config[Locations[n]].secret \in Secrets
<1>1. Locations[n] \in Paths
  BY StartupAssumption DEF Paths
<1> QED
  BY <1>1 DEF ConfigTypeOK, Absent, Link

LEMMA LoadedKeeps ==
  ASSUME StartInv, ConfigTypeOK', UNCHANGED <<keyVars, schema, failures>>,
         NEW b \in Brokers, broker[b].pc = "config",
         NEW secret \in Secrets, NEW from \in Paths \cup {Nowhere}, Loaded(b, secret, from)
  PROVE  StartInv'
<1>1. PICK env \in EnvSecrets :
        LET chosen == IF env # NoSecret THEN env ELSE secret IN
          IF chosen \in Denylist THEN Exit(b)
          ELSE broker' = [broker EXCEPT ![b].pc = "key", ![b].next = 1, ![b].secret = chosen,
                                        ![b].from = IF env # NoSecret THEN Env ELSE from]
  BY DEF Loaded
<1> DEFINE chosen == IF env # NoSecret THEN env ELSE secret
           place == IF env # NoSecret THEN Env ELSE from
           r == [broker[b] EXCEPT !.pc = "key", !.next = 1, !.secret = chosen, !.from = place]
<1>2. CASE Exit(b)
  BY <1>2, BrokerKnown, ExitKeeps
<1>3. CASE ~Exit(b)
  <2>1. broker' = [broker EXCEPT ![b] = r]
    BY <1>1, <1>3, BrokerKnown
  <2>2. chosen \in Secrets \cup EnvSecrets /\ place \in Paths \cup {Env, Nowhere}
    OBVIOUS
  <2>3. r \in Record
    BY <2>2, BrokerKnown DEF Record, Phases
  <2>4. r.pc = "key" /\ r.next = 1 /\ r.made = broker[b].made /\ ~broker[b].made
    BY BrokerKnown DEF Record, InPhase
  <2>5. InPhase(r)
    BY <2>4 DEF InPhase
  <2>6. InFile(b)' /\ Created(b)'
    BY <2>1, <2>4, BrokerKnown DEF InFile, PastKey, Created
  <2> QED
    BY <2>1, <2>3, <2>4, <2>5, <2>6, BrokerKnown, BrokerMoves
<1> QED
  BY <1>2, <1>3

LEMMA ReadConfigKeeps == ASSUME StartInv, NEW b \in Brokers, ReadConfig(b) PROVE StartInv'
<1> DEFINE n == broker[b].next
<1>1. /\ broker[b].pc = "config" /\ n \in 1..Len(Locations)
      /\ UNCHANGED <<keyVars, schema, failures>>
  BY BrokerKnown, StartupAssumption DEF ReadConfig, In, InPhase, Record
<1>2. ConfigTypeOK'
  BY BrokerKnown DEF ReadConfig, configVars, ConfigTypeOK, Absent, Link
<1>3. CASE Usable(Locations[n]) /\ Loaded(b, config[Locations[n]].secret, Locations[n])
  <2>1. Locations[n] \in Paths \cup {Nowhere} /\ config[Locations[n]].secret \in Secrets
    BY <1>1, <1>3, BrokerKnown, LocationKnown DEF Usable
  <2> QED
    BY <1>1, <1>2, <1>3, <2>1, LoadedKeeps
<1>4. CASE Loaded(b, NoSecret, Nowhere)
  BY <1>1, <1>2, <1>4, LoadedKeeps DEF Secrets
<1>5. CASE n < Len(Locations) /\ broker' = [broker EXCEPT ![b].next = @ + 1]
  <2> DEFINE r == [broker[b] EXCEPT !.next = @ + 1]
  <2>1. broker' = [broker EXCEPT ![b] = r] /\ r.next = n + 1 /\ n + 1 \in Nat
    BY <1>1, <1>5, BrokerKnown, StartupAssumption DEF Record
  <2>2. r \in Record /\ r.pc = "config" /\ r.made = broker[b].made
    BY <1>1, <2>1, BrokerKnown DEF Record
  <2>3. InPhase(r) /\ ~r.made
    BY <1>1, <1>5, <2>1, <2>2, BrokerKnown, StartupAssumption DEF InPhase
  <2>4. InFile(b)' /\ Created(b)'
    BY <2>1, <2>2, BrokerKnown DEF InFile, PastKey, Created
  <2> QED
    BY <1>1, <1>2, <2>1, <2>2, <2>3, <2>4, BrokerKnown, BrokerMoves
<1> QED
  BY <1>3, <1>4, <1>5 DEF ReadConfig

\* A step of main that is over with the configuration.
LEMMA ConfigLeft ==
  ASSUME StartInv, UNCHANGED configVars PROVE ConfigTypeOK'
BY DEF StartInv, BrokerTypeOK, TypeOK, configVars, ConfigTypeOK, Absent, Link

LEMMA ReadKeyFileKeeps == ASSUME StartInv, NEW b \in Brokers, ReadKeyFile(b) PROVE StartInv'
<1>1. /\ broker[b].pc = "key" /\ ConfigTypeOK' /\ broker[b].next = 1 /\ ~broker[b].made
      /\ UNCHANGED <<keyVars, schema, failures>>
  BY ConfigLeft, BrokerKnown DEF ReadKeyFile, In, InPhase
<1>2. CASE Parses /\ broker' = [broker EXCEPT ![b].pc = "tables", ![b].key = keyfile.key]
  <2> DEFINE r == [broker[b] EXCEPT !.pc = "tables", !.key = keyfile.key]
  <2>1. keyfile.key \in Keys
    BY <1>2, BrokerKnown DEF KeyTypeOK, Parses, NoFile
  <2>2. broker' = [broker EXCEPT ![b] = r]
    BY <1>2, BrokerKnown
  <2>3. /\ r \in Record /\ r.pc = "tables" /\ r.key = keyfile.key /\ ~r.made /\ r.next = 1
    BY <1>1, <2>1, BrokerKnown DEF Record, Phases
  <2>4. InPhase(r)
    BY <2>1, <2>3 DEF InPhase, Tables
  <2>5. InFile(b)' /\ Created(b)'
    BY <1>1, <1>2, <2>2, <2>3, BrokerKnown DEF InFile, PastKey, Created, keyVars, Parses
  <2> QED
    BY <1>1, <2>2, <2>3, <2>4, <2>5, BrokerKnown, BrokerMoves
<1>3. CASE Exit(b)
  BY <1>1, <1>3, BrokerKnown, ExitKeeps
<1>4. ASSUME NEW k \in Keys, Fresh(k),
             broker' = [broker EXCEPT ![b].pc = "create", ![b].key = k, ![b].made = TRUE]
      PROVE  StartInv'
  <2> DEFINE r == [broker[b] EXCEPT !.pc = "create", !.key = k, !.made = TRUE]
  <2>1. /\ k \notin retired /\ keyfile.key # k
        /\ \A a \in Brokers : broker[a].key # k
    BY <1>4 DEF Fresh, Unused
  <2>2. broker' = [broker EXCEPT ![b] = r]
    BY <1>4, BrokerKnown
  <2>3. r \in Record /\ r.pc = "create" /\ r.key = k /\ r.made = TRUE /\ r.next = 1
    BY <1>1, BrokerKnown DEF Record, Phases
  <2>4. InPhase(r)
    BY <2>3 DEF InPhase
  <2>5. InFile(b)' /\ Created(b)'
    BY <1>1, <2>1, <2>2, <2>3, BrokerKnown DEF InFile, PastKey, Created, keyVars
  <2> QED
    BY <1>1, <2>1, <2>2, <2>3, <2>4, <2>5, BrokerKnown, BrokerMoves
<1> QED
  BY <1>2, <1>3, <1>4 DEF ReadKeyFile

\* A broker that goes on to the next phase, and what that leaves as it was.
LEMMA GotoKnown ==
  ASSUME StartInv, NEW b \in Brokers, NEW phase \in Phases, Goto(b, phase),
         broker[b].pc \notin {"config", "tables"}
  PROVE  LET r == [broker[b] EXCEPT !.pc = phase] IN
         /\ r \in Record /\ broker' = [broker EXCEPT ![b] = r]
         /\ r.pc = phase /\ r.key = broker[b].key /\ r.made = broker[b].made /\ r.next = 1
         /\ broker'[b] = r /\ \A a \in Brokers \ {b} : broker'[a] = broker[a]
BY BrokerKnown DEF Goto, Record, InPhase

LEMMA SameMakers ==
  ASSUME StartInv,
         \A a \in Brokers : broker'[a].key = broker[a].key /\ broker'[a].made = broker[a].made
  PROVE  MadeOnce'
BY DEF StartInv, KeyHeld, MadeOnce

LEMMA CreateKeyFileKeeps == ASSUME StartInv, NEW b \in Brokers, CreateKeyFile(b) PROVE StartInv'
<1>1. /\ broker[b].pc = "create" /\ ConfigTypeOK' /\ broker[b].made /\ broker[b].key \in Keys
      /\ UNCHANGED <<schema, failures>>
  BY ConfigLeft, BrokerKnown DEF CreateKeyFile, In, InPhase
<1>2. CASE Exit(b) /\ UNCHANGED keyVars
  BY <1>1, <1>2, BrokerKnown, ExitKeeps
<1>3. CASE CreateFile(broker[b].key) /\ Goto(b, "write")
  <2> DEFINE r == [broker[b] EXCEPT !.pc = "write"]
  <2>1. /\ r \in Record /\ broker' = [broker EXCEPT ![b] = r]
        /\ r.pc = "write" /\ r.key = broker[b].key /\ r.made = broker[b].made /\ r.next = 1
        /\ broker'[b] = r /\ \A a \in Brokers \ {b} : broker'[a] = broker[a]
    BY <1>1, <1>3, GotoKnown DEF Phases
  <2>2. /\ keyfile = NoFile /\ keyfile' = File(broker[b].key, "partial")
        /\ UNCHANGED <<signed, retired>>
    BY <1>3 DEF CreateFile
  <2>3. KeyTypeOK'
    BY <1>1, <2>2, BrokerKnown DEF KeyTypeOK, File
  <2>4. MadeOnce'
    BY <2>1, SameMakers
  <2>5. SignedKeysKept'
    BY <2>2 DEF StartInv, KeyHeld, SignedKeysKept, Parses, NoFile
  <2>6. ASSUME NEW a \in Brokers PROVE InFile(a)'
    <3>1. CASE a = b
      BY <2>1, <2>2, <3>1 DEF InFile, PastKey
    <3>2. CASE a # b
      <4>1. broker'[a] = broker[a] /\ (broker[a].made => broker[a].key # broker[b].key)
        BY <1>1, <2>1, <3>2 DEF StartInv, KeyHeld, MadeOnce
      <4>2. broker[a].pc = "create" => broker[a].made
        BY BrokerKnown DEF InPhase
      <4> QED
        BY <2>2, <4>1, <4>2
        DEF StartInv, KeyHeld, InFile, PastKey, NoFile, File, Parses
    <3> QED
      BY <3>1, <3>2
  <2>7. InPhase(r)
    BY <1>1, <2>1 DEF InPhase
  <2>8. Created(b)'
    BY <2>1 DEF Created
  <2> QED
    BY <1>1, <2>1, <2>3, <2>4, <2>5, <2>6, <2>7, <2>8, BrokerKnown, BrokerStep
<1> QED
  BY <1>2, <1>3 DEF CreateKeyFile

\* The maker of a key writes or syncs its file.
LEMMA FlushKeeps ==
  ASSUME StartInv, UNCHANGED <<configVars, schema, failures>>,
         NEW b \in Brokers, NEW state \in {"written", "synced"}, NEW phase \in {"sync", "tables"},
         Flush(broker[b].key, state), Goto(b, phase),
         \/ state = "written" /\ phase = "sync" /\ broker[b].pc = "write"
         \/ state = "synced" /\ phase = "tables" /\ broker[b].pc = "sync"
  PROVE  StartInv'
<1>1. /\ ConfigTypeOK' /\ broker[b].made /\ broker[b].key \in Keys
      /\ KeyTypeOK /\ InFile(b) /\ MadeOnce
  BY ConfigLeft, BrokerKnown DEF InPhase, StartInv, KeyHeld
<1> DEFINE r == [broker[b] EXCEPT !.pc = phase]
<1>2. /\ r \in Record /\ broker' = [broker EXCEPT ![b] = r]
      /\ r.pc = phase /\ r.key = broker[b].key /\ r.made = broker[b].made /\ r.next = 1
      /\ broker'[b] = r /\ \A a \in Brokers \ {b} : broker'[a] = broker[a]
  <2>1. phase \in Phases
    BY DEF Phases
  <2> QED
    BY <2>1, GotoKnown
<1>3. /\ keyfile' = IF keyfile.key = broker[b].key THEN File(broker[b].key, state) ELSE keyfile
      /\ UNCHANGED <<signed, retired>>
  BY DEF Flush
<1>4. KeyTypeOK'
  BY <1>1, <1>3 DEF KeyTypeOK, File
<1>5. MadeOnce'
  BY <1>2, SameMakers
<1>6. keyfile'.key = keyfile.key /\ (Parses => Parses')
  BY <1>3 DEF Parses, File
<1>7. SignedKeysKept'
  BY <1>3, <1>6 DEF StartInv, KeyHeld, SignedKeysKept
<1>8. ASSUME NEW a \in Brokers PROVE InFile(a)'
  <2>1. CASE a = b
    <3>1. broker[b].key \notin retired => keyfile.key = broker[b].key
      BY <1>1 DEF InFile, File
    <3>2. broker[b].key \notin retired' => keyfile' = File(broker[b].key, state)
      BY <1>3, <3>1
    <3>3. broker'[b].pc = phase /\ broker'[b].key = broker[b].key
      BY <1>2
    <3> QED
      BY <2>1, <3>2, <3>3 DEF InFile, PastKey, File, Parses
  <2>2. CASE a # b
    <3>1. broker'[a] = broker[a] /\ (broker[a].made => broker[a].key # broker[b].key)
      BY <1>1, <1>2, <2>2 DEF MadeOnce
    <3>2. CASE broker[a].made
      <4>1. keyfile.key = broker[a].key => keyfile' = keyfile
        BY <1>3, <3>1, <3>2
      <4>2. InFile(a)
        BY DEF StartInv, KeyHeld
      <4>3. keyfile' = keyfile \/ keyfile.key # broker[a].key
        BY <4>1
      <4> QED
        BY <1>3, <1>6, <3>1, <4>2, <4>3 DEF InFile, PastKey, File, Parses
    <3>3. CASE ~broker[a].made
      <4>1. broker[a].pc \notin {"create", "write", "sync"}
        BY <3>3, BrokerKnown DEF InPhase
      <4>2. InFile(a)
        BY DEF StartInv, KeyHeld
      <4> QED
        BY <1>3, <1>6, <3>1, <3>3, <4>1, <4>2 DEF InFile, PastKey
    <3> QED
      BY <3>2, <3>3
  <2> QED
    BY <2>1, <2>2
<1>9. InPhase(r)
  BY <1>1, <1>2 DEF InPhase, Tables
<1>10. Created(b)'
  BY <1>2 DEF Created
<1> QED
  BY <1>1, <1>2, <1>4, <1>5, <1>7, <1>8, <1>9, <1>10, BrokerKnown, BrokerStep

LEMMA CreateTableKeeps == ASSUME StartInv, NEW b \in Brokers, CreateTable(b) PROVE StartInv'
<1> DEFINE n == broker[b].next
           t == Tables[n]
<1>1. /\ broker[b].pc = "tables" /\ n \in 1..3 /\ ConfigTypeOK' /\ broker[b].key \in Keys
      /\ UNCHANGED <<keyVars, failures>> /\ InFile(b)
      /\ \A m \in 1..(n - 1) : Tables[m] \in schema
  BY ConfigLeft, BrokerKnown
  DEF CreateTable, In, InPhase, Record, Tables, StartInv, KeyHeld, SchemaHeld, Created
<1>2. t \in Old /\ Len(Tables) = 3
  BY <1>1 DEF Tables, Old
<1>3. schema \subseteq schema' /\ schema' \subseteq Old \cup {Column} /\ t \in schema'
  BY <1>2, BrokerKnown DEF CreateTable
<1>4. \A m \in 1..n : Tables[m] \in schema'
  BY <1>1, <1>3
<1>5. \A a \in Brokers \ {b} : broker[b].made /\ broker[a].made => broker[b].key # broker[a].key
  BY DEF StartInv, KeyHeld, MadeOnce
<1>6. CASE n < 3 /\ broker' = [broker EXCEPT ![b].next = @ + 1]
  <2> DEFINE r == [broker[b] EXCEPT !.next = n + 1]
  <2>1. /\ broker' = [broker EXCEPT ![b] = r] /\ r \in Record
        /\ r.pc = "tables" /\ r.next = n + 1 /\ r.key = broker[b].key /\ r.made = broker[b].made
    BY <1>1, <1>6, BrokerKnown DEF Record
  <2>2. InPhase(r)
    BY <1>1, <1>2, <1>6, <2>1 DEF InPhase
  <2>3. InFile(b)' /\ Created(b)'
    BY <1>1, <1>4, <2>1, BrokerKnown DEF InFile, PastKey, Parses, keyVars, Created
  <2>4. /\ \A a \in Brokers \ {b} : r.made /\ broker[a].made => r.key # broker[a].key
        /\ failures' \in 0..Failures /\ UNCHANGED keyVars
    BY <1>1, <1>5, <2>1, BrokerKnown
  <2> HIDE DEF r
  <2> QED
    BY <1>1, <1>3, <2>1, <2>2, <2>3, <2>4, BrokerMoves
<1>7. CASE n = 3 /\ broker' = [broker EXCEPT ![b].next = 1, ![b].pc = "column"]
  <2> DEFINE r == [broker[b] EXCEPT !.next = 1, !.pc = "column"]
  <2>1. /\ broker' = [broker EXCEPT ![b] = r] /\ r \in Record
        /\ r.pc = "column" /\ r.next = 1 /\ r.key = broker[b].key /\ r.made = broker[b].made
    BY <1>1, <1>7, BrokerKnown DEF Record, Phases
  <2>2. InPhase(r)
    BY <1>1, <2>1 DEF InPhase
  <2>3. Old \subseteq schema'
    BY <1>4, <1>7 DEF Tables, Old
  <2>4. InFile(b)' /\ Created(b)'
    BY <1>1, <2>1, <2>3, BrokerKnown DEF InFile, PastKey, Parses, keyVars, Created
  <2>5. /\ \A a \in Brokers \ {b} : r.made /\ broker[a].made => r.key # broker[a].key
        /\ failures' \in 0..Failures /\ UNCHANGED keyVars
    BY <1>1, <1>5, <2>1, BrokerKnown
  <2> HIDE DEF r
  <2> QED
    BY <1>1, <1>3, <2>1, <2>2, <2>4, <2>5, BrokerMoves
<1> QED
  BY <1>1, <1>2, <1>6, <1>7 DEF CreateTable

\* A broker starts to sign: with the column there, or without as it skipped its
\* migration.
LEMMA SignKeeps ==
  ASSUME StartInv, UNCHANGED configVars, failures' \in 0..Failures,
         NEW b \in Brokers, broker[b].pc \in {"column", "alter"},
         NEW r \in Record, broker' = [broker EXCEPT ![b] = r],
         r.pc = "serving", r.key = broker[b].key, r.made = broker[b].made, r.next = 1,
         Sign(broker[b].key),
         schema \subseteq schema', schema' \subseteq schema \cup {Column},
         Column \in schema' \/ r.skipped
  PROVE  StartInv'
<1>1. ConfigTypeOK' /\ broker[b].key \in Keys /\ KeyTypeOK /\ InFile(b)
      /\ schema \subseteq Old \cup {Column}
  BY ConfigLeft, BrokerKnown DEF InPhase, StartInv, KeyHeld
<1>2. broker'[b] = r /\ \A a \in Brokers \ {b} : broker'[a] = broker[a]
  BY BrokerKnown DEF StartInv, BrokerTypeOK, TypeOK
<1>3. signed' = signed \cup {broker[b].key} /\ UNCHANGED <<keyfile, retired>>
  BY DEF Sign
<1>4. KeyTypeOK' /\ MadeOnce'
  BY <1>1, <1>2, <1>3, SameMakers DEF KeyTypeOK
<1>5. SignedKeysKept'
  BY <1>1, <1>3 DEF StartInv, KeyHeld, SignedKeysKept, InFile, PastKey, Parses
<1>6. ASSUME NEW a \in Brokers PROVE InFile(a)'
  <2>1. InFile(a)
    BY DEF StartInv, KeyHeld
  <2>2. CASE a = b
    BY <1>2, <1>3, <2>1, <2>2 DEF InFile, PastKey, Parses
  <2>3. CASE a # b
    BY <1>2, <1>3, <2>1, <2>3 DEF InFile, PastKey, Parses
  <2> QED
    BY <2>2, <2>3
<1>7. InPhase(r)
  BY <1>1 DEF InPhase
<1>8. Created(b)'
  BY <1>2 DEF Created, StartInv, SchemaHeld
<1>9. schema' \subseteq Old \cup {Column}
  BY <1>1
<1> QED
  BY <1>1, <1>2, <1>4, <1>5, <1>6, <1>7, <1>8, <1>9, BrokerKnown, BrokerStep

\* The column is there at the end of the migration.
LEMMA MigratedKeeps ==
  ASSUME StartInv, UNCHANGED <<configVars, failures>>,
         NEW b \in Brokers, broker[b].pc \in {"column", "alter"},
         Goto(b, "serving"), Sign(broker[b].key),
         schema' = schema \cup {Column}
  PROVE  StartInv'
<1> DEFINE r == [broker[b] EXCEPT !.pc = "serving"]
<1>1. broker[b].next = 1
  BY BrokerKnown DEF InPhase
<1>2. /\ r \in Record /\ broker' = [broker EXCEPT ![b] = r]
      /\ r.pc = "serving" /\ r.key = broker[b].key /\ r.made = broker[b].made /\ r.next = 1
  BY <1>1, GotoKnown DEF Phases
<1>3. failures' \in 0..Failures
  BY BrokerKnown DEF StartInv, BrokerTypeOK, TypeOK
<1> HIDE DEF r
<1> QED
  BY <1>2, <1>3, SignKeeps

\* A broker whose migration met an error.
LEMMA SkipKeeps ==
  ASSUME StartInv, UNCHANGED configVars,
         NEW b \in Brokers, broker[b].pc \in {"column", "alter"}, SkipMigration(b)
  PROVE  StartInv'
<1> DEFINE r == [broker[b] EXCEPT !.pc = "serving", !.skipped = TRUE]
<1>1. broker[b].next = 1 /\ broker[b] \in Record /\ DOMAIN broker = Brokers
      /\ failures \in 0..Failures
  BY BrokerKnown DEF InPhase, StartInv, BrokerTypeOK, TypeOK
<1>2. broker' = [broker EXCEPT ![b] = r]
  BY <1>1 DEF SkipMigration
<1>3. r \in Record
  BY <1>1 DEF Record, Phases
<1>4. /\ r.pc = "serving" /\ r.key = broker[b].key /\ r.made = broker[b].made /\ r.next = 1
      /\ r.skipped
  BY <1>1 DEF Record
<1>5. failures' \in 0..Failures /\ Sign(broker[b].key) /\ schema' = schema
  BY <1>1, StartupAssumption DEF SkipMigration
<1> HIDE DEF r
<1> QED
  BY <1>2, <1>3, <1>4, <1>5, SignKeeps

LEMMA LookForColumnKeeps == ASSUME StartInv, NEW b \in Brokers, LookForColumn(b) PROVE StartInv'
<1>1. CASE /\ Column \in schema /\ Goto(b, "serving") /\ Sign(broker[b].key)
           /\ UNCHANGED <<schema, failures>>
  BY <1>1, MigratedKeeps DEF LookForColumn, In
<1>2. CASE Goto(b, "alter") /\ UNCHANGED <<keyVars, schema, failures>>
  <2> DEFINE r == [broker[b] EXCEPT !.pc = "alter"]
  <2>1. broker[b].pc = "column" /\ Goto(b, "alter") /\ UNCHANGED <<configVars, keyVars, schema, failures>>
    BY <1>2 DEF LookForColumn, In
  <2>2. /\ r \in Record /\ broker' = [broker EXCEPT ![b] = r]
        /\ r.pc = "alter" /\ r.key = broker[b].key /\ r.made = broker[b].made /\ r.next = 1
        /\ broker'[b] = r
    BY <2>1, GotoKnown DEF Phases
  <2>3. broker[b].key \in Keys /\ ConfigTypeOK'
    BY <2>1, BrokerKnown, ConfigLeft DEF InPhase
  <2>4. InPhase(r)
    BY <2>2, <2>3 DEF InPhase
  <2>5. InFile(b)' /\ Created(b)'
    BY <2>1, <2>2 DEF StartInv, KeyHeld, SchemaHeld, InFile, PastKey, Parses, keyVars, Created
  <2>6. \A a \in Brokers \ {b} : r.made /\ broker[a].made => r.key # broker[a].key
    BY <2>2 DEF StartInv, KeyHeld, MadeOnce
  <2> QED
    BY <2>1, <2>2, <2>3, <2>4, <2>5, <2>6, BrokerKnown, BrokerMoves
<1>3. CASE SkipMigration(b)
  BY <1>3, SkipKeeps DEF LookForColumn, In
<1> QED
  BY <1>1, <1>2, <1>3 DEF LookForColumn

LEMMA AddColumnKeeps == ASSUME StartInv, NEW b \in Brokers, AddColumn(b) PROVE StartInv'
<1>1. CASE /\ schema' = schema \cup {Column} /\ Goto(b, "serving") /\ Sign(broker[b].key)
           /\ UNCHANGED failures
  BY <1>1, MigratedKeeps DEF AddColumn, In
<1>2. CASE SkipMigration(b)
  BY <1>2, SkipKeeps DEF AddColumn, In
<1> QED
  BY <1>1, <1>2 DEF AddColumn

LEMMA ProceedKeeps == ASSUME StartInv, NEW b \in Brokers, Proceed(b) PROVE StartInv'
<1>1. CASE WriteKey(b)
  BY <1>1, FlushKeeps DEF WriteKey, In
<1>2. CASE SyncKey(b)
  BY <1>2, FlushKeeps DEF SyncKey, In
<1> QED
  BY <1>1, <1>2, ReadConfigKeeps, ReadKeyFileKeeps, CreateKeyFileKeeps, CreateTableKeeps,
     LookForColumnKeeps, AddColumnKeeps
  DEF Proceed

\* Steps that leave the brokers, the key file and the schema alone.
LEMMA BrokersLeft ==
  ASSUME StartInv, ConfigTypeOK', UNCHANGED <<keyVars, broker, schema, failures>> PROVE StartInv'
<1>1. BrokerTypeOK'
  BY DEF StartInv, BrokerTypeOK, TypeOK, KeyTypeOK, keyVars, Making
<1>2. KeyHeld'
  BY DEF StartInv, KeyHeld, MadeOnce, SignedKeysKept, InFile, PastKey, Parses, keyVars
<1>3. SchemaHeld'
  BY DEF StartInv, SchemaHeld, Created
<1> QED
  BY <1>1, <1>2, <1>3 DEF StartInv

LEMMA RotateKeyKeeps == ASSUME StartInv, RotateKey PROVE StartInv'
<1>1. /\ keyfile # NoFile /\ keyfile' = NoFile /\ retired' = retired \cup {keyfile.key}
      /\ UNCHANGED <<signed, broker, schema, failures>> /\ ConfigTypeOK'
  BY ConfigLeft DEF RotateKey, DeleteKeyFile
<1>2. BrokerTypeOK'
  BY <1>1 DEF StartInv, BrokerTypeOK, TypeOK, KeyTypeOK, Making
<1>3. SignedKeysKept'
  BY <1>1 DEF StartInv, KeyHeld, SignedKeysKept
<1>4. MadeOnce'
  BY <1>1 DEF StartInv, KeyHeld, MadeOnce
<1>5. ASSUME NEW b \in Brokers PROVE InFile(b)'
  <2>1. InFile(b)
    BY DEF StartInv, KeyHeld
  <2>2. broker[b].pc = "create" => broker[b].key # NoKey
    BY BrokerKnown, KeyStoreAssumption DEF InPhase, NoKey
  <2>3. keyfile'.key = NoKey
    BY <1>1 DEF NoFile
  <2> QED
    BY <1>1, <2>1, <2>2, <2>3 DEF InFile, PastKey, File
<1>6. SchemaHeld'
  BY <1>1 DEF StartInv, SchemaHeld, Created
<1> QED
  BY <1>2, <1>3, <1>4, <1>5, <1>6 DEF StartInv, KeyHeld

LEMMA PowerFailureKeeps == ASSUME StartInv, ConfigTypeOK', PowerFailure PROVE StartInv'
<1>1. /\ broker' = [b \in Brokers |-> Down] /\ UNCHANGED <<schema, signed>>
      /\ failures' \in 0..Failures /\ KeyPowerFailure
  BY StartupAssumption DEF PowerFailure, KeyPowerFailure, StartInv, BrokerTypeOK, TypeOK
<1>2. /\ KeyTypeOK
      /\ KeyTypeOK' /\ SignedKeysKept'
  <2>1. CASE UNCHANGED <<keyfile, retired>>
    BY <1>1, <2>1 DEF StartInv, BrokerTypeOK, TypeOK, KeyTypeOK, KeyHeld, SignedKeysKept, Parses
  <2>2. CASE /\ keyfile.state \in {"partial", "written"}
             /\ keyfile' \in {NoFile, File(keyfile.key, "partial")}
             /\ retired' = retired \cup {keyfile.key}
    <3>1. KeyTypeOK /\ keyfile.key \in Keys
      BY <2>2 DEF StartInv, BrokerTypeOK, TypeOK, KeyTypeOK, NoFile
    <3>2. SignedKeysKept'
      BY <1>1, <2>2 DEF StartInv, KeyHeld, SignedKeysKept
    <3> QED
      BY <1>1, <2>2, <3>1, <3>2 DEF KeyTypeOK, File
  <2> QED
    BY <1>1, <2>1, <2>2 DEF KeyPowerFailure
<1>3. BrokerTypeOK'
  <2>1. \A b \in Brokers : broker'[b] = Down /\ Down.next = 1 /\ Down.pc = "down" /\ ~Down.made
    BY <1>1 DEF Down
  <2>2. broker' \in [Brokers -> Record]
    BY <1>1, DownRecord
  <2>3. schema' \subseteq Old \cup {Column}
    BY <1>1 DEF StartInv, BrokerTypeOK, TypeOK
  <2> QED
    BY <1>1, <1>2, <2>1, <2>2, <2>3 DEF BrokerTypeOK, TypeOK, Record, Making
<1>4. \A b \in Brokers : broker'[b].pc = "down" /\ ~broker'[b].made
  BY <1>1 DEF Down
<1>5. KeyHeld' /\ SchemaHeld'
  BY <1>2, <1>4 DEF KeyHeld, MadeOnce, InFile, PastKey, SchemaHeld, Created
<1> QED
  BY <1>3, <1>5 DEF StartInv

LEMMA StartInvKeeps == ASSUME StartInv, ConfigInv', [Next]_vars PROVE StartInv'
<1>1. ConfigTypeOK'
  BY DEF ConfigInv
<1>2. CASE UNCHANGED vars
  BY <1>1, <1>2, BrokersLeft DEF vars
<1>3. CASE RunInit
  BY <1>1, <1>3, BrokersLeft DEF RunInit
<1> QED
  BY <1>1, <1>2, <1>3, StartKeeps, ProceedKeeps, DiesKeeps, RotateKeyKeeps, PowerFailureKeeps DEF Next

LEMMA StartInvariant == Spec => []StartInv
<1>1. Init => ConfigInv /\ StartInv
  BY InitConfigInv, InitStartInv DEF Init
<1>2. ConfigInv /\ StartInv /\ [Next]_vars => (ConfigInv /\ StartInv)'
  BY ConfigKeeps, StartInvKeeps
<1> QED
  BY <1>1, <1>2, PTL DEF Spec

\* The state is well typed, and a broker past the key phase holds a key.
THEOREM StartTypeCorrect == Spec => []TypeOK
<1>1. StartInv => TypeOK
  BY DEF StartInv, BrokerTypeOK
<1> QED
  BY <1>1, StartInvariant, PTL

\* The key that brokers sign with stays the key in the file, however many
\* start at once, crash, or lose power.
THEOREM KeyTheorem == Spec => []SignedKeysKept
<1>1. StartInv => SignedKeysKept
  BY DEF StartInv, KeyHeld
<1> QED
  BY <1>1, StartInvariant, PTL

\* A broker that serves has its own key on the disk and every table in the
\* database, and the column too unless an error stopped its own migration,
\* however many brokers migrate the database at once.
THEOREM ReadyTheorem == Spec => []ReadyWhenServing
<1>1. StartInv => ReadyWhenServing
  <2> SUFFICES ASSUME StartInv, NEW b \in Brokers, broker[b].pc = "serving"
               PROVE  /\ broker[b].made /\ broker[b].key \notin retired
                           => keyfile = File(broker[b].key, "synced")
                      /\ Old \subseteq schema /\ (Column \in schema \/ broker[b].skipped)
    BY DEF ReadyWhenServing, Serving, In
  <2>1. KeyTypeOK /\ InFile(b) /\ Created(b)
    BY DEF StartInv, BrokerTypeOK, TypeOK, KeyHeld, SchemaHeld
  <2>2. keyfile.state = "synced" => keyfile = File(keyfile.key, "synced")
    BY <2>1 DEF KeyTypeOK, NoFile, File
  <2> QED
    BY <2>1, <2>2 DEF InFile, PastKey, Created
<1> QED
  BY <1>1, StartInvariant, PTL
-----------------------------------------------------------------------------
(* The secret a broker takes. *)

\* While a broker looks through the locations it has not passed by the private
\* file of a run; afterwards it has the secret of that run, or one from a
\* location before.
Heeded(b, i) ==
  config[run[i].at].private =>
    /\ broker[b].pc = "config" =>
         \A n \in DOMAIN Locations : Locations[n] = run[i].at => broker[b].next <= n
    /\ broker[b].pc \notin {"down", "config"} /\ broker[b].from # Env =>
         /\ \A n \in DOMAIN Locations :
              Locations[n] = run[i].at => broker[b].from \in {Locations[m] : m \in 1..n}
         /\ broker[b].from = run[i].at => broker[b].secret = i

\* What a broker heeds is what the operator was told before it was started.
PromiseHeld(b) ==
  \A i \in broker[b].known \ void : i \in Inits /\ run[i].step = "told" /\ Heeded(b, i)

SecretInv == \A b \in Brokers : PromiseHeld(b)

\* What the operator was told stays, until it is void.
LEMMA ToldUndisturbed ==
  ASSUME ConfigInv, [Next]_vars, NEW i \in Inits \ void', run[i].step = "told"
  PROVE  /\ i \notin void /\ run'[i] = run[i]
         /\ config'[run[i].at] = config[run[i].at]
<1>1. CASE UNCHANGED configVars
  BY <1>1 DEF configVars
<1>2. ASSUME NEW j \in Inits, NEW l \in Paths, NEW force \in BOOLEAN, OpenConfig(j, l, force)
      PROVE  /\ i \notin void /\ run'[i] = run[i] /\ config'[run[i].at] = config[run[i].at]
  <2>1. i # j /\ i \notin void /\ run[i].at # l
    BY <1>2 DEF OpenConfig, Overtaken
  <2> QED
    BY <1>2, <2>1 DEF OpenConfig, ConfigInv, ConfigTypeOK, PathHeld
<1>3. ASSUME NEW j \in Inits, WriteConfig(j)
      PROVE  /\ i \notin void /\ run'[i] = run[i] /\ config'[run[i].at] = config[run[i].at]
  <2>1. i # j /\ i \notin void /\ run[j].step = "opened"
    BY <1>3 DEF WriteConfig
  <2>2. run[i].at # run[j].at /\ run[i].at \in Paths
    BY <2>1 DEF ConfigInv, PathHeld
  <2> QED
    BY <1>3, <2>1, <2>2 DEF WriteConfig, ConfigInv, ConfigTypeOK
<1>4. ASSUME NEW j \in Inits,
             \/ \E l \in Paths, force \in BOOLEAN : RefuseInit(j, l, force)
             \/ Tell(j) \/ InitDies(j)
      PROVE  /\ i \notin void /\ run'[i] = run[i] /\ config'[run[i].at] = config[run[i].at]
  BY <1>4 DEF RefuseInit, Tell, InitDies, InProgress, ConfigInv, ConfigTypeOK
<1>5. CASE PowerFailure
  <2>1. PICK lost \in SUBSET {l \in Paths : config[l].kind = "file" /\ config[l].secret \notin Handwritten} :
          /\ \E rest \in [lost -> BOOLEAN] :
               config' = [l \in Paths |->
                 IF l \notin lost THEN config[l]
                 ELSE IF rest[l] THEN [config[l] EXCEPT !.secret = NoSecret] ELSE Absent]
          /\ run' = [j \in Inits |->
               IF InProgress(j) THEN [run[j] EXCEPT !.step = "failed"] ELSE run[j]]
          /\ void' = void \cup {j \in Inits : run[j].at \in lost}
    BY <1>5 DEF PowerFailure, ConfigPowerFailure
  <2>2. i \notin void /\ run[i].at \notin lost
    BY <2>1
  <2>3. run[i].at \in Paths
    BY <2>2 DEF ConfigInv, PathHeld
  <2> QED
    BY <2>1, <2>2, <2>3 DEF InProgress
<1>6. ASSUME NEW b \in Brokers, Start(b) \/ Proceed(b) \/ Dies(b) PROVE UNCHANGED configVars
  BY <1>6
  DEF Start, Proceed, Dies, ReadConfig, ReadKeyFile, CreateKeyFile, WriteKey, SyncKey,
      CreateTable, LookForColumn, AddColumn, SkipMigration
<1> QED
  BY <1>1, <1>2, <1>3, <1>4, <1>5, <1>6 DEF Next, RunInit, RotateKey, vars

LEMMA VoidStays == ASSUME [Next]_vars PROVE void \subseteq void'
<1>1. CASE UNCHANGED configVars
  BY <1>1 DEF configVars
<1>2. CASE RunInit
  BY <1>2 DEF RunInit, OpenConfig, RefuseInit, WriteConfig, Tell, InitDies
<1>3. CASE PowerFailure
  BY <1>3 DEF PowerFailure, ConfigPowerFailure
<1>4. ASSUME NEW b \in Brokers, Start(b) \/ Proceed(b) \/ Dies(b) PROVE UNCHANGED configVars
  BY <1>4
  DEF Start, Proceed, Dies, ReadConfig, ReadKeyFile, CreateKeyFile, WriteKey, SyncKey,
      CreateTable, LookForColumn, AddColumn, SkipMigration
<1> QED
  BY <1>1, <1>2, <1>3, <1>4 DEF Next, RotateKey, vars

\* What became of the configuration of a broker that has one.
ConfigKept(b) ==
  /\ broker[b].pc \notin {"down", "config"}
  /\ UNCHANGED <<broker[b].known, broker[b].from, broker[b].secret>>
  /\ broker'[b].pc \notin {"down", "config"}

LEMMA BrokerConfigSteps ==
  ASSUME StartInv, [Next]_vars, NEW b \in Brokers
  PROVE  \/ broker'[b].known = {}
         \/ broker'[b] = broker[b]
         \/ ConfigKept(b)
         \/ Start(b) \/ ReadConfig(b)
<1>1. CASE UNCHANGED broker
  BY <1>1
<1>2. ASSUME NEW a \in Brokers, a # b, Start(a) \/ Proceed(a) \/ Dies(a)
      PROVE  broker'[b] = broker[b]
  BY <1>2
  DEF Start, Proceed, Dies, ReadConfig, Loaded, ReadKeyFile, CreateKeyFile, WriteKey, SyncKey,
      CreateTable, LookForColumn, AddColumn, SkipMigration, Exit, Goto, StartInv, BrokerTypeOK, TypeOK
<1>3. ASSUME Exit(b) PROVE broker'[b].known = {}
  BY <1>3 DEF Exit, Down, StartInv, BrokerTypeOK, TypeOK
<1>4. ASSUME NEW phase \in Phases \ {"down", "config"}, broker[b].pc \notin {"down", "config"},
             Goto(b, phase)
      PROVE  ConfigKept(b)
  BY <1>4 DEF ConfigKept, Goto, StartInv, BrokerTypeOK, TypeOK
<1>5. CASE ReadKeyFile(b)
  <2>1. CASE Exit(b)
    BY <1>3, <2>1
  <2>0. broker[b].pc = "key" /\ broker[b] \in Record /\ DOMAIN broker = Brokers
    BY <1>5, BrokerKnown DEF ReadKeyFile, In, StartInv, BrokerTypeOK, TypeOK
  <2>2. CASE broker' = [broker EXCEPT ![b].pc = "tables", ![b].key = keyfile.key]
    <3>1. broker'[b] = [broker[b] EXCEPT !.pc = "tables", !.key = keyfile.key]
      BY <2>0, <2>2
    <3> QED
      BY <2>0, <3>1 DEF ConfigKept, Record
  <2>3. ASSUME NEW k, broker' = [broker EXCEPT ![b].pc = "create", ![b].key = k, ![b].made = TRUE]
        PROVE  ConfigKept(b)
    <3>1. broker'[b] = [broker[b] EXCEPT !.pc = "create", !.key = k, !.made = TRUE]
      BY <2>0, <2>3
    <3> QED
      BY <2>0, <3>1 DEF ConfigKept, Record
  <2> QED
    BY <1>5, <2>1, <2>2, <2>3 DEF ReadKeyFile
<1>6. CASE CreateKeyFile(b) \/ WriteKey(b) \/ SyncKey(b) \/ LookForColumn(b) \/ AddColumn(b)
  <2>1. ASSUME broker[b].pc \notin {"down", "config"}, SkipMigration(b) PROVE ConfigKept(b)
    <3>1. broker'[b] = [broker[b] EXCEPT !.pc = "serving", !.skipped = TRUE]
      BY <2>1 DEF SkipMigration, StartInv, BrokerTypeOK, TypeOK
    <3>2. broker[b] \in Record
      BY BrokerKnown
    <3> QED
      BY <2>1, <3>1, <3>2 DEF ConfigKept, Record
  <2> QED
    BY <1>3, <1>4, <1>6, <2>1
    DEF CreateKeyFile, WriteKey, SyncKey, LookForColumn, AddColumn, In, Phases
<1>7. CASE CreateTable(b)
  BY <1>7 DEF CreateTable, In, ConfigKept, StartInv, BrokerTypeOK, TypeOK
<1>8. CASE PowerFailure
  BY <1>8 DEF PowerFailure, Down
<1>9. CASE Dies(b)
  BY <1>3, <1>9 DEF Dies
<1> QED
  BY <1>1, <1>2, <1>5, <1>6, <1>7, <1>8, <1>9 DEF Next, Proceed, RunInit, RotateKey, vars

\* A turn of loadConfigFile's loop goes past no file that was promised.
LEMMA ReadConfigSecret ==
  ASSUME StartInv, NEW b \in Brokers, ReadConfig(b), PromiseHeld(b),
         NEW i \in broker'[b].known \ void,
         i \in broker[b].known => config[run[i].at].kind = "file" /\ config[run[i].at].secret = i
  PROVE  i \in broker[b].known /\ Heeded(b, i)'
<1>0. UNCHANGED configVars
  BY DEF ReadConfig
<1> DEFINE p == broker[b].next
<1>1. /\ broker[b].pc = "config" /\ p \in 1..Len(Locations)
      /\ broker[b] \in Record /\ DOMAIN broker = Brokers
      /\ Len(Locations) \in Nat /\ DOMAIN Locations = 1..Len(Locations)
  BY BrokerKnown, StartupAssumption DEF ReadConfig, In, InPhase, Record, StartInv, BrokerTypeOK, TypeOK
<1>2. ~Exit(b)
  <2>1. Exit(b) => broker'[b].known = {}
    BY <1>1 DEF Exit, Down
  <2> QED
    BY <2>1
<1>3. ASSUME NEW secret, NEW from, Loaded(b, secret, from)
      PROVE  /\ broker'[b].known = broker[b].known
             /\ broker'[b].pc = "key"
             /\ \/ broker'[b].from = Env
                \/ broker'[b].from = from /\ broker'[b].secret = secret /\ secret \notin Denylist
  <2>1. PICK env \in EnvSecrets :
          LET chosen == IF env # NoSecret THEN env ELSE secret IN
            /\ chosen \notin Denylist
            /\ broker'[b] = [broker[b] EXCEPT !.pc = "key", !.next = 1, !.secret = chosen,
                                              !.from = IF env # NoSecret THEN Env ELSE from]
    BY <1>1, <1>2, <1>3 DEF Loaded
  <2> QED
    BY <1>1, <2>1 DEF Record
<1>4. CASE Usable(Locations[p]) /\ Loaded(b, config[Locations[p]].secret, Locations[p])
  <2>1. /\ broker'[b].known = broker[b].known /\ broker'[b].pc = "key"
        /\ \/ broker'[b].from = Env
           \/ broker'[b].from = Locations[p] /\ broker'[b].secret = config[Locations[p]].secret
    BY <1>3, <1>4
  <2>2. ASSUME config[run[i].at].private, NEW n \in DOMAIN Locations, Locations[n] = run[i].at
        PROVE  Locations[p] \in {Locations[m] : m \in 1..n}
    <3>1. p <= n
      BY <1>1, <2>1, <2>2 DEF PromiseHeld, Heeded
    <3> QED
      BY <1>1, <3>1
  <2> QED
    BY <1>0, <2>1, <2>2 DEF Heeded, configVars
<1>5. CASE Loaded(b, NoSecret, Nowhere)
  BY <1>0, <1>3, <1>5, StartupAssumption DEF Heeded, configVars
<1>6. CASE ~Usable(Locations[p]) /\ broker' = [broker EXCEPT ![b].next = @ + 1]
  <2>1. broker'[b] = [broker[b] EXCEPT !.next = p + 1]
    BY <1>1, <1>6
  <2>2. broker'[b].next = p + 1 /\ broker'[b].known = broker[b].known /\ broker'[b].pc = "config"
    BY <1>1, <2>1 DEF Record
  <2>3. ASSUME config[run[i].at].private, NEW n \in DOMAIN Locations, Locations[n] = run[i].at
        PROVE  p + 1 <= n
    <3>1. p <= n
      BY <1>1, <2>2, <2>3 DEF PromiseHeld, Heeded
    <3>2. p # n
      BY <1>6, <2>2, <2>3 DEF Usable
    <3> QED
      BY <1>1, <3>1, <3>2
  <2> QED
    BY <1>0, <2>2, <2>3 DEF Heeded, configVars
<1> QED
  BY <1>4, <1>5, <1>6 DEF ReadConfig

LEMMA SecretKeeps ==
  ASSUME ConfigInv, StartInv, SecretInv, [Next]_vars PROVE SecretInv'
<1> SUFFICES ASSUME NEW b \in Brokers, NEW i \in broker'[b].known \ void'
             PROVE  i \in Inits /\ run'[i].step = "told" /\ Heeded(b, i)'
  BY DEF SecretInv, PromiseHeld
<1>1. PromiseHeld(b)
  BY DEF SecretInv
<1>2. ASSUME i \in broker[b].known
      PROVE  /\ i \in Inits \ void /\ run'[i] = run[i] /\ run[i].step = "told"
             /\ config'[run[i].at] = config[run[i].at] /\ Heeded(b, i)
             /\ config[run[i].at].kind = "file" /\ config[run[i].at].secret = i
  <2>1. i \in Inits \ void' /\ run[i].step = "told" /\ Heeded(b, i)
    <3>1. void \subseteq void'
      BY VoidStays
    <3> QED
      BY <1>1, <1>2, <3>1 DEF PromiseHeld
  <2>2. i \notin void /\ run'[i] = run[i] /\ config'[run[i].at] = config[run[i].at]
    BY <2>1, ToldUndisturbed
  <2> QED
    BY <2>1, <2>2 DEF ConfigInv, PathHeld
<1>3. CASE broker'[b] = broker[b] \/ ConfigKept(b)
  BY <1>2, <1>3 DEF Heeded, ConfigKept
<1>4. CASE Start(b)
  <2>1. /\ broker'[b].pc = "config" /\ broker'[b].known = Promised /\ broker'[b].next = 1
        /\ UNCHANGED configVars
    BY <1>4 DEF Start, In, StartInv, BrokerTypeOK, TypeOK
  <2>2. \A n \in DOMAIN Locations : 1 <= n
    BY StartupAssumption
  <2> QED
    BY <2>1, <2>2 DEF Heeded, Promised, configVars
<1>5. CASE ReadConfig(b)
  <2>1. UNCHANGED configVars
    BY <1>5 DEF ReadConfig
  <2>2. i \in broker'[b].known \ void
    BY <2>1 DEF configVars
  <2>3. i \in broker[b].known /\ Heeded(b, i)'
    BY <1>1, <1>2, <1>5, <2>2, ReadConfigSecret
  <2> QED
    BY <1>2, <2>3
<1> QED
  BY <1>3, <1>4, <1>5, BrokerConfigSteps

\* A broker that was started after the operator was told a secret takes it, or
\* one from a location before it, whatever runs of init and power failures come
\* in between.
THEOREM PromisedSecretTaken == Spec => []StartTakesPromisedSecret
<1>1. Init => ConfigInv /\ StartInv
  BY InitConfigInv, InitStartInv DEF Init
<1>2. ConfigInv /\ StartInv /\ [Next]_vars => (ConfigInv /\ StartInv)'
  BY ConfigKeeps, StartInvKeeps
<1>3. Init => SecretInv
  <2> SUFFICES ASSUME Init, NEW b \in Brokers PROVE broker[b].known = {}
    BY DEF SecretInv, PromiseHeld
  <2>1. CASE broker[b] = Down
    BY <2>1 DEF Down
  <2>2. CASE broker[b] \in Veterans
    <3>1. PICK s \in EnvSecrets : broker[b] = Veteran(s)
      BY <2>2 DEF Veterans
    <3> QED
      BY <3>1 DEF Veteran, Down
  <2> QED
    BY <2>1, <2>2 DEF Init
<1>4. SecretInv => StartTakesPromisedSecret
  BY DEF SecretInv, PromiseHeld, Heeded, StartTakesPromisedSecret
<1> QED
  BY <1>1, <1>2, <1>3, <1>4, SecretKeeps, PTL DEF Spec
=============================================================================
