------------------------------ MODULE Startup -------------------------------
(***************************************************************************)
(* The start of a broker (cmd/broker/main.go) over the config files, the   *)
(* signing key file and the schema of the database: any number of brokers  *)
(* on one machine, started and stopped at any time, and runs of `awrit     *)
(* init` beside them.                                                      *)
(*                                                                         *)
(*   down -> config -> key -> [create -> write -> sync] -> tables          *)
(*        -> column -> [alter] -> serving -> down                          *)
(*                                                                         *)
(* Every refusal of main to go on leads back to down.                      *)
(***************************************************************************)
EXTENDS ConfigFile, KeyStore

CONSTANTS
  Brokers,
  EnvSecrets,   \* values of AA_ADMIN_SECRET; NoSecret if it is not set
  Denylist,     \* secrets that cfg.Load rejects
  Failures      \* bound: crashes, power failures, and errors of a migration

ASSUME StartupAssumption ==
  /\ Locations \in Seq(STRING) /\ Locations # << >>
  /\ NoSecret \in Denylist
  /\ Failures \in Nat

VARIABLES
  broker,    \* of each broker: [pc, next, secret, from, key, made, skipped, known]
  schema,    \* tables of the database, and the column apps.token_ttl
  failures   \* crashes, power failures and errors of a migration so far

vars == <<configVars, keyVars, broker, schema, failures>>

Phases == {"down", "config", "key", "create", "write", "sync",
           "tables", "column", "alter", "serving"}
Tables == <<"audit_events", "revocations", "apps">>
Old == {"audit_events", "revocations", "apps"}
Column == "token_ttl"
Env == "environment"

Down == [pc |-> "down", next |-> 1, secret |-> NoSecret, from |-> Nowhere,
         key |-> NoKey, made |-> FALSE, skipped |-> FALSE, known |-> {}]

\* A broker of an earlier life, with the secret its environment had then.
Veteran(s) == [Down EXCEPT !.pc = "serving", !.secret = s, !.from = Env, !.key = keyfile.key]

Veterans ==
  {Veteran(s) : s \in {t \in EnvSecrets \ Denylist : keyfile # NoFile /\ Column \in schema}}

Init ==
  /\ ConfigInit /\ KeyInit
  \* A new database, one from before apps had a token_ttl, a complete one.
  /\ schema \in {{}, Old, Old \cup {Column}}
  /\ broker \in [Brokers -> {Down} \cup Veterans]
  /\ failures \in 0..Failures
-----------------------------------------------------------------------------
In(b, phase) == broker[b].pc = phase
Goto(b, phase) == broker' = [broker EXCEPT ![b].pc = phase]
Exit(b) == broker' = [broker EXCEPT ![b] = Down]

Start(b) ==
  /\ In(b, "down")
  /\ broker' = [broker EXCEPT ![b].pc = "config", ![b].known = Promised]
  /\ UNCHANGED <<configVars, keyVars, schema, failures>>

\* The end of cfg.Load: the environment comes before the file.
Loaded(b, secret, from) ==
  \E env \in EnvSecrets :
    LET chosen == IF env # NoSecret THEN env ELSE secret IN
      IF chosen \in Denylist THEN Exit(b)
      ELSE broker' = [broker EXCEPT ![b].pc = "key", ![b].next = 1, ![b].secret = chosen,
                                    ![b].from = IF env # NoSecret THEN Env ELSE from]

\* A mutant: the locations in the opposite order.
ReadConfigBackwards(b) ==
  LET l == Locations[Len(Locations) + 1 - broker[b].next] IN
    /\ In(b, "config")
    /\ \/ Usable(l) /\ Loaded(b, config[l].secret, l)
       \/ /\ ~Usable(l)
          /\ IF broker[b].next < Len(Locations)
             THEN broker' = [broker EXCEPT ![b].next = @ + 1]
             ELSE Loaded(b, NoSecret, Nowhere)
    /\ UNCHANGED <<configVars, keyVars, schema, failures>>

\* One turn of loadConfigFile's loop.
ReadConfig(b) ==
  LET l == Locations[broker[b].next] IN
    /\ In(b, "config")
    /\ \/ Usable(l) /\ Loaded(b, config[l].secret, l)
       \/ /\ ~Usable(l)
          /\ IF broker[b].next < Len(Locations)
             THEN broker' = [broker EXCEPT ![b].next = @ + 1]
             ELSE Loaded(b, NoSecret, Nowhere)
    /\ UNCHANGED <<configVars, keyVars, schema, failures>>

\* Key pairs are numbered in the order of their use.
Unused == Keys \ (signed \cup retired \cup {keyfile.key} \cup {broker[b].key : b \in Brokers})
Fresh(k) == k \in Unused /\ \A other \in Unused : k <= other

\* A mutant: the key that was read is not handed on.
ReadKeyFileOnly(b) ==
  /\ In(b, "key") /\ Parses
  /\ Goto(b, "tables")
  /\ UNCHANGED <<configVars, keyVars, schema, failures>>

\* LoadOrGenerate up to writeKey.
ReadKeyFile(b) ==
  /\ In(b, "key")
  /\ \/ /\ Parses
        /\ broker' = [broker EXCEPT ![b].pc = "tables", ![b].key = keyfile.key]
     \/ keyfile.state = "partial" /\ Exit(b)
     \/ /\ keyfile = NoFile
        /\ \E k \in Keys :
             /\ Fresh(k)
             /\ broker' = [broker EXCEPT ![b].pc = "create", ![b].key = k, ![b].made = TRUE]
  /\ UNCHANGED <<configVars, keyVars, schema, failures>>

CreateKeyFile(b) ==
  /\ In(b, "create")
  /\ \/ CreateFile(broker[b].key) /\ Goto(b, "write")
     \/ keyfile # NoFile /\ Exit(b) /\ UNCHANGED keyVars
  /\ UNCHANGED <<configVars, schema, failures>>

\* A mutant: Sync is left out.
WriteOnly(b) ==
  /\ In(b, "write") /\ Flush(broker[b].key, "written") /\ Goto(b, "tables")
  /\ UNCHANGED <<configVars, schema, failures>>

WriteKey(b) ==
  /\ In(b, "write") /\ Flush(broker[b].key, "written") /\ Goto(b, "sync")
  /\ UNCHANGED <<configVars, schema, failures>>

SyncKey(b) ==
  /\ In(b, "sync") /\ Flush(broker[b].key, "synced") /\ Goto(b, "tables")
  /\ UNCHANGED <<configVars, schema, failures>>

\* CREATE TABLE IF NOT EXISTS, one after the other; a new apps table has the
\* token_ttl column.
CreateTable(b) ==
  LET t == Tables[broker[b].next] IN
    /\ In(b, "tables")
    /\ schema' = IF t \in schema THEN schema
                 ELSE schema \cup {t} \cup (IF t = "apps" THEN {Column} ELSE {})
    /\ IF broker[b].next < Len(Tables)
       THEN broker' = [broker EXCEPT ![b].next = @ + 1]
       ELSE broker' = [broker EXCEPT ![b].next = 1, ![b].pc = "column"]
    /\ UNCHANGED <<configVars, keyVars, failures>>

\* A mutant: a table from before the column is fatal.
InsistOnColumn(b) ==
  /\ In(b, "column")
  /\ IF Column \in schema THEN Goto(b, "serving") /\ Sign(broker[b].key)
     ELSE Exit(b) /\ UNCHANGED keyVars
  /\ UNCHANGED <<configVars, schema, failures>>

\* The migration meets an error, which is logged at most: the broker serves.
SkipMigration(b) ==
  /\ failures < Failures /\ failures' = failures + 1
  /\ broker' = [broker EXCEPT ![b].pc = "serving", ![b].skipped = TRUE]
  /\ Sign(broker[b].key)
  /\ UNCHANGED schema

\* migrateAddColumn looks for the column, and gives up if the query fails.
LookForColumn(b) ==
  /\ In(b, "column")
  /\ \/ Column \in schema /\ Goto(b, "serving") /\ Sign(broker[b].key)
        /\ UNCHANGED <<schema, failures>>
     \/ Column \notin schema /\ Goto(b, "alter")
        /\ UNCHANGED <<keyVars, schema, failures>>
     \/ SkipMigration(b)
  /\ UNCHANGED configVars

\* ALTER TABLE, which fails if another broker has added the column since, or
\* on its own, as when another connection has the database locked: it is opened
\* without a busy timeout.
AddColumn(b) ==
  /\ In(b, "alter")
  /\ \/ /\ schema' = schema \cup {Column}
        /\ Goto(b, "serving") /\ Sign(broker[b].key)
        /\ UNCHANGED failures
     \/ SkipMigration(b)
  /\ UNCHANGED configVars

\* The process ends: a crash, an I/O error on the way, a signal.
Dies(b) ==
  /\ failures < Failures /\ failures' = failures + 1
  /\ ~In(b, "down") /\ Exit(b)
  /\ UNCHANGED <<configVars, keyVars, schema>>

PowerFailure ==
  /\ failures < Failures /\ failures' = failures + 1
  /\ broker' = [b \in Brokers |-> Down]
  /\ ConfigPowerFailure /\ KeyPowerFailure
  /\ UNCHANGED schema

Proceed(b) ==
  \/ ReadConfig(b)
  \/ ReadKeyFile(b) \/ CreateKeyFile(b) \/ WriteKey(b) \/ SyncKey(b)
  \/ CreateTable(b) \/ LookForColumn(b) \/ AddColumn(b)

RunInit ==
  /\ \E i \in Inits :
       \/ \E l \in Paths, force \in BOOLEAN : OpenConfig(i, l, force) \/ RefuseInit(i, l, force)
       \/ WriteConfig(i) \/ Tell(i) \/ InitDies(i)
  /\ UNCHANGED <<keyVars, broker, schema, failures>>

RotateKey ==
  /\ DeleteKeyFile
  /\ UNCHANGED <<configVars, broker, schema, failures>>

Next ==
  \/ \E b \in Brokers : Start(b) \/ Proceed(b) \/ Dies(b)
  \/ RunInit
  \/ RotateKey
  \/ PowerFailure

Fairness == \A b \in Brokers : WF_vars(Start(b)) /\ WF_vars(Proceed(b))

Spec == Init /\ [][Next]_vars /\ Fairness

Serving(b) == In(b, "serving")
Position(l) == CHOOSE n \in DOMAIN Locations : Locations[n] = l

\* The state is well typed, and a broker past the key phase holds a key.
TypeOK ==
  /\ ConfigTypeOK /\ KeyTypeOK
  /\ broker \in [Brokers ->
       [pc : Phases, next : Nat, secret : Secrets \cup EnvSecrets,
        from : Paths \cup {Env, Nowhere}, key : Keys \cup {NoKey}, made : BOOLEAN,
        skipped : BOOLEAN, known : SUBSET Inits]]
  /\ \A b \in Brokers :
       /\ broker[b].pc \notin {"down", "config", "key"} => broker[b].key \in Keys
       /\ broker[b].pc = "config" => broker[b].next <= Len(Locations)
       /\ broker[b].pc = "tables" => broker[b].next <= Len(Tables)
  /\ schema \subseteq Old \cup {Column}
  /\ failures \in 0..Failures

\* Brokers sign with one key: a key that some broker has signed with stays the
\* key in the file, through crashes, power failures and brokers that start at
\* once, unless the operator deleted it or a power failure took it before
\* anyone had synced it ("Tokens remain valid across restarts",
\* docs/getting-started-operator.md:224).
SignedKeysKept == \A k \in signed \ retired : Parses /\ keyfile.key = k

\* What main sets up before it serves is there when it serves: a key the
\* broker generated itself is on the disk for good (keystore.go:100), every
\* table is there, and so is the column, whatever other brokers that start at
\* once have done between two of its steps, unless an error stopped its own
\* look for the column or its own ALTER TABLE.
ReadyWhenServing ==
  \A b \in Brokers : Serving(b) =>
    /\ broker[b].made /\ broker[b].key \notin retired
         => keyfile = File(broker[b].key, "synced")
    /\ Old \subseteq schema
    /\ Column \in schema \/ broker[b].skipped

\* A broker that was started after the operator was told a secret takes it, or
\* one from a path that comes before it in the order of the locations: runs of
\* init that crash half way, and whatever lies at the other paths, do not make
\* it fall back to an older secret.  Excepted are a file that was open to others
\* when init was forced on it, which keeps its permissions (configfile.go:122),
\* and AA_ADMIN_SECRET.
StartTakesPromisedSecret ==
  \A b \in Brokers :
    broker[b].pc \notin {"down", "config"} /\ broker[b].from # Env =>
      \A i \in broker[b].known \ void :
        config[run[i].at].private =>
          /\ \A n \in DOMAIN Locations :
               Locations[n] = run[i].at => broker[b].from \in {Locations[m] : m \in 1..n}
          /\ broker[b].from = run[i].at => broker[b].secret = i

\* The first usable file has a secret that cfg.Load accepts.
ConfigGood ==
  \E n \in DOMAIN Locations :
    /\ Usable(Locations[n]) /\ config[Locations[n]].secret \notin Denylist
    /\ \A m \in 1..(n - 1) : ~Usable(Locations[m])

\* The key file is not one that a crash cut short (and, within the bound,
\* there is a key left to generate).
KeyGood == keyfile.state # "partial" /\ (keyfile = NoFile => Unused # {})

\* Brokers that start at once on a new disk may stop each other, in the race
\* for the key file, but if they are started again they all get to serve.
StartsInTheEnd ==
  <>[](ConfigGood /\ KeyGood) => \A b \in Brokers : <>[]Serving(b)

(* What documentation and comments have, and the code does not. *)

\* migrateAddColumn "adds a column to a table if it doesn't already exist"
\* (sql_store.go:383), so a broker that serves has it.
ColumnWhenServing == \A b \in Brokers : Serving(b) => Column \in schema

\* "Atomic file creation with O_EXCL, rejects symlinks, enforces 0600 file"
\* (CHANGELOG.md:341).
InitEnforcesPermissions == \A i \in Promised : config[run[i].at].private

\* A file that cannot be used is fatal (troubleshooting.md:542-557): a broker
\* that runs on a file has found no unusable one before it.
UnusableFileIsFatal ==
  \A b \in Brokers :
    broker[b].pc = "key" /\ broker[b].from # Env =>
      \A n \in 1..(Position(broker[b].from) - 1) : config[Locations[n]].kind # "file"
=============================================================================
