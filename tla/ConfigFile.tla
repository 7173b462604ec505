----------------------------- MODULE ConfigFile -----------------------------
(***************************************************************************)
(* The config files a broker takes its admin secret from, and `awrit init` *)
(* which writes them (internal/cfg/configfile.go, cmd/awrit/init_cmd.go).  *)
(* A run of init generates a secret, opens the file, writes it, and tells  *)
(* the operator the secret:                                                *)
(*                                                                         *)
(*   idle -> opened -> written -> told        or  -> failed                *)
(*                                                                         *)
(* A secret is known by the run that generated it.  Production mode stores *)
(* its bcrypt hash, which accepts the same secret.                         *)
(***************************************************************************)
EXTENDS Naturals, Sequences

CONSTANTS
  Locations,   \* configLocations: paths, the first that is usable is read
  Handwritten, \* secrets an operator may have put into a file by hand
  Inits        \* bound: runs of awrit init

VARIABLES
  config,   \* of each path: [kind, private, secret]
  run,      \* of each run of init: [step, at]
  void      \* history: runs whose secret the operator cannot count on

configVars == <<config, run, void>>

Paths == {Locations[n] : n \in DOMAIN Locations}

\* No ADMIN_SECRET line: the file is empty or cut off before it.
NoSecret == "none"
Secrets == Inits \cup {NoSecret} \cup Handwritten

Nowhere == "nowhere"

Absent == [kind |-> "absent", private |-> FALSE, secret |-> NoSecret]
Link == [kind |-> "link", private |-> FALSE, secret |-> NoSecret]
Regular(private, secret) == [kind |-> "file", private |-> private, secret |-> secret]

Steps == {"idle", "opened", "written", "told", "failed"}
InProgress(i) == run[i].step \in {"opened", "written"}

ConfigTypeOK ==
  /\ config \in [Paths -> {Absent, Link} \cup [kind : {"file"}, private : BOOLEAN, secret : Secrets]]
  /\ run \in [Inits -> [step : Steps, at : Paths \cup {Nowhere}]]
  /\ void \subseteq Inits

\* What an operator may have left at a path by hand.
Leftovers == {Absent, Link} \cup {Regular(p, s) : p \in BOOLEAN, s \in Handwritten}

ConfigInit ==
  /\ config \in [Paths -> Leftovers]
  /\ run \in [Inits -> [step : {"idle", "failed"}, at : {Nowhere}]]
  /\ void = {}
-----------------------------------------------------------------------------
\* loadConfigFileAt returns the path: not a symbolic link, there, and nobody
\* but its owner may touch it.
Usable(l) == config[l].kind = "file" /\ config[l].private

\* Runs at l that a run which now truncates the file takes the secret from,
\* and those which may yet write over it.
Overtaken(l) == {i \in Inits : run[i].at = l}
MayOverwrite(l) == \E i \in Inits : run[i].at = l /\ run[i].step = "opened"

\* A mutant: an existing file is opened although --force is not given.
OpenAnyConfig(i, l, force) ==
  /\ run[i].step = "idle"
  /\ config[l].kind # "link"
  /\ config' = [config EXCEPT ![l] =
                  Regular(config[l].kind = "absent" \/ config[l].private, NoSecret)]
  /\ run' = [run EXCEPT ![i] = [step |-> "opened", at |-> l]]
  /\ void' = IF force THEN void \cup Overtaken(l) ELSE void

\* runInit and WriteConfigFile up to OpenFile.  A file that was there keeps
\* its permissions.
OpenConfig(i, l, force) ==
  /\ run[i].step = "idle"
  /\ config[l].kind # "link"
  /\ force \/ config[l].kind = "absent"
  /\ config' = [config EXCEPT ![l] =
                  Regular(config[l].kind = "absent" \/ config[l].private, NoSecret)]
  /\ run' = [run EXCEPT ![i] = [step |-> "opened", at |-> l]]
  /\ void' = void \cup Overtaken(l) \cup (IF MayOverwrite(l) THEN {i} ELSE {})

RefuseInit(i, l, force) ==
  /\ run[i].step = "idle"
  /\ config[l].kind = "link" \/ (~force /\ config[l].kind = "file")
  /\ run' = [run EXCEPT ![i].step = "failed"]
  /\ UNCHANGED <<config, void>>

\* WriteString.  The content of another run that is longer leaves its tail
\* behind, a line without "=" that the loader skips.
WriteConfig(i) ==
  /\ run[i].step = "opened"
  /\ config' = [config EXCEPT ![run[i].at].secret = i]
  /\ run' = [run EXCEPT ![i].step = "written"]
  /\ UNCHANGED void

\* The operator reads the secret on the terminal.
Tell(i) ==
  /\ run[i].step = "written"
  /\ run' = [run EXCEPT ![i].step = "told"]
  /\ UNCHANGED <<config, void>>

\* The run is killed, or fails to write.
InitDies(i) ==
  /\ InProgress(i)
  /\ run' = [run EXCEPT ![i].step = "failed"]
  /\ UNCHANGED <<config, void>>

\* A power failure: nothing syncs a config file, so what init wrote may be
\* gone, or cut off.
ConfigPowerFailure ==
  \E lost \in SUBSET {l \in Paths : config[l].kind = "file" /\ config[l].secret \notin Handwritten} :
    /\ \E rest \in [lost -> BOOLEAN] :
         config' = [l \in Paths |->
           IF l \notin lost THEN config[l]
           ELSE IF rest[l] THEN [config[l] EXCEPT !.secret = NoSecret] ELSE Absent]
    /\ run' = [i \in Inits |->
         IF InProgress(i) THEN [run[i] EXCEPT !.step = "failed"] ELSE run[i]]
    /\ void' = void \cup {i \in Inits : run[i].at \in lost}
-----------------------------------------------------------------------------
\* Secrets the operator was told and has a right to count on.
Promised == {i \in Inits : run[i].step = "told"} \ void

\* Runs of init on one path do not take each other's secret away: what the
\* operator was told is what the file has, unless a later run was forced, two
\* forced runs overlapped, or a power failure came before the disk was written
\* (configfile.go:117, init_cmd.go:101).
PromisedSecretKept ==
  \A i \in Promised : config[run[i].at].kind = "file" /\ config[run[i].at].secret = i
=============================================================================
