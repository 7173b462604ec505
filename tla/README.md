# AgentWrit in TLA+

AgentWrit is a broker that hands out short-lived, narrowly scoped tokens to
software agents. An operator logs in and registers apps; an app creates launch
tokens within its scope ceiling; an agent redeems a launch token and a nonce
for an identity and a first token; agents renew, release and delegate tokens;
anything can be revoked at four levels; every event is in a hash-chained audit
log. This directory holds TLA+ models of that broker, the TLC runs that check
them on small instances, and the theorems about them that TLAPS proves for
every instance.

The models are read off the Go sources under `src/internal`, `src/cmd/broker`
and `src/cmd/awrit`. `PROJECT.json` maps every definition to the lines it
translates, lists the runs, the mutants that show each property can fail, the
hazards the properties are for, and the theorems.

    tlc -config TokenKillSwitch.cfg MCTokenService.tla     # a run
    tlapm TokenServiceTheorems.tla                         # the proofs of a module

## 1. Inventory

| Component | State | Operations | Modelled in |
|---|---|---|---|
| Scope algebra, `internal/authz/scope.go` | none | `ParseScope`, `scopeCovers`, `ScopeIsSubset` | `Scope`, `Attenuation` |
| Token service, `internal/token` | none of its own: keys and configuration | `Issue`, `Verify`, `Renew` | `TokenService` |
| Bearer middleware, `internal/authz/val_mw.go` | none; claims in the request context | `Wrap`, `RequireScope`, `RequireAnyScope` | `TokenService`, `Attenuation` |
| Revocation, `internal/revoke` | four maps under a lock, written through to SQLite | `Revoke`, `RevokeByJTI`, `IsRevoked`, `LoadFromEntries` | `Revocation`, `RevocationLedger`, `AuditTrail` |
| Delegation, `internal/deleg` | none | `Delegate` | `TokenService` |
| Registration, `internal/identity` | nonces, launch tokens and agents, in memory | `Register`, `CreateNonce`, `ConsumeNonce`, `GetLaunchToken`, `ConsumeLaunchToken` | `Registration`, `Enrollment`, `Onboarding` |
| Administration, `internal/admin` | launch tokens | `Authenticate`, `CreateLaunchToken` | `TokenService`, `Registration`, `Apps`, `Onboarding` |
| Apps, `internal/app` | table `apps` | `RegisterApp`, `AuthenticateApp`, `UpdateApp`, `UpdateAppTTL`, `DeregisterApp` | `Apps`, `Onboarding` |
| Audit log, `internal/audit` | events, previous hash, counter; table `audit_events` | `Record`, `Query`, `NewAuditLogWithEvents` | `AuditLog`, `AuditTrail` |
| Rate limiter, `internal/authz/rate_mw.go` | a bucket per client | `Allow` | `RateLimiter` |
| Heartbeats, `internal/mutauth/heartbeat.go` | last seen and missed count per agent | `RecordHeartbeat`, `sweep`, `CheckLiveness` | `Heartbeat` |
| Handshake and discovery, `internal/mutauth` | bindings; messages are with the agents | `InitiateHandshake`, `RespondToHandshake`, `CompleteHandshake`, `Bind`, `Unbind`, `VerifyBinding` | `Handshake` |
| SQLite store, `internal/store` | tables and in-memory maps | see the owners above; `InitDB`, `migrateAddColumn` | partly: with the owners, `Startup` |
| Broker process, `cmd/broker` | the process, and what it has read | start, route table, signal, shutdown | partly: `Startup`, `TokenService`, `AuditTrail` |
| Signing key store, `internal/keystore` | a PEM file | `LoadOrGenerate` | `KeyStore`, `Startup` |
| Configuration, `internal/cfg` | config files | `Load`, `loadConfigFile`, `WriteConfigFile` | partly: `ConfigFile`, `Startup` |
| Command line, `cmd/awrit` | none | `init`; the rest are HTTP clients | partly: `ConfigFile`, `AuditTrail` |
| HTTP plumbing, `internal/handler`, `internal/problemdetails`, `internal/obs` | counters | middleware, health, metrics | not modelled |

How they interact. Everything is a Go call inside one process, made by the
goroutine of an HTTP request. `ValMw.Wrap` verifies the bearer token (which
asks the revocation service), asks the revocation service again, and leaves
the claims in the request context; handlers and services then work on those
claims. The exception is the start: the broker, other brokers on the machine and
`awrit init` share files and a database without any lock. Services hold no lock from one store call to the next, so requests
interleave between any two calls. The revocation lists, the apps and the audit
log are written through to SQLite and read back when the process starts;
nonces, launch tokens and agents are only in memory and lost; tokens are with
the clients and the signing key is in a file, so tokens survive a restart.

What makes it hard:

- *Interleavings.* Verify-then-revoke-then-issue in `Renew`;
  look-up-then-consume in `Register`; read-then-compare-then-save for ceilings;
  claims captured in `Wrap` and used later in `Delegate`.
- *Crashes and restarts.* State is in four kinds of places that survive
  differently (table, memory, file, client); files are created in several steps
  and only the key file is synced.
- *Shutdown.* Its deadline may pass with requests running, which then write to a
  closed database, and go on.
- *Partial failure.* Revocation and audit writes that fail are logged and
  forgotten; a registration that fails half way undoes nothing.
- *Boundaries.* Lifetimes of zero, a ceiling of zero, a default above the
  ceiling; the depth of a chain after renewals; the fraction of an interval or
  of a token that a sweep or a refusal leaves.

What makes each component correct is stated by the properties of section 3; the
complete list of hazards, each with its line and its properties, is in
`PROJECT.json`.

## 2. Modules

    Scope ── Attenuation ── MCAttenuation                   ScopeTheorems, AuthzTheorems
      │
      ├── Revocation ── TokenService ── MCTokenService      TokenServiceTheorems
      │                     └ INSTANCE RevocationLedger
      ├── Registration ── MCRegistration                    RegistrationTheorems
      │        └ INSTANCE Enrollment
      └── Apps ── Onboarding ── MCOnboarding                OnboardingTheorems
            └ MCApps
    AuditLog ── AuditTrail                                  AuditTrailTheorems
    ConfigFile, KeyStore ── Startup ── MCStartup            StartupTheorems
    RateLimiter                                             AuthzTheorems
    Roster ── Heartbeat                                     MutauthTheorems
      └ Handshake ── MCHandshake                            MutauthTheorems

Theorems are about the module their branch ends in; `AuthzTheorems` and
`MutauthTheorems` each serve the two components of one Go package (`authz`,
`mutauth`), which keep their own variables and specifications, `LimiterSpec` and
`MonitorSpec` beside `Spec`.

A module models one component; `TokenService` composes the token service, the
middleware, delegation, the handlers and the revocation service, since a token's
fate is decided between them. `Onboarding`, `AuditTrail` and `Startup` compose
too: apps with launch tokens and registrations, the log with revocation requests
and shutdown, and whatever shares the files and the database when brokers start.
`RevocationLedger` and `Enrollment` are abstract
specifications that `TokenService` and `Registration` are shown to implement;
`Permissions` in `Attenuation` is the meaning of scope strings that the subset
test is compared with.

**Scope, Attenuation.** A scope string is the sequence of its fields between
colons. `HandDown` is any hop that passes `ScopeIsSubset` (launch token
creation, registration, delegation), `RequireScope` and `RequireAnyScope` are
the gates of the endpoints.

**TokenService, Revocation.** A request is a process:
`idle → verified → admitted →` then one of `Release`, `Delegate`,
`RevokeByAdmin`, `Refuse`, or `renewing → retired → idle` for a renewal. Each
step is one call that takes a lock or reads shared state; `tok` holds the claims
of every token ever issued, by jti. `root` and `pred` are history: the token a
token descends from, and the one it replaced. `Restart` empties the agent table,
ends the requests in flight and reloads the lists from the table. `DiskFaults`
says whether `SaveRevocation` may fail.

**Registration.** `idle → admitted → challenged → claimed → issued → idle`, one
step for each store call of `Register`. Whether a key decodes, a signature fits
and an ID forms a SPIFFE path is a choice made where the code looks (`RejectProof`,
`RejectName`). Random values are drawn once.

**Apps.** A login is `LookUpApp` and, after the bcrypt comparison,
`IssueAppToken`; a launch token request `AdmitLaunch`, `GrantLaunch` and
`SaveLaunchToken`; an update of ceiling and TTL `UpdateCeiling` and
`ThenUpdateTTL`. `window` is history: the ceilings an app had while a request
of its was under way. A renewal counts as done at once: `Apps` has none between
its revocation and its issue, which is a step of `TokenService`.

**Onboarding.** `Apps` goes on to the launch tokens its requests leave in the
store (`shelf`) and to registrations in two steps, `AdmitAgent` and
`EnrollAgent`, with everything `Registration` has in between left to
`RejectAgent`. That is the whole composition: no step of a registration looks at
the app again, so its status and ceiling act on agents only through what was
copied into the launch token. `agents` is history.

**AuditLog.** A hash is the number of the `Record` call that made it, so a
chain is intact exactly if each event holds the number before it. `Close` is the
broker closing its database; `Query` is a client that
reads page after page. IDs are text, padded to `IdWidth` digits, and the table
comes back in the order of that text: `Length` is how many digits an ID has, and
`TextBefore` compares two numbers of different lengths by the leading digits of
the longer one, which is what SQLite's comparison of the text does.

**AuditTrail.** A revocation request is `idle → admitted → revoked → recorded →
idle`: memory and table, then the event, then the response, which may be lost.
`Signal` stops admission, `Shutdown` closes the database when all requests are
done or, with `LateRequests`, before; a write to a closed database fails and is
swallowed, as in the code, and the request goes on and answers. `Restart`
rebuilds revocations and log from the tables. `told` is the history of all
answers that arrived, late ones included, each with how far its request was kept:
`wrote` is whether the database was open when the revocation was written, `open`
whether it still was at the answer. The token that a late answer calls revoked
outlives the process, with its bearer, and so does the key that signed it; what is
kept of such an answer is what `ToldAndWrittenIsKept` says, and what is not is
`ToldIsKept` (below). The other handlers audit in the same order (effect, event,
response). `Restart` starts the paging client over if the database had been
closed, for the events it has read since may be gone.

**ConfigFile, KeyStore, Startup.** A broker goes `config → key → create → write →
sync → tables → column → alter → serving`; `create`, `write` and `sync` only if
there was no key file, `alter` only if the `apps` table is from before
`token_ttl`. The look for that column and its `ALTER TABLE` may meet an error
(`SkipMigration`), which is a warning at most; `skipped` is the history of that. Each turn of a loop over paths or tables is a step. A run of `awrit
init` is `idle → opened → written → told`; any number of both run at once, die
anywhere, and lose power. The key file is known by the key its creator is about
to write, so that a write through a descriptor whose file was deleted is a write
to nothing; a power failure leaves nothing or a part of a key file that was not
synced, and of a config file always, for nothing syncs it. History:
`signed` and `retired` keys, `void` runs of init (forced over, or lost with the
power), and of each broker what was promised when it was started (`known`).
Simplifications: an `fsync` of the key file makes its directory entry
durable too; looking a path up and reading it is one step (`Lstat` and
`Open` are two calls); `MODE` only selects a warning and is left out; bcrypt
hashes accept the secret they are made of.

**RateLimiter.** A token is cut into `Cost` parts so that the lazy refill is a
whole number; the code's floats are taken as exact. `log` is the history of
requests let through.

**Heartbeat, Roster.** `Roster` has what heartbeats and handshakes share, the
agents and which of them are revoked at the agent level; each of the two modules
runs on its own. Ages instead of time stamps, capped where they stop mattering;
the timer's channel holds one tick and drops the next. `silence` is the history
the properties compare with: the time since the last heartbeat, which sweeps do
not touch.

**Handshake.** Requests and responses are plain structs that agents hand each
other, and the tests alter their fields (`TestHandshakeInitiatorIDTampering`,
`TestCompleteHandshakeResponderIDTampering`). So a handler is given any combination
of token, declared identity and target, a nonce that was issued and a signature
that was made; messages that are late, repeated or mixed up are among them. Only
signatures cannot be made up. A call is a process, one step for each token it
verifies, up to its next check or its answer, since no lock is held from one to the
next: `VerifyInitiator → Initiate`, `VerifyRequest → VerifyResponder → Answer`,
`VerifyResponse → Complete`. Verifying a token and the `GetAgent` after it are one
step, as records never change once a token exists. An agent has one token, and
its expiry is the same to `Verify` as its revocation. `late` is history: whether an
agent the call names was revoked when the call began.

## 3. Runs

All state spaces below are exhausted. Deadlock is checked except where bounded
counters stop the model (`MCAttenuation`, `RateLimiter`) or where brokers that
serve have nothing left to do (`Startup`).

| Run | Bounds | What it shows |
|---|---|---|
| `MCAttenuation` | lists of up to 2 scope strings, wildcards, malformed and colon-bearing ones among them, 4 hops | `NeverExpands`, `OpenedByCeiling`: nothing down the line is permitted, or let in anywhere, beyond the ceiling; `SubsetIsContainment`: the test is exactly containment of meanings |
| `TokenAuthority` | 2 agents, 4 tokens, 1 request at a time, a wildcard and a narrow list, TTLs 0 and above the ceiling, 2 instants | `AuthorityOnlyShrinks`, `RenewalKeepsLifetime`; `SoleSuccessor` when requests do not overlap |
| `TokenKillSwitch` | 2 agents and an administrator, 4 tokens, 2 concurrent requests, revocations at every level, restarts | `LineageRevocable`: a revoked line is dead, tokens that requests in flight issue afterwards included; `PredecessorRetired`; `RevocationDurable`: the lists implement `RevocationLedger` |
| `Registration` | 2 requests, 2 nonces, 1 launch token (single-use or not), 2 agents, expiry, restarts | `EnrolledOnce`: implements `Enrollment`; `PolicyBinds`; `FailureSparesToken` |
| `Onboarding` | 1 app, 2 requests, 1 launch token, 2 registrations, 3 scope lists, TTLs below, within and above the bounds | `AgentWithinCeiling` while ceilings change; `OffboardingIsFinal`; liveness `OffboardingDrains` |
| `AuditTrail` | 5 events, 1 target, 2 requests, 3 page limits, lost replies, restarts, shutdown under late requests | `ChainIntact`, `TableIsPrefix`, `AppendOnly`, `PagingConsistent`; `ToldAndWrittenIsKept`, `RecordedIsRevoked`: answers, revocations and trail agree, as far as the database was open |
| `Startup` | 2 brokers, 2 runs of init, 2 locations, 3 keys, 2 crashes, power failures or errors of a migration | `StartTakesPromisedSecret`, `PromisedSecretKept`, `SignedKeysKept`, `ReadyWhenServing`; liveness `StartsInTheEnd` |
| `RateLimiter` | 2 clients, bursts of 2, 6 instants, 5 requests each | `WithinBudget` and its converse `RefusedForCause` |
| `Heartbeat` | 2 agents, 3 missed intervals of 2 units | `RevokedAfterSilence`, `DeadUntilHeartbeat`, liveness `SilentIsRevoked` |
| `Handshake` | 3 agents, 2 handshakes, 2 calls at a time, 1 answer, any field of a message altered, bindings, lapses, revocations | `MeantAndAnswered`, `RevokedDropsOut` |

Why the bounds are enough. Races in these components are between two requests:
every shared record is checked and changed in single locked calls, so a third
request meets a state a second one leaves. Four tokens are a line with a
delegation of a delegation, a renewal of it, or two successors of one token.
Two nonces and one launch token make two registrations collide on either. Three
agents and two handshakes are what it takes to hand a response to the wrong
handshake; one answer is enough to be handed anywhere, and with `MaxAnswers = 2`
the run was exhausted for one call at a time. `TokenAuthority` has one request and a
clock that barely moves, so that four tokens fit; it is asked for TTLs of zero and
above the ceiling, and what other lifetimes do rests on `LifetimeTheorem`. Five
audit events fill a page of three and begin the next, with a
restart anywhere; targets do not meet in `AuditTrail`, whose properties are about
one at a time, so one is enough. Two brokers are what it takes to race for the
key file, a third key is what a rotation after such a race needs. `MCStartup`
takes two families of histories so that they do not multiply: `FirstStart`, where
brokers meet over a new key file and schema with `init` done, and `LaterStart`,
where a broker starts while runs of `init` write and crash; the proofs of
`StartupTheorems` are for `Spec`, without that split. A wide list, a narrow one and one that does not
parse do for `Onboarding`, since `AgentTheorem` is for all.
Symmetry is over identifiers that no action tells apart, agents only
where the administrator's revocations name none; liveness properties are
checked without it.

*Fairness.* Three modules claim that something happens in the end.

- `Heartbeat`: weak fairness of `Tick` (time passes, and the timer fires) and of
  `Sweep` (the monitor goroutine, which waits on nothing but the timer and a mutex
  that is held briefly, is scheduled). `StopMonitor` has none, and the property
  ends where the context is canceled.
- `Onboarding`: a request or registration that is under way finishes, for its
  handler waits on no other; and a launch token expires, since `ExpiresAt` is
  finite. No app, agent or operator is assumed to do anything: the property starts
  from an app that is deregistered and revoked.
- `Startup`: a broker process that runs goes on, and one that is down is started
  again. The second is the operator's part (the compose files set no restart
  policy); without it a broker that loses the race for the key file stays down.
  The property supposes that config and key file are good from some time on.

### Where the code does other than it says

Two runs expect a violation, each of one statement:

- `TokenConcurrentRenewal`: two renewals of one token both verify it before
  either revokes it, and `RevokeByJTI` succeeds on what is revoked already, so
  both issue a successor. `docs/design-decisions.md:100` says revoking first
  "prevents two valid tokens from existing simultaneously". `SoleSuccessor`
  holds for requests that do not overlap (`TokenAuthority`).
- `AppDeregistered`: `handleCreateLaunchToken` reads an app's record and not its
  status, so a deregistered app with a token left creates launch tokens, which
  `app_svc.go:256` says it cannot.

The models reproduce further divergences that no run is kept for. Each is
found by TLC with the change that is named:

- `PredecessorRetired` with `DiskFaults = TRUE` (`TokenKillSwitch.cfg`): a
  `SaveRevocation` that fails is only logged (`rev_svc.go:127`), and `Renew` goes
  on to issue; after a restart predecessor and successor are both valid, although
  `tkn_svc.go:258` says that if revocation fails renewal fails.
- `ToldIsKept` (`AuditTrail.cfg`, as it is): `serve` closes the database under
  requests that outlive the deadline (`serve.go:115-121`), `Revoke` swallows the
  failed save (`rev_svc.go:127-131`) and the handler answers `revoked: true`
  (`revoke_hdl.go:84-94`); the next start accepts the token again.
  `docs/credential-model.md:403` has revocations persisted and rebuilt on restart,
  without condition, and so have `docs/faq.md:90` and `CHANGELOG.md:372`. With
  `LateRequests = FALSE` it holds (`ToldInTimeTheorem`).
- `ToldAndWrittenIsKept` and `RecordedIsRevoked` with `DiskFaults = TRUE`
  (`AuditTrail.cfg`), for the same reason with the database open: the client is
  told, and the trail says, that a token is revoked which the next start accepts.
- `PeerSubstitutionPrevented` (`Handshake.cfg`): `mut_auth_hdl.go:157` says that
  the comparison with `TargetAgentID` prevents peer substitution. No signature
  covers that field, and `CompleteHandshake` is told neither it nor whom the
  initiator meant: if the request arrives with its target altered, whoever it names
  answers, and the handshake completes. What holds is `MeantAndAnswered`.
- `ColumnWhenServing` (`Startup.cfg`): `sql_store.go:383` has `migrateAddColumn` add
  a missing column; if the look for it fails it returns without a word, and if the
  `ALTER TABLE` fails it warns, and the broker serves without the column. What
  holds is `ReadyWhenServing`.
- `AgentRevocationPropagates` (`TokenKillSwitch.cfg`):
  `docs/integration-patterns.md:304` says that revoking an agent invalidates what
  it delegated. `IsRevoked` looks the subject up at the agent level and the first
  delegator at the chain level only; what does hold is `LineageRevocable`, which
  asks for both entries.
- `LoginsNotRenewed` (`TokenKillSwitch.cfg`): admin and app tokens are "not
  renewable" (`docs/credential-model.md:154`, `docs/roles.md:44`); the renew route
  takes every valid token.
- `ConsumedMeansRegistered` (`Registration.cfg`): orchestration and task IDs are
  validated after the launch token is consumed (`id_svc.go:192-202`), so a bad
  one spends it for nothing.
- `ChainIntact` with `DiskFaults = TRUE` (`AuditTrail.cfg`): one audit insert
  that fails leaves a hole in the table, and the chain that is rebuilt from it is
  broken there; the count of rows then collides with the last ID.
- `ChainIntact` with `IdWidth = 1` and eleven events (`AuditTrail.cfg`): once an
  ID outgrows its padding (six digits and a million events in the code) the order
  of the text is not the order of the events.
- `PagingConsistent` with a page limit above `MaxLimit`: `AuditHdl` reports the
  limit it was asked for and `Query` applies 1000.
- `InitEnforcesPermissions` (`Startup.cfg`): `CHANGELOG.md:341` has `awrit init`
  enforce mode 0600. `OpenFile` applies the mode to new files only, so `--force`
  over a file that others may read keeps it so, and the broker then ignores it.
- `UnusableFileIsFatal` (`Startup.cfg`): `docs/troubleshooting.md:542-557` has the
  broker stop when the file at `AA_CONFIG_PATH` is missing or may not be read;
  `loadConfigFile` goes on to the next location. Nor does `AA_ADMIN_SECRET=""`
  stop it (`docs/troubleshooting.md:430`): it counts as not set.

Other things the start does that no document denies, and that the models show:
a broker that loses the race for the key file exits, and one that dies between
creating and writing it leaves a file that no start gets past until the operator
deletes it; nothing syncs a config file, so a power failure can take a secret
`init` has shown; runs of `init --force` that overlap leave the secret of the last
to write; a broker keeps the admin secret it started with.

## 4. Theorems

TLAPS proves, for every value of the constants that meets the named
assumptions: `AttenuationAssumption`, `LimiterAssumption`, `RevocationAssumption`,
`TokenAssumption`, `AdminAssumption`, `RegistrationAssumption`,
`HandshakeAssumption`, `HeartbeatAssumption`, `AppsAssumption`, `AuditAssumption`,
`TrailAssumption`, `KeyStoreAssumption` and `StartupAssumption`. They say what
`cfg` and the types guarantee, such as that TTLs are integers, keys are numbers,
intervals are positive and there is a location to look at.

Some theorems suppose more, and say so in their statement:

- `~DiskFaults`: no write to an open database fails. The code swallows such a
  failure, and without the supposition these statements are false of it (section
  3). A database that `Shutdown` has closed is not a fault in this sense; writes to
  it fail in the proofs as they do in the runs.
- `IdsFit`: event numbers fit into the digits they are padded to, six in the code,
  so the theorems speak of logs of up to 999999 events. With one more the order of
  the text is no longer that of the numbers, and `ChainIntact` is false.
- `LimitsHonoured`: a client asks for pages of at most `MaxLimit` events, the 1000
  that `docs/api.md` allows; above that `Query` and the response disagree.
- `NoRace`, a state predicate that `SuccessorTheorem` assumes always: no two
  requests are between `Verify` and `Issue` of a renewal with one token. The code
  does not provide it (`TokenConcurrentRenewal`); the theorem says that this race
  is the only one that does harm.
- `~LateRequests`, in `ToldInTimeTheorem` only: no request outlives the shutdown
  deadline. The code does not provide it; `ToldTheorem` does without.
- `Unnamed`: some identifier occurs in no scope string. Identifiers are arbitrary
  text and scope lists are finite, so there always is one; without it a list that
  spells out every identifier would mean what a wildcard means, and the subset test
  would refuse the wildcard all the same.

| Theorem | Statement | Argument |
|---|---|---|
| `ScopeTheorems!SubsetTransitive` | the subset test composes | case by case on wildcards |
| `AuthzTheorems!AttenuationSafe` | `NeverExpands` | a covered scope permits less; induction along the line |
| `...!OpenedTheorem` | `OpenedByCeiling` | `OpenedByLast`: the last holder has what the gate asked for, and the ceiling covers the last holder |
| `...!ContainmentTheorem` | `SubsetIsContainment`, if `Unnamed` | a concrete scope is its own witness, the unnamed identifier is that of a wildcard |
| `...!BudgetTheorem` | `WithinBudget` | `Balanced`: a bucket plus what any window that ends there has spent is at most a burst and what the window earned, and for one window, or a full bucket, exactly that |
| `...!CauseTheorem` | `RefusedForCause` | the window for which `Balanced` is exact is the cause |
| `TokenServiceTheorems!TypeCorrect` | `TypeOK` | inductive as it stands |
| `...!AuthorityTheorem` | `AuthorityOnlyShrinks` | transitivity, over what `Issue` is called with |
| `...!DepthTheorem` | `DepthBounded` | renewal copies a chain, delegation tests before it appends |
| `...!LifetimeTheorem` | `RenewalKeepsLifetime`; also `LifetimeBounded` | `LifetimeClamped`: `Clamp` is idempotent on lifetimes it made |
| `...!KillSwitchTheorem` | `LineageRevocable` | `LineageTraced`: a line has one top, its task is carried along, and its chain leads back to the top's agent |
| `...!DurabilityTheorem` | `RevocationDurable`, if `~DiskFaults` | `AcknowledgedIsSaved`, `MemoryHoldsTable`: table, memory and acknowledgements are one set |
| `...!RetirementTheorem` | `PredecessorRetired`, if `~DiskFaults` | `RetiringSaved`, `SuccessionSaved`: the entry is in the table before the successor is issued |
| `...!SuccessorTheorem` | `SoleSuccessor`, if `~DiskFaults` and always `NoRace` | `OneSuccessor`: a token has one successor at most, and none while it is being renewed, for a token with a successor no longer passes `Verify` |
| `RegistrationTheorems!RegistrationTypeCorrect` | `TypeOK` | part of the invariant below |
| `...!PolicyTheorem` | `PolicyBinds` | `JobsWithinPolicy`: what was looked up first stays true of a record that never changes its policy |
| `...!EnrolledTheorem` | `EnrolledOnce`: every step is an `Enroll` or a stutter | `NonceHeld`, `LaunchHeld`: whatever is consumed has one holder, a request or an agent |
| `...!SparedTheorem` | `FailureSparesToken` | `IssuedHeld`: an agent that is not yet in the table already answers its nonce, so the request that consumes a launch token shares its nonce with nobody |
| `...!FirstTokenTheorem` | an agent's first token has scopes, all parse, and a positive lifetime | `Asked`, and `PolicyBinds`: only scopes that parse are covered. `TokenService!Register` takes these three for granted |
| `MutauthTheorems!HandshakeTypeCorrect` | `Handshake`: `TypeOK` | part of the invariant below |
| `...!MeantTheorem` | `MeantAndAnswered` | `AnsweredByTarget`: whoever signed was the target of the request that reached it; `CallsSound`: so is whoever is about to, and who is completing bears the token it names |
| `...!DropsOutTheorem` | `RevokedDropsOut` | `CallsSound`: a call that began late is one the target of which is revoked, and stays so, and never gets to its answer |
| `...!MonitorTypeCorrect` | `MonitorTypeOK` | part of the invariant below |
| `...!SilenceTheorem` | `RevokedAfterSilence` | `Accounted`: the intervals counted and the age of the record add up to no more than the silence, since a sweep turns whole intervals of one into the other |
| `...!DeadTheorem` | `DeadUntilHeartbeat` | over the same invariant, action by action |
| `OnboardingTheorems!CeilingTheorem` | `Apps`: `TypeOK`, `LaunchWithinCeiling` | `JobsFit`, `WindowsFit`: what a request has copied is a ceiling of its own window |
| `...!ShutOffTheorem` | `Apps`: `ShutOffIsFinal` | over the same invariant, action by action |
| `...!AppsImplemented` | `OnboardSpec => Spec`: every step is one of `Apps` or a stutter | action by action |
| `...!OnboardTypeCorrect` | `OnboardTypeOK` | part of the invariant below |
| `...!AgentTheorem` | `AgentWithinCeiling` | `AgentsFit`: what was compared with the launch token once is within it for good, and transitivity |
| `...!OffboardingTheorem` | `OffboardingIsFinal` | `ShutOffIsFinal`, and a drained app has no request to add to the shelf |
| `AuditTrailTheorems!ToldTheorem` | `ToldAndWrittenIsKept`, if `~DiskFaults` | `StepsSaved`: a request that wrote with the database open has its row in the table, and so has its event while it is open still; `RowsCounted`: a row is never written over |
| `...!ToldInTimeTheorem` | `ToldIsKept`, if also `~LateRequests` | `AnsweredInTime`: no request is under way once the database is closed, so every answer met an open one |
| `...!RecordedTheorem` | `RecordedIsRevoked`, if `~DiskFaults` | `StepsSaved`: while the database is open, an event is written by a request whose revocation is saved |
| `...!ChainTheorem` | `AuditLog`: `TypeOK`, `ChainIntact`, if `~DiskFaults` and `IdsFit` | `LogInv`: events are numbered as they stand and the table is the first of them, all while the database is open |
| `...!TableTheorem` | `TableIsPrefix`, likewise | the rank of a row among texts is its number (`TextBefore` is `<` on IDs that fit), so what is loaded is `LogInv`'s beginning |
| `...!AppendTheorem` | `AppendOnly`, likewise | the same: a restart with the database open loads the whole log |
| `...!PagingTheorem` | `PagingConsistent`, if also `LimitsHonoured` | matching events of a longer log extend those of the shorter, and pages meet end to end |
| `...!TrailImplementsLog` | `TrailSpec => Spec` of `AuditLog`, if `~DiskFaults` | action by action; `RowsCounted` for the restart |
| `...!TrailTypeCorrect` | `TrailTypeOK`, as `ChainTheorem` | `TrailImplementsLog`, and `RequestsTyped` |
| `...!TrailLogTheorem` | `ChainIntact`, `TableIsPrefix`, `PagingConsistent`, `AppendOnly` of `AuditTrail` | `TrailImplementsLog` |
| `StartupTheorems!PromisedTheorem` | `PromisedSecretKept` | `ConfigInv`: a run that is past its truncation and not void is the only one at its path |
| `...!PromisedSecretTaken` | `StartTakesPromisedSecret` | `SecretInv`: a broker that is still looking has not passed the file of a promise (`Heeded`), and `ConfigInv` keeps that file |
| `...!StartTypeCorrect` | `TypeOK` | with `ConfigInv` |
| `...!KeyTheorem` | `SignedKeysKept` | `KeyHeld`: of the keys that brokers hold and nobody retired, one is in the file, and whoever is past the write finds it there |
| `...!ReadyTheorem` | `ReadyWhenServing` | `MadeOnce`, `SchemaHeld`: the maker of a key has synced it before it goes on, tables are never dropped, and whoever did not skip its migration leaves it with the column there |

The strengthenings are needed because what is promised is not inductive: that a
token's line can be revoked says nothing about where its chain began; that a
nonce enrolled one agent says nothing about a request that holds it; that
signed keys are in the file says nothing about a broker that is between writing
and signing; that past windows kept to their budget says nothing about what a
bucket still holds; that a chain is whole says nothing about the rows it will be
rebuilt from.

Only model-checked: the three liveness properties, `SilentIsRevoked`,
`OffboardingDrains` and `StartsInTheEnd`, for temporal reasoning under fairness
(and the `ENABLED` in it) is out of the prover's reach. Every invariant and every
action property that a passing run checks is the statement of a theorem. Of the
two runs that expect a violation, `SoleSuccessor` is proved under the hypothesis
that the run breaks (`NoRace`), and `DeregisteredStops` has no theorem, since it is what the
code does not do.

Rank and order in `AuditLog` are defined with `CHOOSE` and `Cardinality` and not by
recursion, because what a recursive definition computes for every input cannot be
proved here; that they are what `ORDER BY id` and the loop of `Query` give is read
off the definitions, and used by every state of the run.

## 5. Left out

- *Cryptography and encodings*: signatures, hashes, JWT and PEM, bcrypt, SPIFFE
  syntax. A check on them is a choice where nothing else depends on the outcome,
  or it cannot fail for what the broker itself made. The signatures and the hash
  of delegation records are never verified in `src/`.
- *Redaction of secrets* in audit details (`sanitizePII`): text processing.
- *Float rounding* in the rate limiter, and the choice of its key.
- *Store functions without a caller* (`PruneExpiredJTIs`, `ExpireAgents` have
  nothing to act on; activation tokens are never created) and reads for listings:
  `QueryAuditEvents` and its filters are used by tests only, since `AuditHdl`
  reads the log in memory.
- *The pruner, TLS, seeding of development data, metrics, logging*, security
  headers and problem details: no state beyond counters and files that are read.
- *Settings* other than the admin secret: they are constants of the modules that
  use them.
- *Commands of `awrit` other than `init`*: each is a login and one request, which
  the modules of the broker have; what the commands print is formatting.
- *Concurrency with SQLite from outside* the broker process, other than brokers
  that start at once.
- *Counters of `time.Duration`* at 2^63 ns, and maps that are never pruned.

## 6. Plan

Done, in this order: `Scope`, `Attenuation`; `Revocation`, `TokenService`;
`Registration`; `Apps`; `AuditLog`; `RateLimiter`, `Heartbeat`, `Handshake`;
`KeyStore`, `ConfigFile`, `Startup`; `Onboarding`; `AuditTrail`.

To extend the model: heartbeats and handshakes over the revocation service they
share, once the broker starts them.

To prove more: that a `Startup` in which no broker dies and no power fails refines
a single `LoadOrGenerate`; that the revocation lists of `AuditTrail` implement
`RevocationLedger` as those of `TokenService` do; and a common theorem for
heartbeats and handshakes over `Roster`, once the broker starts both.
