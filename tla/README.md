# Verification of the service-account plugin

TLA+ modules, TLC configurations and TLAPS proofs for
`lenso-service-account-postgres-plugin`: a plugin that creates service accounts
for organizations, rotates and revokes their credentials, and exchanges a
service account's secret for a short-lived App token. Paths below are relative
to `crates/lenso-service-account-postgres-plugin/src/` unless they say more.

## The system

| component | state | operations |
|---|---|---|
| command ledger (`storage.rs`, `service_account_commands`) | one row per (caller, operation, idempotency key): intent, status, receipt, completion time | `prune`, `claim_command`, `complete_success`, `complete_error`, the `issuing` transition |
| accounts and credentials (`storage.rs`, `service_accounts`, `service_account_credentials`) | status, revision, times of an account; validity and revocation of each credential | `create_account`, `rotate_account`, `revoke_account`, `mark_exchange_issuing` |
| management (`management.rs`) | none of its own; the locals of a request future | `create`, `get`, `list`, `rotate_secret`, `revoke` |
| secret exchange (`authentication.rs`) | none of its own | `exchange_secret` |
| rate limiter (`storage.rs`, `service_account_exchange_limits`) | window, attempts and lockout of each caller | `reserve_rate_slot` |
| authorization (`authorization.rs`) | none | `authorize_management` |
| configuration and lifecycle (`lib.rs`) | the active state: pool, keys, limits | `validate`, `activate`, `deactivate` |
| operator (`operator.rs`, `schema.rs`) | none | `setup`, `upgrade`, `inspect_command` |
| cryptography (`crypto.rs`) | none | secrets, verifiers, receipt encryption |
| capability contracts (`crates/lenso-capability-service-account*`) | none | generated clients and endpoints |

Every mutating call goes the same way: validate and authorize, prune old
receipts, claim the idempotency key, do the work, store a receipt. The handlers
are futures of one or several hosts over one database, without shared memory:
they meet in the tables, in row locks (`SELECT ... FOR UPDATE`) and in a
per-organization advisory lock. `create` calls the Identity Directory between
two transactions; `exchange_secret` calls the Directory and then the Credential
Issuer, which has no idempotency key, so the exchange is first committed as
`issuing`.

What is hard here:

- two handlers interleave at every `await`, also between the two statements of
  `claim_command` and between a rollback and the recording of its error;
- a handler may stop at any `await` (crash, cancellation, failed query, failed
  external call) and leaves its command open;
- the Issuer's answer may be lost after a token was minted;
- host clock readings are taken before waits for locks and used after them, and
  `now()` in a transaction is the transaction's start;
- pruning makes an idempotency key usable again;
- `deactivate` takes the active state back while handlers hold clones of it, and
  the plugin may be activated with other secrets before they return;
- Membership and Access Control are asked one after the other and change
  meanwhile; peers of another contract version meet codes they do not know.

`PROJECT.json` lists these under `hazards`, each at its line with the
properties that watch it.

What makes each component correct, in a sentence: the ledger lets a key take
effect once and tells what came of it; accounts and credentials only move
towards their end and their limits hold; an exchange is admitted on facts that
are current; the limiter neither gives a slot twice nor prolongs a lockout; a
refusal is true and discloses nothing to strangers; a listing is complete; the
plugin leaves the database alone once it is deactivated; an outcome reaches its
client unchanged; and an accepted configuration is one the handlers can use.
The properties below say this precisely.

## Modules

| module | models | state |
|---|---|---|
| `Storage` | the migration's tables, `storage.rs`'s statements, the limits of the configuration | `clock`, `commands`, `accounts`, `credentials`, `limits` |
| `Handlers` | what the four mutating handlers share, and the locks | `pc`, `req`, `frame`, and the history variable `performed` |
| `Management` | `create`, `rotate_secret`, `revoke` with their transactions | |
| `Authentication` | `exchange_secret` with its transactions and external calls | |
| `ServiceAccount` | the composition, time, the properties of handlers and tables | |
| `CommandLedger` | abstract: what idempotency promises | `now`, `ledger` |
| `LedgerRefinement` | the refinement mapping from `ServiceAccount` to `CommandLedger` | |
| `Reads` | `get` and the summary it reports | |
| `Listing` | `list`: pages, cursors, and a client that follows them | `walk` |
| `Plugin` | `activate`, `deactivate`, the pool, pepper and receipt key, around the handlers; fairness | `phase`, `staged`, `generation`, `keys`, `held`, `draining`, `peppered`, `sealed` |
| `RateLimiter` | `reserve_rate_slot` alone, under many calls | `limits`, `waiting`, and the histories `granted`, `windows`, `firstWindow` |
| `Authorization` | validation and authorization of every operation | the services' `organizations`, `members`, `grants`; `stage`, `call`, `outcome`, and the history `seen` |
| `Contract` | the generated endpoints and clients: the way of an outcome to its client | `op`, `stage`, `message`, `hops`, and the histories `origin`, `understood`, `garbled` |
| `Configuration` | `ServiceAccountConfig::validate` and the published schema | `config`, `verdict` |
| `MCServiceAccount`, `MCReads`, `MCListing`, `MCPlugin`, `MCRateLimiter`, `MCAuthorization`, `MCContract`, `MCConfiguration` | instances for TLC: requests, orders, symmetry, configurations | |
| `ServiceAccountProofs`, `AccountProofs`, `OutcomeProofs`, `LedgerProofs`, `RateLimiterProofs`, `AuthorizationProofs`, `BoundaryProofs`, `PluginProofs` | theorems and proofs | |

`Storage`, `Handlers`, `Management` and `Authentication`, `ServiceAccount` extend
one another; `LedgerRefinement`, `Reads`, `Listing` and `Plugin` extend
`ServiceAccount`, and `RateLimiter` extends `Storage`, so each operator on the
tables exists once. `Authorization`, `Contract` and `Configuration` stand alone:
they concern what happens before a handler, after it, and before the plugin
exists, and share no state with it.

### The handlers

A step of a handler runs up to
the next `await` whose interleaving matters, or commits one transaction. The
transactions that hold a lock are two steps: one that obtains the lock and reads,
and one that writes, completes the command and commits. Nothing another handler
could see happens in between, and whatever may be read without the lock can
still change. Which locks are held follows from `pc`, so a rolled-back or
abandoned transaction releases them by itself.

| steps | code |
|---|---|
| `Accept` | entry of the handler up to and including `storage::prune` |
| `Reserve`, `AlreadyReserved`, `Find` | `claim_command`: the INSERT that inserts, the one that does not, the SELECT |
| `EnsureIdentity`, `IdentityRejected` | `create`'s call of the Directory, and the clock reading after it |
| `CountAccounts`, `TooManyAccounts` | `create_account` up to the limit |
| `CreateAccount`, `NameConflict`, `SubjectConflict` | its INSERTs, receipt and commit, or a unique constraint |
| `LockToRotate`, `RotateAccount`, `RotationRefused` | `rotate_account`: lock and compare; update and commit; the table's CHECK |
| `LockToRevoke`, `RevokeAccount` | `revoke_account`, including the revocation of what is already revoked |
| `NotFound`, `AlreadyRevoked`, `RevisionConflict` | the early returns of both |
| `TakeRateSlot`, `RateLimited` | `reserve_rate_slot` |
| `VerifySecret`, `InvalidSecret` | `load_credential`, `verify_secret` and the filter |
| `SubjectActive`, `SubjectDisabled` | `read_status` |
| `RecheckCredential`, `NoLongerValid`, `Admit` | `mark_exchange_issuing` |
| `BoundExpiry`, `ExpiredMeanwhile` | the token's expiry |
| `Issue`, `IssueAmbiguous`, `IssueDisabled` | the Issuer: a token that is accepted, a token whose answer is unusable or lost, a refusal |
| `StoreReceipt` | `complete_success_owned` |
| `Record` | `complete_error` |
| `Return`, `Fail` | the future resolves; the future is dropped or a call of its fails |

### Around the handlers

| steps or operators | code |
|---|---|
| `Get`, `LoadAccount`, `NewestCredential`, `Summary` | `get`, `load_account` and its subquery, `summary`. One SELECT: the answer is a function of the tables and needs no step |
| `ListFirst`, `ListNext` | `list` without and with a cursor; `HasMore` and `NextCursor` are the extra row, the truncation and the cursor |
| `Write` | any step of the handlers between two pages |
| `ResolveUrl`, `ResolvePepper`, `ResolveKey`, `Activated`, `ActivateFails` | `activate`, one step per await |
| `Deactivate`, `PoolClosed` | `deactivate`: the state is taken; `pool.close()` returns when the last connection is back |
| `Call` | `active()`, then `Accept`; the awaits of authorization and `prune` are part of the step (a deactivation among them makes the pool refuse `prune`, and the call ends with no table changed) |
| `HandlerWaits`, `HandlerRuns`, `HandlerFails` | the handlers' steps, each with a connection for its statement |
| `ConnectionRefused` | a handler of a closed pool asks for a connection |
| `PepperMismatch`, `ReceiptUnreadable` | `verify_secret` and `decrypt` with secrets other than the ones used for the row |
| `Arrive`, `Grant`, `Deny`, `GiveUp` | a call reads the clock; its transaction, either way; its future is dropped |
| `Begin`, `BeginExchange` | a handler up to its first await |
| `OrganizationNotFound`, `MembershipRequired`, `MembershipActive`, `AccessDenied`, `PermissionAllowed`, `ServiceFails` | the answers of the two services in `authorize_management` |
| `WorldChanges` | external: the services' own state |
| `HandOver`, `Send`, `Receive`, `PassOn` | a typed native call; encoding; decoding by a peer that lacks some codes; a peer that returns what it got |
| `Garble` | external: what arrives is no outcome |
| `ValidateConfig` | `validate_config` |

### The abstract ledger

`CommandLedger` knows keys, intents and times, and nothing of handlers, tables,
locks or services: a free key is bound to an intent, takes effect at most once,
is completed or refused, and is forgotten no sooner than `ReceiptTtl` after its
outcome. In `LedgerRefinement` a ledger row is a command row together with when
the command last took effect. The steps map as follows; all others, also
`Admit`, change no ledger row.

| plugin | ledger |
|---|---|
| `Accept` (its `prune`) | `Expire` |
| `Reserve` | `Reserve` |
| `Issue`, `IssueAmbiguous` | `Execute` |
| `StoreReceipt` | `Complete` |
| `CreateAccount`, `RotateAccount`, `RevokeAccount` | `ExecuteAndComplete` |
| `Record` | `Refuse` |
| `Tick` | `Advance` |

### Abstractions

- The intent hash covers actor and request, so a command row stores the request.
- A secret is the id it claims, and whether it matches the verifier. A malformed
  or unknown one has the id `None`. Which pepper and which key a verifier and a
  receipt were made with is kept in `Plugin`, whose handlers are the same.
- Random ids are any unused ids. `KnownIds` says that no request names an id
  before it is stored, `IdsLeft` that ids do not run out; both are properties of
  192 random bits.
- Host and database read one clock. A timestamp 0 is NULL.
- `ServiceAccount` begins with a validated and authorized call. A call that is
  refused before changes nothing; `Authorization` models how it is refused.
- Columns that are written and never read back are left out: `superseded_at`,
  `last_used_at`, `updated_at`, and an account's `created_at`. A credential's
  `created_at` orders the credentials for `credential_expires_at` and is a column
  of the model: the start of the creating transaction.
- `advanced != 1` in `mark_exchange_issuing` and the "not completable" errors
  have no step: the guards of `MarkIssuing`, `CompleteSuccess` and
  `CompleteError` would block, and `SoleOwner` (proved) says that they never do.
- Database ambiguity at a commit is covered: a commit whose answer is lost is the
  step followed by `Return` or `Fail`.
- An actor assertion is verified or not, of a user or a service; fields of a
  request pass validation or not. A text of a configuration is which one it is,
  its length, and whether its characters are allowed.

`performed` is no state of the code. It counts how often a command took effect
(the commit of a management transaction, the minting of a token), when last, and
whether since its last reservation.

## Properties

Of handlers and tables (`ServiceAccount`, `LedgerRefinement`):

- `TypeOK`: every variable has its type; in particular, `claim_command` decodes
  what it reads into an answer of its operation.
- `SoleOwner`: one handler at most works on a command, and the command's row is
  unfinished and has that handler's intent.
- `ReceiptMatchesExecution`: a success receipt stands for an execution that was
  over at its completion; an error receipt and a `reserved` row stand for none.
  So a command that took effect without a receipt is one that
  `requires_issuer_reconciliation` (`operator.rs:22`) reports.
- `ImplementsLedger`: the plugin implements `CommandLedger`.
- `ExecutionsSpaced`: a command takes effect again only after its receipt was
  kept for `receipt_ttl_seconds`.
- `AbandonedStays`: a command without an owner is never touched again.
- `OutcomesTruthful`: what an answer or receipt says of accounts is true and
  stays true until it is delivered or replayed.
- `OverlapBounded`: of two credentials of an account one ends within the overlap
  of the last rotation.
- `AdmissionCurrent`: an exchange about to be admitted has an active account and
  an unrevoked credential whose expiry is the one read.
- `NoTokenAfterExpiry`: the recheck judges by a time read before the wait for the
  account's row, so a credential that expired meanwhile is admitted; still, a
  token is asked for and accepted only while the admitted credential lasts, and
  ends no later than it.
- `RevisionWonOnce`: no two rotations, and no rotation and revocation, won one
  revision.
- `OrganizationBounded`: the account limit of an organization holds.
- `NothingRevived`: no step lengthens or revives a credential or an account.
- `RotationKeepsCheck`: a rotation never attempts a row that the table's CHECK
  refuses. It does: see below.

Of reads (`Reads`, `Listing`):

- `RevokedReportsEnded`: no summary of a revoked account reports an expiry after
  the revocation.
- `ExpiryNotOverstated`: the reported expiry is that of the longest-lived
  credential, or one within the overlap of the last rotation.
- `WalkComplete`, `ListedOnce`: following the cursors to the end yields every
  account that was there at the beginning, and none twice or of another
  organization, whatever is created meanwhile.
- `CursorLeadsOn`: a page with a cursor has a successor that is not empty.

Of the lifecycle (`Plugin`):

- `DatabaseQuiet`: from the end of `deactivate` to the next activation no handler
  changes a table.
- `KeysCurrent`: verifiers and receipts are made with the secrets of the last
  activation, also by handlers in flight across it.
- `ExecutionsSpaced`, here with changing keys: a receipt that cannot be read is
  not executed again.
- `DeactivationEnds`, `CallsReturn`: deactivation ends, and every accepted call
  returns.

Of the rate limiter (`RateLimiter`): `RateBounded` (slots granted are bounded by
windows, and windows start at least `exchange_window_seconds` apart),
`LockoutBounded` (denied calls do not prolong a lockout), `LockoutHolds` (no call
lifts or evades one).

Of authorization (`Authorization`): `AdmittedWithAllFactors` (a call is let
through only for a configured instance, a verified user, a membership and the
operation's permission, each of which held while the call ran), `RefusalsTrue`
(a refusal was true at a moment of the call and never stands for a failed
service), `NothingDisclosed` (nobody else is told anything about organizations,
members or permissions).

Of the contracts (`Contract`): `OutcomeKept` (through peers of any version an
outcome keeps its kind, code and payload, and what cannot be decoded is a runtime
failure), `VariantsUnderstood` (a variant is what the provider answered, and a
code known to all peers arrives as a variant).

Of the configuration (`Configuration`): `AcceptedIsUsable` (the times the
handlers derive from an accepted configuration are in the order they rely on),
`SchemaAgrees` (what `validate` accepts has the lengths, ranges and unique items
that `configuration.schema.json` asks for; types and required fields are the
types of the model). The length of the schema's name is checked by the owned
PostgreSQL library, which is not part of the repository: for that field
`SchemaAgrees` rests on the 63 bytes that `ValidSchema` assumes.

## Runs

| run | instance | shows |
|---|---|---|
| `rotation` | create, two rotations in a row, a rival of each (a rotation and a revocation), an unknown account; 3 credentials, overlap 1, lifetime 3, 3 ticks | `OverlapBounded`, `RevisionWonOnce`, `OutcomesTruthful`, `RevokedReportsEnded`, `ExpiryNotOverstated`, `NothingRevived` |
| `rotation_check` | create, two rotations, a revocation; overlap 0, 3 ticks | `RotationKeepsCheck` is violated |
| `organization` | 4 creations (two of one folded name), limit 2, three subjects | `OrganizationBounded`, `OutcomesTruthful` |
| `exchange` | an exchange, a rotation and a revocation of one account, 4 ticks | `TypeOK`, `SoleOwner`, `AdmissionCurrent`, `AbandonedStays`, `NoTokenAfterExpiry` |
| `retry` | exchanges with two intents under one key; receipts kept for 1 tick of 5, one slot per window of 3 | `ReceiptMatchesExecution`, `ExecutionsSpaced`, `ImplementsLedger` |
| `listing` | up to 3 accounts of two organizations with ids in any order, page limits 0 to 3 where 2 is the largest allowed | `WalkComplete`, `ListedOnce`, `CursorLeadsOn` |
| `lifecycle` | a creation and an exchange, two activations with three secrets, one too short; 2 ticks | `DatabaseQuiet`, `KeysCurrent`, `ExecutionsSpaced` (no receipt is old enough to be pruned here: that is `retry`) |
| `liveness` | create, rotate and exchange for one account, one activation and its end, under fairness | `DeactivationEnds`, `CallsReturn` |
| `rate_limiter` | 3 calls in flight, 2 slots per window of 3, lockout 2, 9 ticks | `RateBounded`, `LockoutBounded`, `LockoutHolds` |
| `authorization` | every kind of call, one at a time, against every change of the services | `AdmittedWithAllFactors`, `RefusalsTrue`, `NothingDisclosed` |
| `contract` | every outcome of six operations through up to 3 peers, each lacking any one code or none | `OutcomeKept`, `VariantsUnderstood` |
| `configuration` | a valid configuration with any two fields moved to, just below or just above their limits, and lists with an item twice | `AcceptedIsUsable`, `SchemaAgrees` |

Bounds: two handlers at a time (`Handler`), `MaxClock`, the finite id sets and
the request set of each run. Two handlers suffice for each race listed: every
property is about a pair of commands or calls, and since a handler may fail at
any point and accept another request, what earlier handlers left behind appears
as well. The lifetimes are chosen so that credentials expire, the overlap ends,
receipts are pruned and the rate limit locks out within the clock.
`MaxGeneration`, `MaxGrants`, `LastTime` and `MaxHops` bound activations, slots,
the limiter's clock and the peers; a second activation, a third window and a
second hop are the cases that matter. Calls in `Authorization` share nothing but
the services' state, which changes freely, so one call at a time is enough there,
and the proofs have any number. Handlers are interchangeable, and so are ids and
subjects that no request names: hence the symmetry sets. `liveness` uses none.

Deadlock is checked where it can mean anything: a run of `ServiceAccount`,
`Listing`, `RateLimiter` or `Authorization` always has a call to accept.
It is off in `lifecycle` and `liveness`, where a plugin that was deactivated for
the last time stops, and in `contract` and `configuration`, which end when the
outcome has arrived or the verdict is given.

Fairness is stated in `Plugin` and used by `liveness`: weak for the steps of an
accepted call that do not wait for a lock (its future is polled until the pool,
the statement or the dependency answers or fails; a refused connection is such a
failure), strong for those that wait for a row lock or the advisory lock, because
PostgreSQL grants a lock in the order of its queue, and weak for the end of
`pool.close()` once all connections are back. Neither new calls, nor failures,
nor activations, nor the clock are assumed. The code sets no timeout on the
Directory and the Issuer: that they answer is an assumption about them.

### What the rotation_check run shows

`rotate_secret` reads its clock at `management.rs:417`, before `rotate_account`
waits for the account's row. If a rotation with the next revision is already in
flight when the first one commits, its time is older than the start of the first
one's credential, and `valid_until=LEAST(valid_until,$2)` (`storage.rs:406`)
would end that credential before it starts as soon as the overlap is shorter
than the delay. `CHECK (valid_from <= valid_until)`
(`migrations/001_create_service_account_state.sql:43`) refuses the row, the call
fails at run time, and its command stays `reserved`. Nothing unsafe is stored.
`revoke_account` reads its clock under the lock and uses `GREATEST(valid_from,
...)`.

### Observations

Not disagreements with anything the repository says, but worth knowing:

- Calls that waited for the caller's row with old clock readings can use up the
  slots of several past windows at once. `RateBounded` is the bound that holds.
- `credential_expires_at` follows `created_at`, the start of the creating
  transaction. A rotation that began earlier and committed later is not the
  newest credential, so a summary may report the expiry of one that has already
  been superseded: too early, never too late (`ExpiryNotOverstated`).
- Membership and permission held at some moment of the call; neither need hold
  when the handler commits, and they need not have held at the same moment.
- A code that a peer does not know is passed on as an object and then stays
  `Unknown` also for clients that do know it. The code itself is kept.
- After a change of the receipt key, retries of finished commands fail until the
  old receipts are pruned. They are not executed again.

## Proofs

Every theorem holds for all sets of handlers, requests and ids (calls, callers,
persons, organizations), every configuration that satisfies `ConfigAssumption`,
and any bound on the clock.

| module | theorems |
|---|---|
| `ServiceAccountProofs` | `TypeCorrect` (`[]TypeOK`), `CommandsSolelyOwned` (`[]SoleOwner`) |
| `AccountProofs` | `AdmissionsAreCurrent` (`[]AdmissionCurrent`), `TokensEndWithCredentials` (`NoTokenAfterExpiry`), `OverlapIsBounded` (`[]OverlapBounded`), `NothingIsRevived` (`NothingRevived`), `RevisionsWonOnce` (`[]RevisionWonOnce`) |
| `OutcomeProofs` | `OrganizationsAreBounded` (`[]OrganizationBounded`), `OutcomesAreTruthful` (`[]OutcomesTruthful`), `RevokedAreReportedEnded` (`[]RevokedReportsEnded`), `ExpiryIsNotOverstated` (`[]ExpiryNotOverstated`); of `ListingSpec`: `WalksAreComplete` (`[]WalkComplete`), `RowsAreListedOnce` (`[]ListedOnce`), `CursorsLeadOn` (`[]CursorLeadsOn`) |
| `LedgerProofs` | `ReceiptsMatchExecutions` (`[]ReceiptMatchesExecution`), `ExecutionsAreSpaced` (`ExecutionsSpaced`), `AbandonedCommandsStay` (`AbandonedStays`), `PluginImplementsLedger` (`ImplementsLedger`) |
| `RateLimiterProofs` | `RateIsBounded`, `LockoutIsBounded`, `LockoutLasts` (`LockoutHolds`) |
| `AuthorizationProofs` | `AdmissionNeedsAllFactors`, `RefusalsAreTrue`, `NothingIsDisclosed` |
| `BoundaryProofs` | `AcceptedConfigurationsAreUsable` (`[]AcceptedIsUsable`), `SchemaAgreesWithCode` (`[]SchemaAgrees`), `OutcomesAreKept` (`[]OutcomeKept`), `VariantsAreUnderstood` (`[]VariantsUnderstood`) |
| `PluginProofs` | of `PluginSpec`: `DatabaseIsQuiet` (`DatabaseQuiet`), `KeysAreCurrent` (`KeysCurrent`), `RestartsDoNotReexecute` (`ExecutionsSpaced`), `SolelyOwnedAcrossRestarts` (`[]SoleOwner`), `TruthfulAcrossRestarts` (`[]OutcomesTruthful`), `AbandonedAcrossRestarts` (`AbandonedStays`), `NothingRevivedAcrossRestarts` (`NothingRevived`), `LifecycleImplementsLedger` (`ImplementsLedger`) |

Assumptions: `ConfigAssumption` (what `validate` accepts, lower limits scaled to
ticks), `RequestAssumption` (shape of requests, `None` is no id),
`OrderAssumption` (ids are totally ordered, as the primary key of
`service_accounts` is), `CredentialOrderAssumption` (the same of credential ids,
the last key of `load_account`'s ORDER BY), `SecretAssumption` (long secrets are
secrets), `ClockAssumption`, `LimiterAssumption`, `CallersAssumption`,
`ContractAssumption` and `ProposedAssumption` (types of the constants). TLC
evaluates each in the runs of its module.

`TypeOK` is not inductive: which fields a request has depends on its operation,
so a step such as `VerifySecret` keeps the types only if the handler really
serves an exchange. `TypeInv` adds `ControlOK`, which ties the position of a
handler to the operation of its request and to what its frame holds. Each action
has its own lemma; helpers that several actions share (`Respond`, `Reject`,
`Leave`, the updates of a command row, the rate slot) have one each.

`SoleOwner` is not inductive either. `Prune` deletes by `completedAt`, so one
needs to know that an unfinished row has none (`OpenRows`, the last CHECK of
`service_account_commands`); and ownership has to be spelled out per handler
(what status goes with which position) with uniqueness among handlers. That is
`OwnerInv`. A reservation preserves uniqueness because it needs an absent row
while any owner's row is unfinished; every other step changes the row of its own
handler only.

`AccountInv` is the invariant behind four of the theorems of `AccountProofs`. `RowsOK` relates the two
tables: a credential has an existing account, satisfies the CHECK, and is
revoked only with its account; without it, `Superseded` would skip a revoked
row of an active account and `RevokedRow` could lengthen one. `Exclusive` says
that the row lock has one holder, and `Knows` what its holder has read and still
holds: active and at the expected revision before a rotation, unrevoked and
unshortened before an admission. Every step but three leaves both tables alone
(`TableKinds`); those three touch only accounts that their handler has locked or
that do not exist yet (`TouchesOwn`), so nothing another handler knows is lost
(`MutationStep`). `OverlapBounded` itself is a conjunct: a revocation keeps it
only because `NothingRevived` holds of its rows.

`NoTokenAfterExpiry` needs little: two steps only ask for or accept a token
(`AuthenticationNoToken`), and between them the expiry asked for stays within
that of the admitted credential (`ExpiryInv`), which `AdmissionCurrent` shows to
be the one in the table.

For `RevisionWonOnce`, `WonRows` adds what a success receipt says: after a
rotation the account's revision is past the one asked for, after a revocation
the account is revoked. A second winner would have to find the revision current
or the account active under its lock, which `Knows` excludes. That a receipt
carries the winner's own request is `OwnerInv`.

`OrganizationInv` is behind the limit of an organization. Whoever stands between
the count and the INSERT holds the advisory lock alone (`OneInserts`) and has a
place left (`PlaceLeft`); a row that is not there belongs to no organization
(`BlankRows`), so the INSERT adds one account to one organization. Sets of
accounts need to be finite for their cardinality to mean anything.

`TruthInv` is behind `OutcomesTruthful`. An answer is true when it is decided,
under the lock that protects what it speaks of; that it stays true rests on
monotonicity: names, accounts and executions only grow (`Grows`), and nothing is
revived (`NothingRevivedBy`). `Fits` records that an error is one of the
operation asked for, since otherwise it would speak of fields the request does
not have, and `HandlerTrue` that a handler about to rotate or revoke has found
the account in the organization of its request. Each action then only has to
justify its own answer and receipt (`Sound`): neutral refusals say nothing of the
accounts, telling ones are read off the tables, a replay repeats a receipt, and
an error receipt repeats its handler's answer.

`LedgerInv` relates the command row of a key to when the key took effect.
`RowInv`: an absent row's last execution is more than `ReceiptTtl` ago, a
reserved or refused one has none since its reservation, a success has one no
later than its completion. `HandlerInv` carries this through a handler's clock
readings: everything it will do at time `frame.now` or in the transaction begun
at `frame.begun` is due, although `now()` is the transaction's start and the
clock has moved on. The steps are grouped by what they do to rows and executions
(`Quiet`, `Executes`, `Commits`, `Stores`, and `Accept`, `Reserve`, `Record`,
`Admit`); each group has one lemma for the invariant and one for the refinement.

`LimiterInv` bounds the number of windows by the start of the current one and the
slots granted by the windows before it and the attempts in it, and says that
clock readings lie in the past: a stale reading can then neither move the window
back nor reach the end of a lockout. `AuthInv` says of every stage of a call what
has been seen on the way there; `seen` only grows while the call runs, so what it
has once shown stays.

`ReadInv` is behind the two theorems about summaries. That a revoked account is
reported as ended rests on `revoke_account` reading its clock under the row lock:
no credential of the account starts after that reading (`StartedBy`), so
`GREATEST(valid_from, LEAST(valid_until, now))` is at most `now`. Were the clock
read before the wait, as in `rotate_account`, the invariant would fail. An
account that is there has a credential, and finitely many (`Equipped`), so the
newest one of the subquery exists; `NewestExists` finds it from the
well-foundedness of strict inclusion on finite sets. What `ExpiryNotOverstated`
adds to that is `OverlapBounded`.

`WalkInv` says of a client on its way through the pages that what it has got lies
at or before its cursor (`Counted`) and what it is still to get beyond it
(`Outstanding`). A page is an initial segment of the rows beyond the cursor
(`PageIsInitial`), has no more rows than its limit (`PageBounded`), and the extra
row is there exactly if rows remain (`ExtraRow`). Handlers that write between two
pages keep all of it because accounts are neither deleted nor moved
(`NothingRevivedBy`, `BlankRows`).

`VerdictInv` and `ContractInv` carry `BoundaryProofs`. The first says that
`valid` is what `Validate` gave; the theorems are then arithmetic over the
limits and the lengths of lists, whose uniqueness the schema and the code state
alike. The second says at every stage what a message still carries of the outcome it began as (`Carries`),
or that it was garbled and can only end as a runtime failure (`Lost`).

`PluginInv` says that a published state has the secrets `activate` resolved last
(`LifecycleOK`), that only a closing pool drains, and that it drains connections
of the last activation (`PoolOK`). A handler that changes a table runs a
statement (`StatementsOnly`), so it has a connection and with it the current
secrets (`WritersAreCurrent`): both `DatabaseQuiet` and `KeysCurrent` follow. The
other theorems carry over what is proved of the handlers: a step of the plugin is
one of `ServiceAccount`, or none, or one of two that `ServiceAccount` has not
(`PluginMoves`): a secret that fails to verify although the row is usable, and a
receipt that cannot be opened. Neither changes a table (`InterruptEffect`), and
each invariant survives them by a lemma of its own.

Only model-checked: `CallsReturn` and `DeactivationEnds`, which are liveness under
fairness and out of the prover's reach. `RotationKeepsCheck` is false. Every other
property of a run is stated by a theorem. The modules have no recursive
definition.

## Plan

1. A refinement from the limits of `ServiceAccount` to `RateLimiter`, so that
   `RateBounded` and the two properties of lockouts are theorems of exchange
   itself and not only of the limiter alone.
2. `RevisionWonOnce`, the limit of an organization and the summaries under
   `PluginSpec`, as the other guarantees are.
3. The state of the Identity Directory and of the Issuer, if their contracts come
   to say more than that they answer.

## Not modelled

- The internals of Argon2id and AES-GCM, and the randomness of ids and secrets:
  assumed to do what they promise.
- The state of the Identity Directory and the Credential Issuer. A subject that
  `ensure_identity` leaves behind when a creation fails, and one that is disabled
  between `read_status` and the Issuer's call, are theirs.
- `upgrade`: there is one migration, so it has nothing to do.
- The wiring of clients to the host's ports, the integration tests and the
  release tooling.
