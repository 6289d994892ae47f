# Verification of the embolsadora cloud

This directory holds TLA+ specifications of the Go backend in this repository
(the cloud side of the "embolsadora 4.0" bagging machines), the TLC
configurations that check them on small instances, and TLAPS proofs of the
properties that matter most for instances of every size. `PROJECT.json` ties
every definition to the source lines it models, every property to a run, and
every hazard of the code to the properties that would catch it.

Running it: `tlc -config X.cfg MCModule` for a run of the table below,
`tlapm SomeProofs.tla` for the proofs.

## 1. The system and its parts

Edge devices (a Raspberry Pi next to each machine) push measurements to the
cloud; people administer devices, users, roles and dashboards through a JSON
API. State lives in Postgres (users, memberships, roles, invitations, devices,
API keys, layouts, rules, notifications, logs), MongoDB (measurements), Redis
(credential cache, rate-limit buckets) and Supabase (accounts and mails,
external). The process itself keeps little: connections, the log subscribers
and the choice of the measurements repository made at boot.

| Component | State | Operations | Hard behaviour | What makes it correct |
|---|---|---|---|---|
| Measurement ingest (`internal/consumers`, `internal/app/ingest`, `internal/repo/mongo/measurements`) | `measurements` and its unique index; the repository chosen at boot; the Edge's outbox (outside) | `EnsureIndexes`, `IngestEvents`, `IngestBatch`, `InsertMany`, `recordActivity` | retries that overlap the first try, partial failures inside one batch, writes the server applies after the driver gave up, crashes, bodies cut short by the read timeout, three nested position spaces (batch, valid, encoded) | what the Edge forgets is stored, what it buries is unstorable or never arrived whole, one document per tenant and eventId, tenants apart, the outbox drains |
| Edge device registry (`internal/app/edge_devices`, `internal/repo/pg/edge_devices`, `internal/platform/edgeclient`) | `edge_devices`, `device_events` | create, edit, enable, disable, status check, health check, `TouchLastSeen` | read-modify-write editions against column updates, two writes per check with either failing | health has an audit event behind it, editions take nothing back |
| Device API keys (`internal/security/apikeys_authenticator.go`, `internal/repo/pg/apikeys`) | `edge_device_api_keys`, the Redis entry per key, the throttle of `last_used_at` | create, revoke with invalidation, authenticate | a login that read before the revocation and stores after it, failed invalidation, status of the device inside the cached entry | a revoked, expired or disabled key is refused, at the latest after the TTL |
| Rate limits (`internal/consumers/ratelimit.go`, `internal/api/middleware/dashboard_ratelimit.go`) | one Redis hash per device or user | `Allow` (Lua token bucket), fail-open middleware | clock read before the script, expiry of the hash, rounding of Retry-After | grants per window stay under burst plus refill; Retry-After is long enough |
| Invitations and activation (`internal/api/usecases/invitation_usecase.go`, `password_usecase.go`) | `user_invitations`, the user's status and password flag, memberships | create with mail and compensation, resend, revoke, activate on login, password flag | no transaction spans the steps; several requests of one person activate at once; each write may fail | an accepted invitation made its member, an active user was told to set a password, pending invitations are settled |
| Request pipeline (`internal/api/middleware`, `internal/security`, `internal/platform/tenantctx.go`) | the context of each request | `JWTAuth`, `TenantFromHeader`, `resolvePlatformOperator`, `loadRolePermissions`, `RBACCheck`, `PasswordChangeGuard` | three queries, each of which may see another database than the one before; everything after them works on the copy in the context | a caller acts with a role it held, in a tenant it may reach |
| Memberships (`internal/repo/pg/user_roles`, `internal/api/usecases/user_roles`, `internal/app/users`) | `user_tenant_roles`, `users` | assign, bulk assign, update, revoke, change of status, users created with a role, edited and deleted | unique partial index against revoked rows, several rows per user and tenant, lookups before writes | at most one active membership per user and tenant; global memberships are changed and seen by `super_admin` only; tenants stay apart |
| Roles and permissions (`internal/app/roles`, `internal/app/permissions`) | `roles` (with their permissions as JSON), `permissions` | create, update, delete, with the limit of custom roles | count then insert, stale copies, deletion against assignment and against a role being written, a transaction whose second statement looks at the roles before the COMMIT | nobody grants a platform permission he does not hold; a deleted permission leaves the roles |
| Dashboard layouts (`internal/app/dashboard_layouts`) | `dashboard_layouts` | create, update, soft delete with limits | `SELECT ... FOR UPDATE` under READ COMMITTED does not lock rows that do not exist yet; statements that hold rows and names while they wait for others | between one and `MaxLayoutsPerUser` layouts |
| Log stream (`internal/app/logs`, `internal/repo/pg/logs`) | subscribers of the process, `log_entries` | subscribe, unsubscribe, publish, SSE, keyset pages, export, context window | publication outside the lock over a slice that unsubscribing shifts; full buffers; several statements per read while rows are inserted (nothing in the repository calls the service's `Write` yet, `specs/009-log-service/spec.md:24`) | the slice lists the open connections once, an undisturbed publication reaches each once, reads neither skip nor repeat |
| Dashboard metrics (`internal/app/dashboards`, `internal/repo/mongo/metrics`, `internal/domain/metrics`) | reads `measurements` | windows, guardrails, aggregates, merge of series, decimation, groups, batch | fan-out with a limit, timeouts and cancellation of siblings, measurements that arrive meanwhile, rounding in the decimation | the answer is about exactly the query's samples, within the limits; items do not disturb each other |
| Tenants, alarm rules, notifications | their tables | create, read-modify-write updates, delete; acknowledge and close | a tenant deleted under handlers that looked at it | no role, permission, rule, membership or user outlives its tenant, nothing is reached from another one |
| The other HTTP handlers and DTOs, configuration and start, mail templates | | parsing, formatting, wiring | | not modelled, see section 7 |

How they interact: the ingest handler sits behind `APIKeyAuth` (API keys) and
`RateLimit` (token bucket) and calls `TouchLastSeen` of the registry; key
authentication reads the device's status; `JWTAuth` calls the activation of
invitations, which writes memberships that the pipeline then reads. Every
request of the back office (users, memberships, roles, permissions, tenants,
rules, notifications) runs behind the pipeline, whose queries read the very
tables the handlers write.

## 2. Modules

| Module | Models | Uses |
|---|---|---|
| `Ingest` | the request from envelope to answer, boot, MongoDB and the Edge's outbox as external parties | |
| `OutboxDelivery` | what the ingest path promises the Edge: each row is stored at most once, acknowledged only when stored, buried only when it cannot be stored or given up, on record, with a whole batch | |
| `IngestDelivery` | the refinement mapping from `Ingest` to `OutboxDelivery` | both |
| `IngestInvariant` | the inductive invariant of `Ingest` | `IngestDelivery` |
| `IngestProofs` | its theorems | `IngestInvariant` |
| `DeviceRegistry`, `RegistryProofs` | the device registry | |
| `DeviceKeys`, `KeysProofs` | the keys, their cache and logins | an instance of `DeviceRegistry` on shared variables |
| `TokenBucket` | the Lua script and its callers | |
| `Invitations`, `InvitationsProofs` | invitations, activation and the password flag of one address | |
| `Layouts`, `LayoutsProofs` | the dashboard layouts of one user as transactions with row locks | |
| `Access` | the pipeline of a back-office request: tenant, effective role, permissions, check | |
| `RoleCatalog` | custom roles and permissions | `Access` |
| `Membership` | `user_tenant_roles` and `users` | `RoleCatalog` |
| `Backoffice` | tenants, rules, notifications, and the composition of all of it: any requests at once over one database | `Membership` |
| `BackofficeProofs` | its theorems | `Backoffice` |
| `LogStream` | subscribers, publication, the SSE handler and the insertion of entries | |
| `LogQuery` | pages, export and context over the table `LogStream` writes | `LogStream` |
| `LogProofs` | the theorems about both | `LogQuery` |
| `MetricsRules` | windows, validation, guardrails, the decimation: the pure part | |
| `MetricsQuery` | single and batched queries as processes over a collection that grows | `MetricsRules` |
| `LimitsProofs` | the theorems about `TokenBucket`, `MetricsRules` and `MetricsQuery` | `TokenBucket`, `MetricsQuery` |
| `MC*` | the constants of the runs | |

### Ingest

State: `proc` is the process (`down`, `serving`, or `degraded` with the
`Unavailable` stub), `index` the unique index of `measurements` (none, the old
global one on `eventId`, or the one on tenant and `eventId`), `store` counts
documents per key, `orphans` are documents of abandoned calls that the server
may still apply, `req[r]` holds the locals of a request being served,
`outbox` and `waiting` belong to the Edge. `cause` is a history variable: why a
buried row was buried (its own entry in `errors[]`, the envelope, or a body that
was not read).

A batch is a sequence of outbox rows and each row carries the classes of values
`ValidateEvent` tells apart. The validation loop, the encoding loop and
MongoDB's application of an unordered `InsertMany` are one action per element,
so that two requests with the same rows interleave everywhere. The three
position spaces are kept: `origIndex` translates from the valid slice to the
batch, `sent` from the encoded slice to the valid one, as in the code.
`Answer` is each early return; `RowAfter` is the Edge's half of the contract:
`400` buries the batch, a terminal code buries its row, no entry or
`DUPLICATE` acknowledges it, everything else is retried.

`BodyUnreadable` is the error of `io.ReadAll`: the Edge went away in the middle of
the body, or it still waits and the server's `ReadTimeout` (`cmd/api/main.go:104`)
cut it short. The handler answers 400 in both cases, and in the second one the Edge
buries the batch. The code therefore does bury storable rows, and the properties
say so: `DeadIsUnstorable` and the abstract `Lose` allow it for that cause (and for
batches beyond the envelope) and for no other, `BadRequestIsEnvelope` says that a
400 is never given once the batch has been read and accepted, and
`BadRequestIsHopeless`, which is what the handler's comment promises, is refuted
(section 5).

### DeviceRegistry and DeviceKeys

A row of `edge_devices` is its status, its configuration, whether it was seen
and its health. An edition is two steps (`UpdateRead`, `UpdateWrite`), a check
four (`CheckBegin`, the device's answer, `SaveEvent`, `UpdateHealthState`),
both writes of a check may fail.

`DeviceKeys` runs on the registry's variables and adds the key table, the Redis
entries with their remaining life, the throttle and one record per login. A
login is the steps of `Authenticate`: cache, Postgres, store, verdict, touch;
Redis and Postgres may fail at each. `RevokeAPIKey` is find, revoke,
invalidate. `cleared` and `late` only serve to state `RevokedThenRefused`.

### TokenBucket

The script's arithmetic on integers: `Unit` is a token, `Refill` the tokens per
time unit, so that fractions of a token are exact. `Allow` is the script, atomic
in Redis; `ReadClock` precedes it by at most `Lag` and may be off by a `Skew`.
`FailOpen` is the middleware's behaviour when Redis does not answer.

### Invitations

One address, several tenants. `inv` is the status of each invitation row, `late`
the ones past their expiry (a row keeps `pending` until somebody looks),
`member` the membership, `status`, `mustChange` and `flagged` the user. `sess`
is a request inside `ActivatePendingInvitations`, `admin` one inside
`CreateInvitation` with its mail and its rollback. Writes that the code only
logs as failed are two outcomes of one action; writes whose failure ends the
request are an action of their own.

### Layouts

The layouts of one user in one tenant. `row` is the committed table (soft-deleted
rows are invisible to every statement and are not kept), `tx` each request's
transaction: the next statement, its arguments, and the rows its
`SELECT ... FOR UPDATE` has still to lock (`todo`) and has returned (`held`).
Rows are locked one at a time in any order, since the statement gives none; a
row deleted during the wait is left out, a row committed after the start is not
seen. `Undecided`, `Settled`, `NameTaken` and `NameFree` are the partial unique
index, which makes a statement wait for a name that an open transaction takes or
gives up. An edition is a read and an UPDATE in three steps: it waits for its row
(`UpdateLock`), then, holding the row and its old name, for the new name
(`Rename`), then it commits (`CommitRename`). Two renames that swap names therefore
wait for each other. `WaitsFor` is who waits for whom, over rows and names alike,
and `Deadlocked` a set of transactions that all wait inside it, which the deadlock
detector ends (`DeadlockVictim`). `Fail` and `DeadlockVictim` are the deferred
Rollback.

### Access, RoleCatalog, Membership, Backoffice

One chain of modules over one set of tables. `pc[r]` is where a request stands,
`ses[r]` its context (caller, tenant, effective role, permissions), `arg[r]` the
locals of its handler. A request arrives from one of `Callers`, goes through the
three queries of the pipeline, and then runs any handler whose route its
permissions allow; every statement of a handler is a step, so that a second
request can change the tables between a lookup and the write that relies on it.
What the code takes from a copy it keeps in `arg` (the permissions a role had,
the tenant of a user, the includeGlobal of the caller) is taken from there.

The database contributes what it enforces: the partial unique index on active
memberships, the trigger and `tenant_can_use_role`, foreign keys and cascades.
A deleted tenant takes its rows along (`UtrWithout`, `DropTenant`), unless a
foreign key without CASCADE forbids it (`Deletable`). Ids are not reused: the
rows of a deleted owner are `Gone`.

Answers that show records keep them in `arg[r].shown` until they are delivered,
each with the role it shows, the column that came from and the tenant it belongs
to; that is what `Cloaked` and `Isolated` speak of. `granted`, `tainted`,
`dropped` and `raced` are history variables: which operator permissions a global
caller has handed out, and which roles were written from a validation that a
deletion has overtaken.

The deletion of a permission is a READ COMMITTED transaction of two statements and
has a step for each point at which another request can come in between:
`DeletePermissionRow` (waits for another deletion of the row), `FindRoles` (the
snapshot of the UPDATE), `LockRoles` (the rows are locked and looked at again) and
`CommitDeletion`, before which nobody sees anything of it. A role counts as `raced`
when its writer validated the permission before the COMMIT and wrote after it
(`tainted`), or wrote between the snapshot and the COMMIT a row the UPDATE had not
found (`Overlooks`). Writers of a role wait while its row is locked (`Locked`), and
so does the deletion of the tenant.

Texts, dates and the columns of tenants, rules and notifications that no
property tells apart are left out; a taken name or address is a failure of the
statement (`Fails`).

### LogStream and LogQuery

The subscriber list is modelled as Go implements it: `cells[t][n]` is the array
of size `n` of tenant `t`, `subs[t]` the slice (array and length), and `Publish`
walks the slice it copied, re-reading the cells one by one without the lock while
`Unsubscribe` shifts them one by one under it. `calm` records that nobody of the
tenant unsubscribed while a publication ran. A channel keeps all it ever got and
how much was read. The log readers take one step per statement; `base` is what
matched when the request began, which is what the answer is held against. An
`ORDER BY ... LIMIT n` is given by what it promises (`Newest`, `Oldest`): rows in
the order, and whoever is left out has `n` rows before it.

### MetricsRules and MetricsQuery

An aggregate is represented by the set of samples it is about, so that the
properties can say "about exactly these"; sums and averages themselves are
MongoDB's. `work[i]` is an item of a batch (a single query is a batch of one)
with the outcome of each of its aggregates; the errgroup's cancellation, the
timeout of an aggregate and a client that leaves are steps. The fan-out limit is
`BatchLimit`. `$sort` and `$limit` are given by what they promise (`Fetched`), and so
is `sort.Slice` over the buckets (`InOrder`): any order among equal timestamps.
The catalogue's `Distinct` answers, times out or fails (`Catalog`).

## 3. Runs

| Run | Checks | Shows |
|---|---|---|
| `ingest_mixed` | `AckedIsStored`, `DeadIsUnstorable`, `StoredOnlyByOwner`, `AnswerFaithful` | three rows of one device, one good, one BSON cannot encode, one about another machine, in all batches and orders, two requests at a time, two faults |
| `ingest_tenants` | `NoDuplicates`, `BadRequestIsEnvelope`, `Delivers`, `DrainsUnlessDegraded` | two tenants with the same `eventId`, over a database that may carry the old global index, batches larger than `MaxEvents`, bodies cut short, under fairness; the path implements `OutboxDelivery` and the outbox drains |
| `ingest_unread` (violation) | `BadRequestIsHopeless` | a finding of section 5 |
| `registry` | `HealthHasEvidence`, `ActivityKept`, `DisableSticks` | two operations at a time over two devices; a disabled device comes back only by an edition that read it before, or by `EnableDevice` |
| `keys` | `RevocationSticks`, `RefusedInTheEnd` | a login against revocation, expiry, editions, enable and disable and failing Redis and Postgres |
| `keys_recache` (violation) | `RevokedThenRefused` | a finding of section 5 |
| `bucket` | `OverlapBound`, `RetryHonest` | two overlapping calls on clocks that differ, each up to `Lag` late, scripts in any order |
| `invitations` | `AcceptedIsMember`, `ActiveWasFlagged`, `PendingDrains`, `RevocationFinal` | two tenants invite one person, two faults anywhere, revocations at any moment |
| `layouts` | `NamesDiffer`, `LimitBounded`, `SomebodyProceeds`, `KeepsOne` | creations, editions and deletions of one user, two at a time, any lock order, renames that hold rows and names while they wait, any statement failing |
| `logs` | `StreamTypeOK`, `ListedOnce`, `CalmDelivery`, `PagesFaithful`, `ExportHonest`, `ContextContiguous` | two connections, one of them possibly leaving during a publication, a writer, and a reader whose statements straddle the insertions |
| `backoffice` | `BackofficeTypeOK`, `NoEscalation`, `DanglingOnlyByRace`, `Cloaked`, `Isolated`, `NoOrphans`, `PlatformGuarded`, `RetiredForGood`, `RoleLimitBounded` | any two requests of five callers (super_admin, admin of the platform in both tenants, admin and member of the client), at every interleaving of their statements, any of which may fail |
| `metrics` | `AnswersFaithful`, `ItemsIndependent` | every mode and every rule of the validation, batches of up to three items with failures, timeouts and a client that leaves, one sample arriving anywhere |

Every property of a passing run has a mutant in `PROJECT.json`: a change to one
definition of the kind a plausible bug would make, under which the same run
reports the property violated. The type invariants of `Ingest`, `DeviceRegistry`,
`DeviceKeys`, `TokenBucket`, `Invitations` and `Layouts` and the special case
`RateBound` are in no run: section 4 proves them for every instance.

### Bounds, and why they are enough

* `MaxFaults` bounds what the environment breaks (timeouts, crashes, refused
  writes, failed statements). Two allow a fault while the code recovers from
  the first: a timeout and then a crash of the retry, a partial rejection and
  then a lost answer. The proofs have no such bound.
* Two request slots are what an Edge that gives up and retries can have in
  progress; with two tenants they are also two devices at once.
* Three rows are the least that exercise both index translations in one batch
  (a row dropped by validation, one dropped by the encoding, and a good one
  behind them); that is `ingest_mixed`, which has one tenant, so a false
  `DUPLICATE` from the old global index cannot happen there. It can in
  `ingest_tenants`, where `Delivers` would report it. `MaxEvents` is below
  `EdgeBatch` in `ingest_tenants` only: there a batch of two rows breaks the
  envelope and a batch of one is served.
* `TTL = 2` and `TouchEvery = 1`: an entry can be old and still alive. One login
  in `keys` is enough for the properties TLC keeps there, because the cache is
  what one login leaves to the next; `keys_recache` has two, and the theorems
  have any number.
* The bucket: `Unit = 3` against `Refill = 1` makes fractions of a token, and
  `MaxTime` lets the bucket empty, fill and expire more than once. A clock
  is up to `MaxSkew` ahead, and `MaxBack` bounds how far the scripts of a
  window set `ts` back altogether: several rewinds, each as long as `Lag` and
  `MaxSkew` allow. `OverlapBounded` has neither bound on time nor on rewinds.
* One session in `invitations` with two invitations; overlapping sessions are
  covered by the theorems of `InvitationsProofs` alone.

* Two requests on four layouts with a limit of two: both can be inside, one below
  and at the limit, and `LimitBounded` is tight. Ids, names and requests are
  interchangeable, so the run uses symmetry.

* Two requests in `backoffice`: each hazard of section 1 is a write between another
  request's lookup and its write. Three tenants (the platform, a client, one yet to
  be created), three custom roles and two custom permissions (one of each exists,
  the role possibly deleted) and a user with rows in two tenants, of which the
  second may be active, pending or revoked. With a limit of one custom role two
  creations at once reach two in a tenant that had none, so `RoleLimitBounded` is
  tight, and a third would find an id. Requests, free rows and free role ids are
  interchangeable (symmetry): about 525,000 states. The theorems have any number of
  everything.
* `logs`: a buffer of one entry makes dropping happen at once, arrays of 1, 2 and 4
  cells let the slice grow and shift, two entries with the same `created_at` are
  committed in the opposite order of their ids (an older row appears behind a newer
  one), pages of one row and an export of two out of three.
* `metrics`: eight samples around one window, with two of one instant, one that is
  no number, two keys that print alike, and neighbours of another metric, machine
  and tenant; limits of two buckets, three points and two groups, met and passed;
  a fan-out of two for three items. The positions of the decimation are exact at
  these lengths; that truncation does no harm at others is `DecimationSound`.

`CHECK_DEADLOCK FALSE` appears where the system may stop: in the ingest
configurations when every row is settled, in `logs` when everybody has left and
everything is written, in `backoffice` after `MaxRequests` requests.

### Fairness

* `Ingest!FairSpec`: the supervisor boots a process that is down (weak fairness
  of `Boot`), the Edge keeps sending while rows are pending (its outbox loop,
  outside this repository), a handler that runs gets to its end, MongoDB applies
  what it received, and the HTTP answer arrives at whoever waits. Faults are not
  fair, only bounded.
* `DeviceKeys!FairSpec`: time passes, and a login that began ends (every Redis
  and Postgres call has a timeout in its context). Nobody has to send requests.
* `Invitations!FairSpec`: the person keeps sending requests, each of which ends.
  Administrators owe nothing.

## 4. Proofs

All theorems hold for every value of the constants that satisfies the named
assumptions (`IngestAssumption`, `RegistryAssumption`, `KeysAssumption`,
`InvitationsAssumption`, `LayoutsAssumption`, `AccessAssumption`,
`RoleIdsAssumption`, `CatalogAssumption`, `MembershipAssumption`,
`BucketAssumption`, `RulesAssumption`, `LogStreamAssumption`, `LogQueryAssumption`,
`MetricsAssumption`, `ErrAssumption`). They say that the constants have their types,
that the "nothing" values are not real ones, that what is counted is finite
(layouts, transactions, requests, custom roles, membership rows, log entries,
samples), and that the default page size of the logs is at least one, as
`DefaultLimit` is in the code. TLC evaluates them in every run.

* `IngestProofs`. The safety properties are not inductive: that an acknowledged row
  is stored depends on what the request knew when it answered. `IInv`
  (`IngestInvariant`) says for each program point of a request what its locals mean:
  which positions were validated (`origIndex` increasing and storable up to
  encoding), which were encoded, which documents were already applied or reported,
  and that `errs` and the status of an answer are true of the store; that a body
  which was not read is answered 400 before anything was validated, and that only
  buried rows have a cause on record (`CauseInv`); plus that the index in place is
  the one a served request relies on, that orphans belong to storable rows, and that
  the Edge waits for its own request. From it: `IngestTyped`, `IngestKeepsAcked`,
  `IngestBuriesHopeless`, `IngestStoresOnce`, `IngestStoresOwn`,
  `IngestRefusesEnvelopesOnly`, and `IngestDelivers`: every step of `Ingest` is a
  step of `OutboxDelivery` or leaves its variables alone; an answer that buries a
  batch is a `Lose` when its cause is the envelope or the body, and a `Settle`
  otherwise. `IngestAnswersFaithfully` needs one thing more, that no position of the
  batch gets two entries in `errors[]` (`SpokenOnce`): the validation, the encoding
  and the server each speak of positions of their own, and the two translations are
  injective.
* `RegistryProofs`. `RegistryInv` adds to `HealthHasEvidence` that a check about
  to write the health has its event in the trail (`CheckAudited`), and that a
  device without a row has no health. `RegistryKeepsActivity` is the action
  property from the same invariant. `RegistryStaysDisabled` is about the copies
  instead: `OutOfService` holds the row and every edition's copy of it, and no step
  but `EnableDevice` makes either of them anything but disabled.
* `KeysProofs`. `KeysInv` says that a login past the verdict holds a credential
  that passed it, and that only issued keys have a credential. With it
  `RevocationSticks` is shown action by action.
* `InvitationsProofs`. `IInv` says that a request about to accept has its member,
  that one past the loop activated somebody, that the flag precedes the status,
  and that a rollback works on an invitation that is its own. From it
  `InvitationsTyped`, `InvitationsMakeMembers` and `InvitationsFlagActive`.
  `InvitationsStayRevoked` needs one fact more (`Announced`): an administrator who is
  still creating an invitation is the only one to touch it, so a revoked one has no
  creation or rollback in progress that could write its status again.
* `LayoutsProofs`. `LayoutsInv` says that no row is locked twice, that a deletion
  which was decided has locked a row it leaves, that a rename holds its row, and
  that the id and the name of an insertion or a rename not yet committed are nobody
  else's. From it `LayoutsTyped`, `LayoutsDiffer` and the action property
  `LayoutsKeepOne`. `LayoutsProceed` is freedom from deadlock, with the guards of
  the steps in place of ENABLED (`Ready`): if nobody can move, every open
  transaction waits, for a row another one has locked or for a name it is taking or
  giving up, so they all wait inside one set that waits on itself, and that is what
  the deadlock detector resolves. It needs that only the statements that lock hold
  rows (`OnlyLockersHold`) and that a name nobody open is deciding is either free or
  taken (`NameDecided`). The second half says what such a set is made of
  (`CirclesKnown`): whoever waits for a name in it waits for the old name of a
  rename, which waits for one itself (`RenamesMeet`), and without them whoever waits
  for a row waits for a locking SELECT, which waits for another. `LayoutsBounded`
  counts (`CrowdBounded`): for every limit `L` from `MaxLayoutsPerUser` up, the
  active layouts and the creations that may still pass a count against `L` together
  stay below `L` plus the number of requests. The statement is about every `L` at
  once because of the deletions: one makes room for creations that were waiting for
  its lock, and they contend for `L` only if they contended for `L + 1` before.
* `BackofficeProofs`, privileges. `PrivilegeInv` says what a request knows is still
  true of its caller, not of the tables: the permissions in a context are those of
  a role that may hold them (`ContextOK`), a writer past its check carries only
  operator permissions that were granted or that its caller may grant
  (`WriterOK`), a lookup's result fits the visibility it was made with
  (`LocalsOK`), and an answer fits its caller (`AnswerOK`). Since no conjunct
  depends on a table staying as it was read, another request's step cannot disturb
  it; what can is the role of a row, and there the guard is in the UPDATE itself,
  which is why `PlatformGuardedHolds` needs the shape of the rows (`RowShape`) and
  not the lookup. From it `NoEscalationHolds`, `CloakedHolds`, `IsolatedHolds` and
  the action property `PlatformGuardedHolds`.
* `BackofficeProofs`, tables. `Sound` is the database's side (`Tables`: each role,
  row, user, permission and rule fits its tenant, the unique index holds) and what
  a handler brings to its next statement (`CarriedOK`). Here the tables do change
  under a request, so a step owes the others two things: an owned role stays owned
  or dies (`RolesKept`), and a validated permission keeps its owner or taints
  whoever validated it (`PermsKept`). From it `BackofficeTyped`,
  `BackofficeNoOrphans` (foreign keys refuse the insertion that comes too late) and
  `BackofficeDangling`. The deletion of a permission needs an invariant of its own
  while its transaction is open (`Excises`): the permission is still the tenant's,
  two deletions of one permission are never open together (`Alone`), and every live
  role of the tenant it did not find lacks the permission or is `raced` (`Spared`).
  `DeletionsKept` is what the steps of others owe it.
* `BackofficeProofs`, deleted roles and the limit. One lemma (`ServeEnters`) says of
  every step what it looked at on the way to a write: whoever comes to assign a role
  saw it alive (`Entered`), a row gets no other role than the one its writer was
  about to write (`Named`), and only `InsertRole` brings a role to life
  (`NoNewRole`). `BackofficeRetires` follows directly. `BackofficeRoleLimit` counts:
  `Room` bounds the roles of a tenant and its creators together, because whoever is
  past the count may still insert. A creator that is let in counted less than the
  limit, an insertion turns a creator into a role, and everything else only takes
  away.
* `LimitsProofs`, the rate limit. `BucketTyped` and `RetryAfterHonest` hold for any
  number of callers and clocks, and so does `OverlapBounded`, which has one
  hypothesis: `Lag + MaxSkew <= Second`. It is what the extra second of `PEXPIRE` is
  worth: a script that arrives later than that after reading its clock may find the
  hash expired although by its own clock the bucket was not full yet, and gets a full
  one. The invariant holds the grants of the window and the tokens left in the hash
  against the burst, the refill up to the hash's own `ts`, and the time by which
  scripts have set `ts` back; once the hash has expired the time since the window
  began alone has paid for the grants, which is why starting full again gives nothing
  away. `RateBounded` is the case of `OneCaller` (one call at a time and no skew),
  where `ts` never moves back and the bound is the burst and the refill.
* `LimitsProofs`, dashboards. `DecimationSound`: the positions `decimateUniform`
  takes are strictly increasing and reach both ends, by the monotonicity of integer
  division; `BucketGuardrail`: what `checkBucketCount` lets through has at most one
  bucket more than `MaxBuckets` once `$dateTrunc` has aligned it. Both are used by
  `MetricsFaithful`, about any collection that grows under a request. Its invariant
  (`MetricsInv`) has two sides. Each aggregate that has returned is good against what
  it had to see, stored when the request arrived, and what it could see, stored by
  now (`SubGood`, one case per mode); the first never changes and the second only
  grows, so what was good stays good (`ItemStaysOK`), although the aggregates of one
  item saw different collections. And the plan of a running item is what `Validate`
  let through (`Planned`), which is where the bounds on points and buckets come from.
  `MetricsIndependent` needs the errors in it too: an item has one only after an
  aggregate of its own broke, or its query was refused, or the client left, because
  no goroutine hands its error to the errgroup and so `groupErr` stays false.
* `LogProofs`, the stream. `StreamInv` has four parts: the shapes, writers of
  different entries (`Apart`), the slice (`SliceOK`) and publications nobody
  disturbed (`CalmOK`). While `Unsubscribe` shifts, the slice has one cell that
  counts for nobody, the one overwritten next; `SliceOK` is about the others, and
  when the lock is free there is none (`SlicesExact`). `WalkOK` says that as long as
  nobody of the tenant unsubscribes, the cells of the copied slice show the channels
  they showed when it was copied, even if a subscription has moved the slice to a
  larger array, so the channels before the position reached had the entry once and
  the others never (`CalmDelivered`). `StreamTyped` holds calm or not.
* `LogProofs`, reads. `QueryInv` says at each point of a reader what its rows are:
  the pages so far are the matching rows newer than the cursor, apart from some that
  came later (`Paged`), an export lacks only rows older than all it has
  (`Exported`), a context has no gap towards the side already read (`Around`). It
  rests on the table only growing: `base` keeps matching, and an entry committed
  late lands anywhere and displaces nothing. From it `PagesComplete`,
  `ExportsHonest`, `ContextsContiguous`.

Only model-checked: the liveness properties (`DrainsUnlessDegraded`,
`RefusedInTheEnd`, `PendingDrains`), because fairness is out of the prover's
reach. Every other property of the passing runs has a theorem.

## 5. Findings

Two runs are refuted by TLC, each with the quoted statement in `PROJECT.json`:

* `keys_recache`: a login that read Postgres before a revocation caches the old row
  after the invalidation, and the key lives until the TTL.
* `ingest_unread`: the comment at `internal/consumers/events_handler.go:27` keeps
  the 400 for requests nothing can save; but every read error of the body other
  than the size limit is answered 400, the server's `ReadTimeout` included, so a
  batch that arrives slowly is buried although a retry would have stored it.

Three more statements of the repository are stated as properties beside the ones
that hold, and are refuted by the run named when they take the place of its
properties:

* `Ingest!DrainsAfterRecovery` (`ingest_tenants`): the comment at
  `internal/routes/url_mappings.go:351` and CE-004 promise that the retries get
  through when MongoDB is back; a process that booted while it was down keeps the
  `Unavailable` stub and answers 500 for the rest of its life.
* `Layouts!LimitHolds` (`layouts`): the comment at
  `internal/repo/pg/dashboard_layouts/repository.go:83` says concurrent requests
  cannot exceed the limit; `SELECT ... FOR UPDATE` locks only the rows that exist
  and does not see the row committed while it waited.
* `Invitations!ActivationRetried` (`invitations`): the comment at
  `internal/api/usecases/invitation_usecase.go:314` says a failed write of the
  password flag is retried by the next request; that one finds nothing pending and
  returns before the write.

Behaviours of the models worth knowing, which no document rules out clearly
enough to hold the code to it:

* `UpdateDevice` writes back the status it read, and so takes back a
  `DisableDevice` that came in between (`DeviceRegistry!UpdateWrite`).
  `DisableSticks` says that nothing else does, and no edition that reads later.
* The `ts` of a bucket moves backwards when two scripts run in the opposite order
  of their clock readings, and the same interval is refilled twice (`RateBound`
  fails with two `Requests`). `OverlapBound` says that this is all of it. But it
  happens at every such turn: two replicas whose clocks differ, called in
  alternation, credit the difference over and over, so that the limit holds only as
  far as the clocks agree.
* An activation that has listed an invitation accepts it although it is revoked
  meanwhile, since `UpdateStatus` does not look at the status it overwrites. A
  revocation that meets no such request is final (`RevocationFinal`).
* A publication during which a subscriber leaves may send on a closed channel and
  panic, skip a subscriber or serve one twice (`LogStream`, without `calm`).
  `CalmDelivery` leaves that race out; no property forbids what it does.
* Two editions that swap the names of two layouts end with one of them aborted by
  the deadlock detector and answered 500 (`DeadlockVictim`).
* A role whose permission is deleted between its validation and its write, or that
  is written between the UPDATE and the COMMIT of the deletion, keeps
  the dangling id (`raced` in `RoleCatalog`), although the comment at
  `internal/repo/pg/permissions/repository.go:126` says it cannot.
* Overlapping creations pass the limit of custom roles together, by at most their
  number less one (`RoleLimitBounded`).
* An assignment between `DeleteRole`'s count and its write leaves a member of a
  deleted role, whose requests are then answered 500. Only requests that had found
  the role alive can do that (`RetiredForGood`); but a membership that was suspended
  or revoked when the role was deleted can be made active again by
  `UpdateUserStatus`, which does not look at the role, without any race.
* `DeleteUser` leaves the memberships active: the pipeline does not look at
  `users.deleted_at`, and the role stays undeletable.
* `UpdateUserRole` refuses one's own assignment by the id it looked up; revoking
  it and assigning oneself in an overlapping request gets around that.
* The legacy column `users.role` is shown unfiltered (the exception in `Cloaked`).
* For a person of several tenants `GetByID` may resolve the home tenant, and an
  edition or a change of status then goes there. `Isolated` is about what is shown;
  no property covers these writes.
* Notifications stay when their tenant is deleted (`NoOrphans` leaves them out).
* A query of `TenantFromHeader` that fails for any reason, not only for want of a
  row, goes on to `resolvePlatformOperator`, so a member of the tenant may for one
  request act with the platform role it also holds.

## 6. Plan

What a next stage would add:

1. The hourly limit of invitations, and invitations as a writer of the back
   office's memberships (an accepted invitation carries the role its inviter
   chose, past the checks `PlatformGuarded` is about).
2. The routes that take the tenant from the path.

## 7. Not modelled

* The handlers and DTOs around layouts, devices, invitations, `auth` and `me`
  (parsing, formatting, mapping of errors); configuration, start-up and
  telemetry; the mail templates.
* Token verification and the identity provider; the legacy routes that take the
  tenant from the path (`resolve_tenant_path.go`); the password guard beyond being
  a refusal.
* The retention setting of the logs, which is stored and read and applied by
  nothing.
* The hourly limit of invitations. Resending one changes no state of this system.
* The columns of tenants, rules and notifications that only carry text, so the
  lost update of two overlapping editions is not visible in `Backoffice`.
* The arithmetic of MongoDB's accumulators and the counter of values it discards.
* What the SQL of the migrations does to existing data; the constraints that are
  in force at the end of them are guards of the actions that meet them.
