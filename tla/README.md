# KYC adapter: specifications, model checking and proofs

This directory specifies the KYC adapter of this repository in TLA+. Tenants
(companies) ask the adapter, over HTTP, to verify the identity of a person;
the adapter runs the verification at the KYC provider the tenant is configured
with and records it in PostgreSQL. Administrators manage the tenants, their
API keys and their providers. The modules are translated from the code under
`src/` of the repository. Paths below are relative to the repository's root.

Outside the migrations nothing in this program uses a transaction that spans
two statements, and Node.js switches between requests at every `await`. So the models share one
form: **a request is a process, and every awaited statement or call is an
action**. What is hard is what happens between two of them.

## Inventory

| Component | State | Operations | What is hard |
|---|---|---|---|
| Verifications service (`src/verifications/verifications.service.ts`) | tables `verifications`, `accounts`; locals of each request across its awaits | `createVerification`, `getVerification`, `cancelVerification`; `listVerifications`, `getVerifiedUsers` read only | state read before an await is used after it; the provider call and the row are two systems; errors are swallowed in two places |
| Provider assignments (`src/providers/admin-providers.controller.ts`) | table `tenant_provider_configs` | assign, update, remove, list | each handler is two or three statements; ids come from the URL; the foreign key of `verifications` reaches in |
| KYC providers (`src/providers/implementations`, `interfaces`) | provider sessions: a `Map` in the mock and the Regula provider, a remote service in the contract of `IKycProvider` | `createVerification`, `getVerificationStatus`, `cancelVerification` | answers lost, progress of their own, loss of the `Map` at a restart; status, verdict, risk and confidence are computed apart |
| Providers factory and initialization | the `Map` of provider instances | `registerProvider`, `getProvider`, health checks | a provider row that has no instance |
| Tenants and API keys (`src/tenants`, `src/auth/auth.service.ts`) | tables `tenants`, `tenant_api_keys` | create, update, delete tenants; create, copy, update, revoke keys; `validateApiKey`; `getTenantStats` | `Repository.save` of entities read earlier; deletion is a DELETE with a fallback of two more writes; an overview of four statements |
| Tenant logins (`src/auth/tenant-auth.controller.ts`, `jwt.service.ts`) | table `tenant_refresh_tokens` | login, refresh with rotation, logout, logout-all | a refresh issues the new token before it retires the old one |
| Administrator logins (`src/auth/auth.controller.ts`, `admin-auth.service.ts`, `jwt.service.ts`) | tables `admins`, `admin_api_keys`, `admin_refresh_tokens` | login, refresh, logout, creation of administrators, keys and their revocation | every login and every use of a key saves an administrator read earlier, to note the time |
| Guards (`src/auth/guards`) | `request.user`, `request.admin`, `request.tenant` | decide who a request is from and for whom it acts | two guards look at the same credentials in a different order |
| Event bus (`src/common/services/event-bus.service.ts`) | the maps of handlers, the subscriber connection to Redis | publish, subscribe, subscribePattern, unsubscribe, handleMessage, cleanup | a subscription at Redis and the map of handlers change at different times, calls overlap, the connection breaks |
| Database schema (`src/database/migrations`, `entities`, `seeds`, `reset-database.sql`) | the tables, their foreign keys, seeded rows | migrations up and down, `schema:drop`, `db:seed`, the reset script | the entities, the statements written out and five migrations state the same schema separately; a revert meets customers' rows |
| Lists (`listVerifications`, `getVerifiedUsers`, `listTenantUsers`, `getAllTenants`) | none | a page and a total, one statement each | rows come and go between the pages and between the two statements |
| Queue, images and files, provider sessions, legacy database service, application shell | none, or not used | | see `PROJECT.json`, one entry each |

Interactions: `VerificationsController` authenticates a tenant with the guard
and calls the verifications service; the service reads the tenant's assignment
(written by the admin controller), asks `ProvidersFactory` for the instance,
awaits the provider and writes the rows. The admin handlers and the service
meet only in the database: the service reads `tenant_provider_configs`, and the
foreign key of `verifications.provider_config_id` (ON DELETE RESTRICT) can
refuse an admin's DELETE of a configuration. With a tenant go its keys, refresh
tokens, configurations and verifications (ON DELETE CASCADE).

What makes each component correct:

- *Verifications*: stored rows name a configuration, an account and a provider
  that exist and belong together; tenants do not reach each other's rows; a
  cancellation that was acknowledged stays; statuses follow the documented
  state machine; accounts come from completed verifications.
- *Assignments*: a configuration in use is not deleted; a tenant keeps one
  primary provider and never loses its last one, and a promotion takes effect
  without disturbing the order of the others.
- *Tenants and keys*: no key outlives its tenant; a deletion locks the
  tenant's keys out; a revocation holds.
- *Logins*: a token is usable from its issue to its retirement and never again;
  a refresh or logout that answered has retired its token.
- *Administrators*: they stay as the operators left them; a request is one
  caller for both guards and acts only for a tenant whose credential it
  presents or, as an administrator, names.
- *Event bus*: a registered handler is subscribed; it is given each event once
  at most and in order, and does get those that Redis pushed; calls return.
- *Schema*: a revert undoes its migration; what the code names is there once all
  have run, but for what a poll writes; verifications are lost only with their
  tenant.
- *Lists and overview*: a client that walks the pages misses no row that was
  there all along; counts fit together.
- *Providers*: they keep the contract that the service relies on; status,
  verdict and risk agree.

## Modules

| Module | What it models |
|---|---|
| `VerificationStatus` | the enum of statuses and the two groups the conditions distinguish |
| `StatusLifecycle` | abstract: the state machine of a verification's status, as `IDMETA_INTEGRATION_DOCUMENTATION.md` draws it, plus the direct path on which a row appears with a final status |
| `KycProviders` | the two kinds of provider: the registered mock (decides at once, never cancels, forgets at a restart) and one of the kind the interface is designed for (asynchronous, remote) |
| `ProviderAssignments` | `tenant_provider_configs` and the three admin handlers, one action per statement |
| `Verifications` | EXTENDS `ProviderAssignments`; the verifications service, the sessions at the providers, expiry, failures and restarts. `Next` composes the requests with the admin handlers; a stored verification adds to `referenced`, which the admin's DELETE obeys |
| `TenantAccess` | `tenants` and `tenant_api_keys` and the seven admin calls that write them; `Repository.save` as its two statements |
| `RefreshTokens` | EXTENDS `TenantAccess`; `tenant_refresh_tokens` and login, refresh, logout, logout-all. `Next` composes them with the admin calls, whose deletions cascade |
| `EventLog` | abstract: a log of events in which each handler moves forward |
| `EventBus` | `EventBusService` with its connection to Redis: commands executed and answered in order, events pushed in between, loss and return of the connection |
| `AdminAccess` | administrators, their keys and refresh tokens, and both guards; one action per statement, `Repository.save` as its SELECT and its UPDATE, two actions |
| `DatabaseSchema` | constants: what each migration creates and drops, what entities and written-out statements need |
| `Migrations` | EXTENDS `DatabaseSchema`; the life of a database with rows in it, in any order of up, down, drop, seed and reset |
| `Listings` | the paged lists, read by clients while rows change |
| `TenantStats` | the four statements of `getTenantStats` over keys, verifications and accounts that change |
| `ProviderContract` | abstract: what `Verifications` assumes of a provider, in terms of the `Behaviour` of `KycProviders` |
| `DirectProviders` | `MockRegulaProvider` (delay, simulation, failures, `Map`) and `RegulaProvider` (`Map`, scoring), which implement it |
| `MCProviderAssignments`, `MCVerifications`, `MCRefreshTokens`, `MCEventBus` | small instances for TLC |
| `MCPlatform` | one instance for `Migrations`, `AdminAccess`, `Listings`, `TenantStats` and `DirectProviders`: they share no state, so a behaviour picks one of them and the others stay at their start |
| `ProviderAssignmentsProofs`, `VerificationsProofs`, `TenantAccessProofs`, `RefreshTokensProofs`, `EventBusProofs`, `AdminAccessProofs`, `MigrationsProofs` | theorems about the module of that name |
| `PlatformProofs` | theorems about `Listings`, `TenantStats` and `DirectProviders`, and about `MCPlatform`, which joins them with the other two |

State and code correspond as follows. A table is a function from ids to rows or
`Null`; an id is the name of the call that creates the row (one call creates at
most one), or a number that grows with `created_at` where the code sorts by it
(configurations). The locals of a handler are a record (`request[r]`,
`admin[a]`, `call[c]`, `auth[d]`, `bus[c]`, `visit[v]`, `walk[r]`,
`overview[o]`) whose `pc` is the next awaited statement; names of actions are
the names of methods with the statement they stand for (`AssignBegin`,
`AssignBump`, `AssignInsert` for `assignProviderToTenant`).
`map` in `PROJECT.json` gives the lines of each definition.

Things in the code that the modules reproduce and a reader may not expect:

- `getVerificationFromDatabase` does not select `expires_at`, so the test in
  `checkAndUpdateExpiration` never succeeds (`LoadedColumns`), and the UPDATE
  of `updateVerificationStatus` names columns that the table does not have, so
  PostgreSQL rejects it (`StatusUpdateColumns`). A poll therefore never writes.
  `CancelIsKept` and `ImplementsLifecycle` hold *because* of this: the mutants
  that repair either statement, and leave the rest as it is, break them.
- `cancelVerification` and `getVerification` ask the provider the tenant has
  now, not the one that holds the session.
- the bump of `updateProviderConfig` moves all rows of the tenant in the URL,
  also when the `configId` belongs to another tenant and nothing is promoted.
- `createUserFromVerification` saves the account, then links it; if the link
  fails the account stays.
- `deleteTenant` sends the DELETE first and falls back to "inactive" when it is
  rejected. A tenant's verifications do not make PostgreSQL reject it: the
  cascades to configurations and verifications run in one pass of triggers, and
  the RESTRICT of the configurations so deleted is checked in the next, when the
  verifications are gone (`DeleteRows`). The seed's revert deletes the
  configurations themselves first and is rejected while one is in use.
- an administrator's token with an `X-Tenant-ID` of a tenant that is gone makes
  `getTenantById` throw; the guard catches it with `request.admin` set and goes
  on to the API key, which may be a tenant's (`Thrown`).
- the mock reports as confidence whatever number `simulate.confidence` is,
  which a tenant may send in `customProperties`; the comment at
  `mock-regula.provider.ts:231` speaks of 0-100.
- `updateTenant`, `updateApiKey`, `revokeTenantRefreshToken` and the refresh
  save an entity. TypeORM's `save` reads the row again and updates the columns
  that differ from the entity, so an old value the request did not mean to
  change overwrites a newer one; and it inserts a row that is gone. The first
  read is one action, the SELECT and the write of `save` are one action each.
- `subscribe` registers its handler after its await, `unsubscribe` drops it
  before: a subscribe and an unsubscribe of one channel that overlap can leave a
  handler that hears nothing (`crossed` in `EventBus` marks such channels).
- `handleMessage` looks the patterns up itself and also runs once per pattern
  that Redis matched: with patterns an event reaches a handler several times.
- `refreshAccessToken` does not look at the administrator's status; only the
  guards do.
- both guards of an administrators' route call `validateApiKey`, so one request
  with an API key saves the key and its administrator twice.
- the last migration is reverted with rows in its tables; the seed is reverted
  only while no verification refers to a seeded row, and is not applied to a
  database where another tenant has the seeded email.

Faulty variants: next to some definitions stands one marked "Faulty variant",
a mistake one could make in that line. The specifications do not use them;
replacing the definition by its variant makes TLC report the property that
`mutants` names. They show that the properties depend on the code.

## Runs

| Run | Instance | What it shows |
|---|---|---|
| `assignments` | 2 tenants, 3 providers, 2 overlapping admin calls, 3 calls in all, any statement may fail | what holds under every interleaving of the statements (`CallsStayInTenant`, `PromotionKeepsOrder`), and for a tenant whose calls do not overlap (`OnePrimary`, `PromotionTakesEffect`, `LastProviderKept`) |
| `cancellation` | 3 requests at an asynchronous provider, 1 failure or restart | `CancelIsKept`, `AccountProvenance`, and the refinement `ImplementsLifecycle` |
| `reassignment` | 2 tenants, one with two providers and one with none, 2 requests that may name an account by id, 1 admin call (assign, update or remove), 3 providers of which one has no instance | `RowIntegrity`, `ProviderOfRecord`, `CancelledByConsent` while configurations change between the awaits, and `TenantIsolation` |
| `progress` | 3 requests, no failures, fair handlers | `ConsentIsRecorded` (liveness) |
| `access` | 1 tenant and 1 key to start with, 3 calls in all: admin calls that may create tenants and keys, 2 devices, 2 failures or restarts | `RowsHaveTenant`, `DeletionLocksOut`, `RevocationHolds`, `TokensHaveTenant`, `RetiredTokens`, `TokensNeverRevive` |
| `events` | a channel and a pattern that matches it, 2 handlers, 3 calls and 2 events (4 together), 1 lost connection, a shutdown at any time | `RegisteredIsSubscribed`, `AtMostOnce`, the refinement `ForwardOnly`, and the liveness of `EventsArrive` and `CallsReturn` |
| `platform` | five components, one at a time: every sequence of migrations, reverts, seeds and resets with one more tenant; 2 administrators, a key, 2 refresh tokens, 2 requests, 1 change (of an administrator or tenant, an expiry) and 1 failed statement; a reader of up to 4 pages over 3 rows; an overview over 2 keys and 2 verifications; 2 provider sessions | schema: `SchemaIsReplay`, `CodeIsServed`, `MigrationsApply`, `VerificationsSurvive`; administrators: `OperatorsDecide`, `RetiredStay`, `ActsAsPresented`; lists: `NothingIsMissed`, `TotalCoversShown`; overview: `CountsFit`; providers: `VerdictsAgree` and the refinement `KeepsContract` |
| `poll_updates`, `expiry`, `cancel_routing`, `last_provider`, `key_revocation` | the smallest that show it | see Findings |

Bounds. Every hazard the properties are about involves two overlapping
handlers and at most a third that prepares the state (creates the verification
that two others poll and cancel; deletes the tenant that two others update):
hence two or three processes. In `reassignment` the seed prepares the state
(a spare provider, so that one call may remove or repoint the other), and the
one admin call falls between any two awaits of two requests. `MaxFaults` counts
failed statements, lost answers and restarts; one is enough to leave any
handler at any point, and the other processes show what follows. In `access`
two: a DELETE that fails and then one of the two writes that replace it.
`MaxConfigs` leaves room for one more row
than the seed. `MaxCalls` and `MaxAdminCalls` bound how many calls start, not
how they interleave. Requests, admin calls and devices are symmetric (the runs
with a liveness property use no symmetry). Systems whose calls have all ended
stop, so deadlock is not checked; that every handler reaches its end is the
subject of `progress` and, for the event bus, of `CallsReturn`.

In `events` three calls are a subscribe, an unsubscribe and a third that
repeats or crosses one of them; two events are enough for a wrong order, one
lost connection for a repeated command. In `platform` two requests let one
hold an administrator it has read while the other saves or an operator writes;
three rows give a second and a third page at limit 1, and a limit of 0 stands
for none given; two verifications and two keys let each count be overtaken.
The migrations need no bound: there are five, and rows come from the tenants
of the instance.

`contended` in `ProviderAssignments`, `TenantAccess` and `AdminAccess` is a
history variable: the tenants (in `AdminAccess` the rows) for which calls
overlapped in a way that the code does not protect against. So are `crossed` in
`EventBus` and `keyMade` in `TenantStats`. Properties that need the absence of
such overlaps say so with it, and the refuted ones (`LastProviderAlwaysKept`,
`RevocationIsFinal`) are those properties without the exemption.

Fairness. `FairSpec` assumes weak fairness of the next statement of each
handler: the event loop continues a handler once its await is settled, and
pg and the HTTP client settle every promise, with an error at the latest.
`BusFairness` assumes the same of Redis (it executes the commands it has), of
ioredis (it reads answers and events) and of the continuation of each call.
Administrators, tenants, publishers, the progress of sessions, expiry and
failures owe nothing.

## Findings

| Run | The code | The documentation |
|---|---|---|
| `poll_updates` | the UPDATE names `result_data` and `confidence_score`, which do not exist; the error is swallowed | "Database is updated if provider status has changed" |
| `expiry` | the record tested for expiry is loaded without `expires_at` | "getVerification() endpoint automatically checks and updates expired verifications" |
| `cancel_routing` | after a reassignment another provider is asked to cancel | "Provider will be notified to stop processing" |
| `last_provider` | two removals that both counted two providers remove both | "Prevents removal of the last remaining provider" |
| `key_revocation` | an update of a key's name that read it before the revocation makes it active again | "Cannot be undone (must create new key)" |

Met on the way and not refuted by a run:

- A refresh under way issues a new token after a logout-all, where
  `tenant-auth.controller.ts:243` promises re-authentication on all devices.
- An administrator's deactivation is overwritten, as the revocation of a key
  is, by a login that read the administrator before and selects the row for its
  save afterwards; `OperatorsDecide` exempts it through `contended`.
- `deleteTenant` deletes a tenant for good, and its verifications with it, where
  the endpoint promises a soft delete, a preserved verification history and
  restoration (`tenants.controller.ts:315-332`). `VerificationsSurvive` confines
  the loss to this case.
- `createUserFromVerification` makes a second account for a person it already
  verified, where a comment speaks of deduplication.
- A configuration is removed while a verification is being created with it,
  where the endpoint "confirms no active verifications are pending".
- `listVerifications` counts with a query made by a text replacement that never
  matches, so its total is 0; `getAllTenants` has no cap although
  `tenants.controller.ts:156` says "max: 100"; and its offset skips a tenant
  when one of an earlier page is deleted. `NothingIsMissed` and
  `TotalCoversShown` are about the other lists.
- `reset-database.sql` leaves the tables of the last migration and TypeORM's
  own list, where its line 42 says that all tables are dropped; migrations
  fail after it. `db:seed` fails on every database, because it writes to
  tables that no migration makes.
- `cleanupTokens` (`jwt.service.ts:262`) has no caller and deletes with an
  operator of another database.
- The entity of `provider-config.entity.ts` names a table the migrations do not
  create, and the entity of a verification says that it goes with its provider
  (CASCADE), the migration that the provider stays (RESTRICT).

## Proofs

Every theorem holds for all values of the constants under the named
assumptions (`Null` is not a value of the data, bounds are naturals, the seed
respects the unique constraint and has one primary configuration per tenant,
`Behaviour` is a function on the registered providers). Every invariant and
every action property that a passing run checks is also a theorem.

**Assignments** (`ProviderAssignmentsProofs`). `AssignmentsInv` is type
correctness, the foreign key, `CallsWellFormed` (a call in progress knows its
tenant and what its next statement needs) and `FreshIdsUnused` (ids not handed
out yet have no row, so an INSERT overwrites nothing and an id is not used
twice). The foreign key (`ReferencedConfigsExist`) is what the verifications need
of this part (`RowIntegrity`). The scope of calls (`TenantScope`) rests on the tenant in each WHERE
clause. Lemmas say what the UPDATE of many rows does.

What holds for a tenant outside `contended` needs more, and `PromotionInv`
says it in three parts:

- `Alone`: at most one call of such a tenant is in progress, so what a call
  has read is still so when it writes;
- `CallsPrepared`: when a call is about to write or insert a promoted row, the
  tenant's other rows are past priority 1; when it is about to delete one, the
  tenant has another;
- `NoTwoPrimaries`: no two rows of the tenant have priority 1.

`OnePrimary` is not inductive without the second: between the bump and the
INSERT there is no primary row at all, and what keeps the INSERT from making a
second one is the bump before it. `PromotionTakesEffect` and
`LastProviderKept` follow from the same parts; `PromotionKeepsOrder` needs
only that the bump adds the same to all rows it moves. The seed must not start
with two primaries (`SeedPrimaryAssumption`), as the migrations' seed does not.
`AssignmentsImplemented` shows that every step of `Verifications` is one of
`ProviderAssignments` or leaves it alone, so all of this holds there as well
(`AssignmentsInService`).

**Verifications** (`VerificationsProofs`). `VerificationsInv` adds to it

- `CallSound`: what a request carries between its awaits (a handler past its
  selection has a configuration and a registered provider; the session it
  created is at that provider; what it read of a row is visible to its tenant);
- `RowSound`: a stored row, the session behind it and its provider agree;
- `AccountSound`: where accounts come from.

None of the properties is inductive alone: `CancelledByConsent`, for instance,
needs that a request about to write 'cancelled' has the consent of the
provider it asked, that this provider knew the id, and that only the provider
of record can know it. The lemmas that a step leaves a request, a row or a
session alone (`Kept`) keep the case analysis over the actions short. From the
invariant follow type correctness, `RowIntegrity`, `ProviderOfRecord`,
`CancelledByConsent`, `CancelIsKept`, `AccountProvenance`, `TenantIsolation`,
and `LifecycleImplemented`: initial states map to initial states of
`StatusLifecycle`, and every step to a step or a stutter.

**Tenants and keys** (`TenantAccessProofs`). `AccessInv` is type correctness,
`CallsSound` (the status a `save` carries suits its table, the tenant a call
is about is known), and `RowsHaveTenant`. The steps that matter are the DELETE
of a tenant, which takes the keys with it at any point of the other calls, and
the INSERTs after it: of a new key, and the one that `save` makes for a key that
is gone; the foreign key refuses both when the tenant is gone too.

`DeletionLocksOut` and `RevocationHolds` are about a `save` that writes an old
status back. `LockInv` says why none does outside `contended`:

- `Targets`, `Births` and `KeyOwners`: which tenant and key a call is about; no
  call is about a row that is not inserted yet; calls about a key agree on its
  tenant, also when the key is gone;
- `Guarded`: a save in progress is the only call in progress about its tenant,
  but for the creation of a key;
- `SavesWhatIsThere`: so a save of an entity whose status nobody asked to
  change carries the status that the row has;
- `DeletedOff`: a tenant that a deletion has switched off, or has taken away,
  is not active unless someone asks for it.

**Refresh tokens** (`RefreshTokensProofs`). `SessionsInv` adds

- `FreshTokens`: before a request issues its token no row has that id and
  nobody holds it, so what a request holds cannot be issued later;
- `OneOwner`: those who hold a token agree on its tenant even when the row is
  gone, so that a `save` that inserts it again gives it to the right one;
- `Settled`: a request that found its token revoked, or has retired it, sees
  it unusable. It is kept because no step revives a token (`NoRevival`).

From it follow `TokensBelong`, `RetiredHold` and, as an action property,
`TokensOnce`. A step of a device leaves tenants, keys and admin calls alone, so
`LockInv` and its consequences hold here too (`SessionDeletionsLockOut`,
`SessionRevocationsHold`).

**Event bus** (`EventBusProofs`). `BusInv` consists of

- `CallsOK` and `CommandsStand`: each command on the connection stands for one
  call, which waits for its answer;
- `Subscriptions`: for every topic that is `Wanted` (it has handlers, or an
  answered call is about to register one) Redis and the client know the
  subscription, and no command to give it up is on its way; and every
  unsubscribe on its way goes before every subscribe of that topic, so that
  executing the rest in order cannot end without the subscription;
- `Forward`: events on the wire are in the order of publication, and none
  comes before what a handler was given already;
- `Once`: without patterns that order is strict.

`RegisteredIsSubscribed` alone is not inductive: the two commands of an
unsubscribe and a later subscribe may both be unanswered. The exemption
`crossed` is what makes `Subscriptions` inductive, for an unsubscribe may be
sent while an answered subscribe has not registered yet. A lost connection
keeps it because the client subscribes again to what it knows and sends the
unanswered commands again in order. From it follow `RegisteredHear`,
`NothingTwice` and the refinement `LogIsKept`, for any number of channels,
patterns, handlers, calls, events and reconnections.

**Administrators** (`AdminAccessProofs`). `AdminInv` adds to type correctness
and `OperatorsDecide` what each request carries between its statements:

- `SaveOK` and `LoadedOK`: an administrator outside `contended` is saved as
  what the SELECT found or will find, so that the UPDATE writes nothing but the
  time; a key is saved so or revoked; a token is always saved as retired; what
  a SELECT found has since been retired at most;
- `RetiredOK`: what a finished call retired is retired now;
- `IdentityOK`: which guard a request is at, whose credentials made it the
  administrator or tenant it is taken for, and that a request with an
  administrator set and no answer yet came from a token (`AfterToken`): it can
  still end with the tenant of its key, but only if it named another one.

`RowsKept` says what a step may do to the rows (owners stay, nothing is
revived, and a row that changes under a pending SELECT becomes contended);
every action preserves `VisitOK` of the requests that do not move because of
it alone.

**Migrations** (`MigrationsProofs`). `MigrationsInv` says that the schema is
the one of the migrations applied (`Fits`), unless the reset script was run,
and that the rows agree (`RowsAgree`): there is one row per tenant, and every
verification is next to its tenant and the configuration it was made with. The
second part is what makes `HistorySurvives` true: a DELETE that cascades to a
verification is one of its tenant, since it refers to nothing else by CASCADE;
one that takes its configuration or provider without the tenant leaves the
verification, whose RESTRICT rejects the statement. Since a tenant has one row,
a tenant that was deleted is gone (`LostWithTenant`, which the statements of a
revert pass on to each other). A migration is
followed by its revert in `SchemaSteps`: what it adds is new to the schema it
starts from, so dropping it gives that schema back. `SeveralUp` follows any
number of pending migrations, with the two ways in which the seeds can be in
the way; from it and `StepDown` follow `ReplayHolds` and `ApplyHolds`.
`CodeServed` compares the last schema with every entity and statement; the
columns of the poll's UPDATE are in none of the five migrations (`PollUnserved`).
These
theorems are about any tenants and emails; the migrations, tables and columns
are those of the code.

**Lists, overview and providers** (`PlatformProofs`). For a list, `ListInv`
says that what was there when a walk began, still matches and was not shown yet
comes after the rows of the pages read (`NoneSkipped`): rows are only added
before those a client has seen, so a row moves to a later page and never to an
earlier one; and that the total covers the accounts shown (`AccountsCounted`).
A walk that ends has read an empty page, so nothing is left: of the rows behind
the pages read, the newest would have been on this one (`PageNotEmpty`). `CountsFit` needs what an
overview has counted so far compared with the rows there are now: accounts
counted are at most the rows there are (`AccountsFit` and `CountedRows`),
active keys at most the keys there were (`CountedKeys`). The contract
(`ContractKept`) needs that an id has a session only once its caller was told
of it, and that nothing changes a session's status (`SessionsTold`,
`SessionsFinal`). `FirstAnswerStands` is a consequence that is proved only:
no answer about a session is ever followed by another. `ComponentsImplemented`
shows that a behaviour of `MCPlatform` is one of each of its five components,
so the theorems about them are theorems about what TLC checks
(`PlatformPromises`).

Only model-checked: liveness (`ConsentIsRecorded`, `EventsArrive`,
`CallsReturn`), which is out of the prover's reach, and the runs that refute a
property.

## Not modelled

- What a request contains beyond what decides its course: images, extracted
  data, results, metadata, names, emails, passwords.
- Access tokens (signed, not stored), bcrypt, hashing and encryption of keys.
- In `Verifications` and `RefreshTokens` a handler starts when its guard has
  let it pass; what the guards decide is `AdminAccess`. `getVerification` and
  `cancelVerification` do not look at the tenant's status again;
  `createVerification` does.
- The passport strategies, which no route uses.
- Images and files: validation is pure, the upload is one external call before
  the provider is asked, `tempPath` is never set, and `FileUploadInterceptor`
  is used by no route.
- The analytics endpoints: one SELECT each, without effect.
- Provider sessions and the asynchronous path of the last migration: entities
  without code that writes them.
- The deletion of a tenant in `Verifications`: there `Tenants` is fixed. What a
  deletion does to stored verifications is in `Migrations`, what it does to
  keys and tokens in `TenantAccess` and `RefreshTokens`.
- The registered application has only the mock provider, for which the paths
  of pending verifications do not arise; they are modelled with a provider of
  the kind the interface documents.
- Components listed as `not_modelled` in `PROJECT.json`, with the reason there.

## Plan

Written so far: the modules above. The order was: assignments and
verifications first (the purpose of the program), then their refinement, then
who may use it (tenants, keys, tokens); then the components around them: the
event bus with its log, the administrators and guards, the schema, the lists
and the overview, the providers with their contract.

Next modules:

1. `TenantAccess` composed with `Verifications`: a deletion of a tenant during
   a verification, whose INSERT then meets no tenant.
2. An abstract specification of a session (`issued`, `retired`) that
   `RefreshTokens` and `AdminAccess` implement.
3. The upload of images before the provider is asked, once something removes
   the files of a request that failed.

Next theorems: the refinement of that abstract session by `RefreshTokens` and
`AdminAccess`; the safety part of what `CallsReturn` and `ConsentIsRecorded`
rest on (a call that waits has its answer, or the command for it, on the way).
