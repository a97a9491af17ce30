# NuBlox Digital Applications V3 — verification

TLA+ models of the parts of NuBlox V3 that keep state in MySQL across concurrent
requests, workers and crashes; TLC configurations that check them on small
instances; and TLAPS proofs of the results that matter most for every instance.
Paths are relative to the repository root. `PROJECT.json` maps every definition
to the lines it translates, and lists the runs, mutants, hazards, findings and
theorems.

    cd tla
    tlc -config SchemaMigrations.cfg SchemaMigrations.tla
    tlapm SchemaMigrationsProofs.tla

## 1. The system

The repository is a TypeScript monorepo: `packages/kernel` (pure domain factories
and transition functions), `packages/persistence` (MySQL repositories, command
services, command-line tools), `apps/web` (SvelteKit). There is one pattern
throughout: an operation reads what it needs through the connection pool, then
opens a transaction (`withTransaction`, `packages/persistence/src/database.ts:34-54`),
locks rows with `SELECT ... FOR UPDATE`, or guards an `UPDATE` by `row_version` or
`status` and looks at `affectedRows`, writes an audit event and an outbox message,
and commits. What can go wrong is therefore between the parts: in what was read
before the transaction, in statements that run outside of one, in guards that are
not looked at, and in work that leaves the database (mail, publishers, SQL files)
and comes back late or never.

### Inventory

| component | state | operations | what is hard | correct when |
|---|---|---|---|---|
| Schema migration runner (`migrations.ts`, `cli/`) | `kernel_schema_migrations`, the SQL files | `migrate`, `retryFailedMigration` | no lock between statements; DDL commits by itself; crashes; files edited between attempts | one applier per migration, applied in order, an APPLIED row is final and carries the checksum of what ran, runs end |
| Identity challenges and message dispatch (`identity-challenge-service.ts`, `identity-message-dispatcher.ts`, `cli/dispatch-*`) | `identity_challenges`, `identity_message_outbox`, users | request, verify, reset; claim, send, record | claims that time out under their worker, lost answers, replaced and expired links | a link works once and until it is replaced; every message is settled; outcomes never reopen a message; what may be sent has its link |
| Multi-factor authentication (`mfa-service.ts`, two routes) | enrolment, recovery codes, login challenges, policy | enrol, confirm, regenerate, disable, sign in, step up | steps in several requests; time windows; replays | a code is accepted once, codes are of the newest set, disabling ends sign-ins |
| Sessions and tenant policy (`auth-repository.ts`, `tenant-authentication-policy-repository.ts`), provider status (`oidc-service.ts`) | `auth_sessions`, policy, provider | sign in, resolve, touch, step up, sign out, purge, change policy or provider | policy read before the transaction; SELECT then UPDATE by token; rebinding of methods | cap respected, ended sessions stay ended, a disabled provider admits nobody |
| OIDC federation (`oidc-service.ts`) | login challenges, linked identities, the provider | begin, complete, link, sign in, switch the provider | ceremony in two requests; first logins that link at once | a subject and an employee are linked to each other only, no sign-in through a disabled provider is left |
| Rate limiter (`authentication-rate-limiter.ts`) | two buckets per purpose | `consume`, `clearSuccessfulLogin` | boundaries of windows and blocks | bounded admissions in any window |
| Passkeys (`passkey-service.ts`) | credentials, challenges | register, authenticate, revoke | read, verify, then commit; counters; caps | one success per challenge, none past the cap, counters never fall |
| Platform outbox (`platform-writes.ts`, `portability-repository.ts`) | `outbox_messages` | write, claim, report | leases that end under a publisher; late reports that end another's | one publisher at a time while its lease lasts, PUBLISHED is final, everything is published in the end |
| Idempotency records (`portability-repository.ts`) | `idempotency_records` | claim, complete, fail | crashes, expiry, reports that name no claim | run once, answers belong to what was asked |
| Projection checkpoints (`portability-repository.ts`) | `projection_checkpoints` | save | order of saves, optional fields | never backwards |
| Controlled information (`information-repository.ts`) | revisions, iterations, representations, issues, baselines | create, freeze, release, supersede, issue, establish | inserts on stale readings; supersessions that lock two rows | successions end in something in force, what is issued is what was released |
| Deliverables (`deliverable-repository.ts`) | items, reviews, approvals, transmittals, responses, acceptances | start, bind, submit, review, approve, issue, respond, accept, close, rework | reads through the pool before review, approval and issue | each issue was approved by a Decision of its own |
| Publication (`publication-repository.ts`) | transactions, activities, attempts, results | create, add, start, attempt, acknowledge, fail, record result | time-outs against late acknowledgements; derived status | transaction, activity and attempts tell one story |
| Exchange packages (`exchange-repository.ts`) | packages, items, deliveries, mappings, adoptions | collect, freeze, deliver, receive, validate, map, import, reject, adopt | inserts after the freeze, rejection against import | authority is adopted on what was imported |
| Service delivery, site production (`service-delivery-repository.ts`, `construction-site-production-repository.ts`) | orders with assignments and records; work packages with progress, evidence, issues | plan, dispatch, start, record, complete, accept | rows move their parent on stale readings | the parent's status says what its rows say, completion lasts |
| Supplier sourcing (`supplier-sourcing-repository.ts`) | supplier relationships, source approvals | release, cancel, approve | one row lock replaces a unique key | one current approval of each tuple |
| Work execution (`work-repository.ts`) | definitions, workflows, items, assignments, evidence | start, create, assign, block, complete, cancel | items created while their workflow closes | a workflow closes with its work |
| Functional framework (`functional-repository.ts`) | governance versions, capacities | publish, allocate | checks by SELECT without a lock | one published version, at most 100 percent |
| Change control (`change-repository.ts`) | changes, actions, verifications, discrepancies | assess, decide, implement, verify, close | rows inserted after the check | nothing is left open by a closure |
| Migration control (`migration-repository.ts`) | plans, runs, items, conflicts, reconciliations, cutovers | approve, run, record, reconcile, cut over | counts before locks | a reconciled run is clean |
| Configuration promotion (`configuration-promotion-repository.ts`) | baselines, change sets, runs, conflicts | freeze, approve, start, record, complete | times stamped before transactions; drift read without a lock | a promotion that succeeded was undisturbed, as far as it could see |
| Records retention (`records-retention-repository.ts`) | policies, holds, disposition runs, archives, destructions | impose, release, approve, archive, destroy | holds imposed between check and insert, and between a destruction and its result | no approval outlives a hold that a check could see; a subject under a hold is not reported as done |
| Commercial (`commercial-repository.ts`) | cost plans, variations, valuations, forecasts, final accounts | add lines, issue, decide, certify, approve, agree | lines inserted after issue; decisions on versions read without a lock | what was reconciled stays so |
| Tenants (`tenant-registration-service.ts`, `tenant-provisioning-service.ts`, `platform-administration-service.ts`) | tenants, their accounts and profiles, their state as the operators keep it | register, provision, suspend, reactivate, request and finalise deletion | counts before inserts; sign-ins under way while a tenant is suspended | addresses and accounts are unique, the two records of a state agree, no session outlives a suspension |
| Fields and relationships of Things (`thing-administration-command-service.ts`, `metadata-repository.ts`) | values of fields, assignments of fields to types, relationships | create, replace, set, assign, relate | what is demanded changes while Things are written; counts of relationships without locks | no demanded field is emptied, no cardinality exceeded that could be seen |
| Security classification (`security-classification-repository.ts`) | classifications, clearances, exceptions | classify, clear, except, evaluate | an evaluation reads one table after another | whoever is allowed is cleared for every classification on record |
| Things and their lifecycle (`control-repository.ts`, `nublox-object-runtime.ts`) | Decisions, lifecycle rows and their history, objects in memory | load, decide, transition | objects act on what they last read | every controlled step rests on a Decision about the version it leaves |
| Access requests (`access-permission-request-repository.ts`, `access-repository.ts`) | role assignments, occupancies, requests | evaluate, assign, request, resolve | a permission is evaluated before the transaction and again in it; two resolvers | one equivalent request is pending, one outcome is announced, what is fulfilled was effective |
| Organisation and HCM (`hcm-command-service.ts`, `organisation-command-service.ts`) | employments, functions and occupancies of positions, reporting lines | create, assign, set a line | rows with periods that overlap, cycles through several lines, counts without locks | one primary of each kind on every day, nobody manages themselves |
| Resource planning (`organisational-resource-planning-command-service.ts`, `industry-delivery-command-service.ts`) | requirements and their fulfilments | require, fulfil | sums over overlapping periods; a sum read before the transaction | nobody is engaged for more than 100 percent, a status tells its sum |
| Configuration resolution (`configuration-resolution-command-service.ts`, `-repository.ts`) | runs and their items, over baselines and effectivities | establish, supersede, run, record | each criterion of each item is a SELECT of its own; times stamped before transactions | a resolution as of a past time can be repeated |
| Governed validation (`validation-execution-service.ts`, `validation-policy-repository.ts`) | rule sets, evaluation runs, results, conflicts | evaluate, record, complete, disposition | a transaction for each row, any of which may fail | a command goes through on a verdict that its results bear out |
| Manufacturing (`manufacturing-repository.ts`) | process plans and their parts | add, freeze, release | parts inserted while a freeze has its plan locked, or after it; releases that supersede each other | one version in force, approved as it is made |
| Sales (`sales-command-service.ts`) | accounts, opportunities | create, update | forms sent back late; checks on a snapshot | a closed opportunity stays as it was closed |
| Integration jobs, strategy, policy, metadata | reference data and guarded status changes | see `PROJECT.json` | uniqueness, partial failure | each statement is guarded |
| Web application (`apps/web`) | sessions in cookies | routes that sequence the calls above | what a page checked is stale when its action runs | the policy the page shows is the policy that holds |

Interactions. Sign-in routes call the rate limiter, then `auth-repository`, then MFA or
passkeys, then `createSession`; a password reset (identity challenges) revokes
sessions; policy and provider administration revoke sessions; every command writes
to the platform outbox; the dispatcher and the publishers are separate processes
that share only the tables.

## 2. Modules and their correspondence to the code

| module | models | proofs |
|---|---|---|
| `SchemaMigrations` | the migration runner, one action per SQL statement | `SchemaMigrationsProofs` |
| `OneTimeLinks` | abstract: what a one-time link promises | |
| `IdentityOutbox` | challenges, messages, dispatcher; implements `OneTimeLinks` | `IdentityOutboxProofs` |
| `MfaChallenges` | enrolment, recovery codes, sign-in challenges, step-up | `SignInProofs` |
| `AuthSessions` | sessions, tenant policy, provider status | `SignInProofs` |
| `MCSignIn` | composes `AuthSessions` and `MfaChallenges` | `SignInProofs` |
| `PlatformOutbox` | `outbox_messages` and its publishers | `PlatformOutboxProofs` |
| `RateLimiter` | both buckets of one purpose | `ControlsProofs` |
| `Passkeys` | both ceremonies | `ControlsProofs` |
| `IdempotencyRecords` | one key of one scope | `ControlsProofs` |
| `ProjectionCheckpoints` | one projection and partition | `ControlsProofs` |
| `OidcLogin` | challenges, callbacks and linking at one provider | `ControlsProofs` |
| `ConfigurationPromotion` | promotion of one change set to one target | `ControlsProofs` |
| `Commercial`, `CommercialAccounts` | cost plan and variation; valuation, forecast, final account | `ControlsProofs` |
| `ThingLifecycle` | one Thing, its Decisions and the objects that stand for it | `ControlsProofs` |
| `TenantLifecycle` | tenants, registrations, operators and sign-ins | `ControlsProofs` |
| `ThingFields` | the fields Things have by their types | `ControlsProofs` |
| `ThingRelationships` | relationships of given Things | `ControlsProofs` |
| `Establishment` | employments, occupancies, functions and reporting lines | `ControlsProofs` |
| `AccessRequests` | role assignments and the requests for permissions | `ControlsProofs` |
| `Clearances` | classifications, clearances and evaluations | `ControlsProofs` |
| `MCControls` | composes the services from `RateLimiter` on | `ControlsProofs` |
| `Information` | revisions of a container, baselines of a context | `OperationsProofs` |
| `Deliverables` | deliverable items | `OperationsProofs` |
| `Publications` | closed-loop publication | `OperationsProofs` |
| `ExchangePackages` | one package and its deliveries | `OperationsProofs` |
| `ServiceDelivery` | one service order | `OperationsProofs` |
| `SiteProduction` | one site work package | `OperationsProofs` |
| `SupplierSourcing` | the source approvals of one supplier | `OperationsProofs` |
| `WorkExecution` | workflows and their work | `OperationsProofs` |
| `ChangeControl` | one controlled change | `OperationsProofs` |
| `MigrationControl` | one migration plan | `OperationsProofs` |
| `RecordsRetention` | one record under retention | `OperationsProofs` |
| `ConfigurationResolution` | one run over the baselines of one context | `OperationsProofs` |
| `ValidationRuns` | the versions of one rule set, and the commands it guards | `OperationsProofs` |
| `ProcessPlans` | the versions of one process plan | `OperationsProofs` |
| `Opportunities` | opportunities and the forms before people | `OperationsProofs` |
| `FunctionalFramework` | governance versions and capacities | `OperationsProofs` |
| `ResourceFulfilment` | requirements of projects and capabilities | `OperationsProofs` |
| `MCOperations` | composes the seventeen services from `Information` on | `OperationsProofs` |

Conventions of all modules:

- **Transactions are steps.** A transaction that locks the rows it decides by
  (`FOR UPDATE`, gap locks included) is one action. Reads through the pool before
  it are actions of their own, so that other transactions come in between.
  Statements outside of a transaction (the migration runner, `resolveSession`'s touch)
  are one action each.
- **Time is events.** Expiry, back-off, leases, idle periods and the ageing of claims
  are actions that may happen whenever the clock allows; only the rate limiter and
  TOTP, which compare times with each other, have a clock.
- **MySQL evaluates the assignments of a single-table UPDATE from left to right.** Two
  UPDATEs read a column they have just assigned: `CancelQueued`
  (`identity-challenge-service.ts:277`) and `RecordFailure` (`passkey-service.ts:1179`)
  are modelled as the database executes them.
- **Data is abstract.** Hashes, keys, tokens and payloads are the identity of what they
  stand for; a right or wrong signature or password is a choice. Audit events and
  logging are left out.
- **History variables** hold what the code does not, and properties need:
  who was late, what was used, what ran. No guard of a program action reads one, but
  for the named bounds.
  Operators under a comment "Mutant" are used by no action; each is the change of a
  definition that the project shows its property to catch.

### SchemaMigrations
`repo` are the files, `status`/`checksum` the table, `pc`/`cmd`/`at`/`digest` the local
variables of each process. `StartMigrate` is the dirty check (`migrations.ts:100-121`),
`ScanNew`, `ScanExisting`, `ScanEnds` one turn of the loop each up to the next statement,
`InsertApplying`, `SqlSucceeds`/`SqlFails`, `MarkApplied`, `MarkFailed` the statements of
applying one file. `StartRetry` and `ClaimRetry` are `retryFailedMigration`; from there on
both share their actions. `Crash` loses the local variables, `EditFile` is a correction
in the repository.

### IdentityOutbox and OneTimeLinks
A challenge and its message have one identifier, since `queueIdentityChallenge` writes
both. `Issue` is that transaction; `VerifyEmail`, `VerifyAgain`, `ResetPassword` the uses;
`Claim`, `Send`, `RecordSent`, `RecordSentThrows`, `RecordFailed` the dispatcher. `Send` may
be answered with success or failure, or be delivered with its answer lost. `ClaimAges` is the passing of
the claim's ten minutes. The refinement mapping sends an identifier to its challenge's state and to whether its
mail has gone out; every step of the dispatcher is a `MailLink` or a stutter.

### MfaChallenges
One identity of one tenant. `secret` numbers enrolments; a TOTP code is a pair of secret
and counter, valid while the counter is within `Window` of the clock. `Confirm` is
`confirmEnrollment`, both from the security page and within a sign-in that must enrol
(`ConfirmForSignIn`, then `ConsumeEnrollment` in a transaction of its own). `Decide` is the
pool read of `beginLogin`, `OpenChallenge` its transaction; `CheckDisable` is the page's
check of the policy, `Disable` the transaction. 

### AuthSessions
The sessions of one user in one tenant. `recency` orders them by `last_seen_at`, `age`
counts idle periods since. `Authenticate`, `ReadPolicy`, `Create` are a sign-in;
`Resolve` the SELECT of `resolveSession`, `Touch` its UPDATE; `UpdatePolicy` and
`SetProvider` the administrators' transactions with the revocations they make. `Live` are the
sessions a query of active ones returns, `Rank` their place when ordered as it orders them, `Evicted` and
`Retained` the two sides of its limit, `Complying` those an administrator's change leaves alone.

### RateLimiter, Passkeys, OidcLogin
`Consume` judges both buckets as `consumeBucket` does; `clearSuccessfulLogin` deletes the
subject's bucket only. The history `admitted` is kept by `Noted`: it drops its first attempt when that is a window
old, and all when the last is, so that whatever it drops could not be in one window with what is yet to come, and
a bound on its length bounds every window. In `Passkeys`, `Read` and `Verify` are the part of a request
before its transaction, `CommitRegistration`/`CommitAuthentication` the transaction,
`RecordFailure` the transaction that counts failures. In `OidcLogin` a login is a request with a
`stage`: `AskProvider` and `BeginLogin`, then `Callback`, `ConsumeChallenge`, `Resolve`,
`LinkIdentity` and `SignIn`, with the provider switched and employees hired or suspended between
any two.

### PlatformOutbox, IdempotencyRecords, ProjectionCheckpoints
`src/` holds the tables' operations but not their callers; publishers, callers and
projectors are whoever calls them, in any order, crashing at any time and reporting late. They are
marked external in the map.  In `PlatformOutbox` a claim is a publisher and a message. The history `late` has the claims
whose lease time has ended, and no claim made after that; `cut` those whose lease was ended before its time by the failure report of
a publisher that had lost its own (`CutShort`). `Lapsed` is both.

### The services for business objects
They share one shape, and the modules share one way to model it. An operation reads the rows it
depends on through the pool and lets a kernel factory check them; then a transaction either locks
the row, checks again and guards its UPDATE, or inserts and checks nothing. The first half is an
action `Read...`, `Begin...` or an entry of `pending`; the second an action named after the
method. `local[c]` or `pending` is what a request holds between the two. History variables named
`late...`, `unseen` or `stranded` collect what was inserted when its check no longer held: a property
excepts those rows by name, and says of all others what the check promises. Foreign keys make an INSERT wait
for a transaction that has locked the parent; an action is a whole transaction, so it waits too.

- `Information`: `status` holds revisions and baselines alike; a supersession locks the current
  row, then the replacement (`LockCurrent`, `LockReplacement`), and may deadlock with its opposite.
- `Deliverables`: the actions are the methods; `Becomes` is the guarded `updateItem`.
- `Publications`: `Refresh` derives the transaction's status within each command that calls it.
- `ExchangePackages`, `ServiceDelivery`, `SiteProduction`: `Advance` and its like are the guarded UPDATEs of
  the parent row.
- `SupplierSourcing`: `Unlocked` is the supplier's row lock, held from `BeginApproval` to the commit.
- `WorkExecution`, `ChangeControl`, `MigrationControl`, `RecordsRetention`, `Commercial`, `CommercialAccounts`:
  transitions count the rows of their parent as their SELECTs do.
- `RecordsRetention`: `clock` counts the dated events (holds imposed and released, approvals), so what is pending knows
  when it was checked. A destruction and its result are checked and inserted each on its own, whatever holds come and go between these
  four moments. The guard key of a hold has its type: holds of two types may be active on one subject.
- `FunctionalFramework`: a caller's transaction reads (`Overlaps`, the published version) and then writes; what
  commits in between is `unseen`. `SUM` is the number of points of the rows (`Total`), a row having as many as its
  percentage; percentages are whole numbers, the two decimals of the columns are left out.
- `TenantLifecycle`: `BeginRegistration` is the two counts, `Register` the inserts, which the unique keys of the
  migrations may refuse (`RollBack`); `TakeOutOfService` is what the operators' commands share; `Authenticate` and
  `CreateSession` are the two halves of a sign-in.
- `ThingLifecycle`: `read[o]` is what the object `o` last read; `Transition` is the repository's transaction with the
  kernel's rules (`InOrder`, `DecisionFits`), `Refresh` the reading that follows.
- `Establishment`: `Begin` is a transaction up to its INSERT, `Fits` what it counts; rows committed in between are not
  seen, and a row that would not have fitted is `unseen`. `Above` is the recursive query `manager_chain`, `Ends` that it
  comes to an end.
- `AccessRequests`: `Allowed` is `evaluateAccess`; `LockRequest` takes the row lock, evaluates the asker's permission
  through the pool, and `ResolveRequest` is the UPDATE, which does not look at its `affectedRows`, and what is announced.
- `Clearances`: `ResolvePersonPrincipals`, `ReadAssignments` and `EvaluateAccess` are the three readings of
  `evaluateForPerson`; the last two of its queries may clear only, and are one step. `before` is the
  history of what was on record when it began. The rows an instance offers have fixed periods.
- `ThingFields`: `CreateThing` and `ReplaceThingFieldValues` are a transaction up to its first write, `InsertThing` and
  `RewriteField` the rest of it; `Slots` are the sequence numbers of values, and `Lineage` the recursive query of the same name.
- `ThingRelationships`: `Exceeded` is the two counts, `InsertRelationship` what comes after; an open end is a period to the last day.
- `ResourceFulfilment`: a project's requirement is fulfilled in one transaction that locks all it sums; a
  capability's in two steps, `ReadRequirement` and `FulfilRequirement`. `Sum` counts points as well.
- `ConfigurationResolution`: `Found` is what the SELECT of a criterion returns at that moment.
- `ValidationRuns`: the actions are the repository's transactions, one for each row; `GoThrough` is the command behind the gate.
- `ProcessPlans`: a freeze is what it reads under the lock of the plan's row and the commit of it (`BeginFreeze`, `CommitFreeze`); a part
  that refers to the plan waits for the lock, one that refers to an operation only (`Details`) does not. A release is one
  transaction, statement by statement (`BeginRelease`, `SupersedeOthers`, `CommitRelease`); `KeyFree` is the unique key over the current version.
- `Opportunities`: `CheckOpportunity` judges the form on a snapshot, `UpdateOpportunity` is the guarded UPDATE.
- `ConfigurationPromotion`: what a command stamps before its transaction (`frozenAt`, `startedAt`) is pending with it.
  A start and a completion lock the row of their run, decide by plain SELECTs what it is to become (`StartPromotionRun`, `CompletePromotionRun`
  with `Hold`), and write it later (`WriteRun`) or roll back; baselines are frozen in between, while rows of the run wait. `overlooked` is the
  history of the baselines frozen between the reading of the drift and the end.

## 3. Runs

All runs are in `PROJECT.json`. Every property of a passing run has a mutant, a plausible
bug in a mapped definition under which the same configuration reports the
property violated.

Services whose tables are disjoint and that do not call each other share a run: a composing module
(`MCSignIn`, `MCControls`, `MCOperations`) picks the one that moves in the initial state, and the others
rest. The state space is the sum of theirs, not the product, and nothing is lost: a property of one
service sees only its own variables, so a behaviour of all together shows it what some behaviour of that
one alone does.

| run | instance | shows |
|---|---|---|
| `migrations` | 2 files, 2 processes, one of which also retries, 2 contents, 2 edits | `ExclusiveApplier`, `AppliedIsWhatRan`, `AppliedIsFinal`; `OrderedApplication` for commands that do not overlap; `RunsEnd` |
| `identity_links` | 2 tenants, 1 worker, batch of 2, 2 attempts, 1 crash | `LinksSpec`: the implementation of one-time links; `EventuallySettled` |
| `identity_claims` | both purposes, 2 workers that may outlive their claims | `ClaimsDisjoint`, `SendableHasLink`, `SettledIsFinal` |
| `identity_purge` | 1 worker | violation, see Divergences |
| `sign_in` | 2 sessions, 2 policies, a federated and a passkey sign-in, a step-up, 1 change; 2 enrolments and sets of codes, 2 challenges, 1 failed attempt, clock 0..2 with a window of 0 | `CapRespected`, `EndedIsFinal`, `DisabledProviderAdmitsNobody`; `RecoveryCodesFresh`, `NothingReused`, `DisableEndsSignIns` |
| `mfa_replay` | 1 enrolment | violation, see Divergences |
| `platform_outbox` | 2 messages, 2 publishers, 3 claims a message, 1 crash | `LeasesExclusive`, `PublishedIsFinal`, `EventuallyPublished` |
| `controls` | 3 callers of one key; 2 projectors; 2 subjects behind 1 network; 2 requests with 1 passkey; 2 logins of 2 subjects; 3 baselines under 1 promotion; 2 versions of a plan and a variation; 2 tenants, 2 registrations, a sign-in; 2 objects of one Thing with 2 Decisions and versions; 2 positions and 2 commands on them; 2 requests of 2 people, 2 who resolve; a version with 3 classifications, a clearance, an exception and an evaluation; a Thing of 2 types with 2 fields; 3 Things with 2 relationships | `RunsOnce`, `AnswersOwnCommand`, `NeverBackwards`, `Throttled`, `CounterNeverFalls`, `SignInsHonest`, `PromotedUndisturbed`, `FiguresStand`, `ServiceSound`, `HistoryJustified`, the types of all |
| `operations` | 2 revisions, 2 iterations, 1 baseline; 1 item with 2 versions and Decisions; 2 transactions, activities and subjects; 2 items and deliveries of a package; 3 assignments; 2 issues on site; 3 approvals of 2 tuples; a workflow of 2 items; 2 governance versions, 3 capacities; a change with 2 actions and a discrepancy; 2 migration runs and items; a record with a version, 2 holds of 2 types, 2 Decisions and a destruction; 2 project and 1 capability requirement; 1 item and 2 baselines under 1 resolution of four criteria; 3 rules of one rule set and 1 command; 3 versions of a process plan with 2 parts and 2 Decisions; 1 opportunity, 2 positions and 2 edits; 2 requests at once in each, 1 in publication, validation and establishing | `ChainsEndInForce`, `IssuedAsReleased`, `LoopClosed`, `AdoptionsTraceable`, `FieldWorkStands`, `OutcomesStand`, `LimitsKept`, `ClosedIsSettled`, `ReconciledIsClean`, `DispositionsAccounted` |
| `holds` | a version on hold | violation, see Divergences |
| `tenant_lifecycle` | a tenant and its operators | violation, see Divergences |

### Bounds, and why they are enough
- Two actors suffice for the races: every hazard is between what one has read and what
  another writes. Three callers of an idempotency key let one replay between two
  that run.
- Two migrations distinguish "previous" from "next"; the theorems cover any number.
- Attempts and caps are 2 or 3 instead of 5 or 10: the code compares them with `<` and `>=`
  only, and "first" and "last" attempt are distinct at 2. Failed codes of a sign-in are 1 in `sign_in`: no property
  counts them, and the challenge that is spent by failures is there at 1.
- `sign_in`: the window of TOTP is 0, so that a code is valid in one of its three periods and a replay in a later
  one is told from a replay in the same; `mfa_replay` has the window of the code, 1. One change of policy or
  provider, at any time: every property compares what came before a change with what comes after it. Both are arbitrary
  in the theorems.
- `MaxIds`, `MaxChallenges`, `MaxSets`, `MaxSecrets`: 2, an earlier and a newer one; passkeys take
  3, since registration and sign-in replace each other's challenges.
- `MaxCrashes` is 1: a second crash finds a state a first one left already, and liveness needs
  crashes to end. `MaxTime` of the rate limiter (6) is three windows of 2.
- Promotion has two times, 0 and 1: a baseline is compared with the start of the run only, as frozen later or not, and what is
  frozen at the time of the start is the boundary. Both registrations of `controls` give one address, so that they race for it;
  for a slug they race with tenants that are created without a registration.
- `SlowWorkers` is FALSE in `identity_links`, where it would square the state space of a
  liveness check, and TRUE in `identity_claims`. Sessions: with two sessions
  the caps 2 and 1 are both exceeded by one mistake; password sign-ins differ from the
  federated one only in being bound to no provider, as passkeys are.
- The business objects: two of what may compete (revisions, items, runs, Decisions) and as many requests as
  it takes to overlap; one parent, since rows of two parents never meet. `MaxPending...` bounds the rows checked
  and not yet inserted: 1 where two would only repeat, 2 or 3 where they compete. Percentages are 50, so that two fit and three do not.
- Clearances: three levels, so that a clearance for the middle one covers the lowest and not the highest; two days, so that
  what holds on one need not on the other. Types of Things: one and one derived from it.
- Rules: one that is mandatory and grave, one that is only mandatory, one that is only grave. Versions of a process plan: three, so
  that two are released beside the one in force.
- `SYMMETRY` in `operations`: `one` and `two` are requests, or rows that no statement orders. No module names one of them, and
  none chooses among them (`CHOOSE` is applied to numbers only), so states that differ by exchanging them are the same; no
  liveness property is checked there.
- Retention: two holds of two types, which may be active on one subject, two approvals, one rule, one destruction, and as many dated
  events (`MaxEvents`) as it takes to impose a hold, to approve and carry out its release and to approve a destruction. Parts of a plan: one that
  waits for a freeze, one that does not.
- Positions: two suffice for a cycle that closes through a functional manager, and the periods are one that ends and one that does
  not; a longer cycle closes by the same check.
- `CHECK_DEADLOCK FALSE` everywhere: the bounds stop the models, and the systems may rest.

### Fairness
- `SchemaMigrations`: weak fairness of each process's step. A command that has begun awaits one
  statement after another; that it is begun, crashes, or a file is edited is not assumed.
- `IdentityOutbox`: weak fairness of each worker (`dispatch-identity-messages-loop.ts:36-60` polls
  for ever and takes its batch to the end) and of time. Requests, uses and crashes are not assumed.
- `PlatformOutbox`: publishers are external; they are assumed to keep polling and to report
  what they have sent. Claims of a message need strong fairness, because other messages and
  other publishers take turns; `claimOutboxBatch` orders by age, so the oldest due message is in
  every batch that is not hidden by a lock.
- Nothing else has liveness properties: authentication waits for people.

## 4. What is proved

For all values of the constants, from the named assumptions on constants only. Every safety property that a
passing run checks is a theorem. The bounds of a model (`MaxTime`, `MaxRows`,
...) are arbitrary constants in its theorems.

### The parts with runs of their own

- **SchemaMigrationsProofs.** `TypeCorrect`. `LockHolds`: the primary key and the status
  guards are a lock, so a migration has one applier; `Truthful`: an APPLIED row carries the checksum
  of the SQL that completed. The inductive invariant `Lock` says who, of the processes past
  their claim, owns a row in APPLYING with which checksum. `Locked`: an APPLIED row is final.
  All assume `OneRetrier`, at most one operator retries; section 6 shows why. `Ordered`:
  as long as no two commands have overlapped, a migration is executed only when every earlier
  one is APPLIED, whatever crashed, failed, was retried or was edited before. Its invariant
  `Order` says that without overlap one process at most is at work (`Alone`), that the rows
  that are not ABSENT are a prefix of which only the last may be dirty (`InOrder`), and that the
  process at work knows (`Scanned`, `Held`). No assumption on retriers is needed.
- **IdentityOutboxProofs.** `TypeCorrect`. `Final`: every UPDATE of the dispatcher looks at the status, so a settled
  message stays. `LinkKept`: whoever purges links, a message that may be sent has its own; inductive as it stands.
  `Disjoint`: two workers hold one message only if its claim grew old under one; its invariant `HeldFresh` says that what
  a worker holds and was not late with is cancelled or claimed less than ten minutes ago, and so is
  neither eligible nor an expired claim (`FreshNotTaken`). `Implements`: the challenges implement
  `OneTimeLinks`; each step is mapped by name (`LinksStep`). That a batch has a first message
  (`LeastElement`) rests on the well-foundedness of the naturals.
- **PlatformOutboxProofs.** `TypeCorrect` (a published message has no lease). `Final`: a late
  report neither reopens nor counts a published message. `Exclusive`: of the publishers that hold one message, at most one has a claim
  that is not `Lapsed`. The invariant `Leased`: the message of a claim that has not lapsed is leased, if not published, and of any two that hold
  it the claim of one has lapsed; with `Answers`: nobody reports what it does not hold.

### The parts that share a run

`SignInProofs`, `ControlsProofs` and `OperationsProofs` follow the composing modules `MCSignIn`, `MCControls` and
`MCOperations`. Each service has a section with its inductive invariant and three lemmas: the initial states
satisfy it (`...Init`), a step of the service keeps it (`...Kept` or `...Step`), and it gives the property
(`...Sound`). The last section joins them: a step of the whole is a step of one service and leaves the others as they
are (`Apart`), so that all invariants hold together in every reachable state (`Invariant`), and the theorems follow. The
assumptions are those that the services make on their constants, joined in `SignInAssumption` and
`SessionsAssumption`, `ControlsAssumption` and `OperationsAssumption`: bounds and dates are
naturals, ids of rows of different tables differ, and no id is the value that stands for the absence of one.

- **Sessions** (`SessionsCapped`, `ProviderShutsOut`, `EndsAreFinal`). Every session that was created has its place in
  the order of `last_seen_at`, so that the `Retained` of an eviction are at most as many as the limit, and what is in use and came
  in under the policy (`Inside`) keeps it. A session that a disabled provider bound, and that is in use, was never
  let in, so no step-up can have bound it to another method.
- **Multi-factor authentication** (`CodesOnce`, `CodesFresh`, `DisabledForGood`). The codes accepted are of earlier secrets, or
  of the present one with a counter up to the last one recorded, and of none while the enrolment is pending; the recovery codes on
  record are of the newest set and unspent; disabling leaves no challenge that could still be completed.
- **Rate limiter** (`AttemptsThrottled`). The history ends with the attempts that the bucket counts, the first of them at its
  `started`; an attempt that is a whole limit before those is a window older than `started` (`Telling`).
- **Idempotency records** (`RunOnce`, `OwnAnswers`), **checkpoints** (`Forwards`). Whoever runs a command in time owns the record,
  what has run in time has settled it, a response in time is to the record's hash; the row on record is the furthest saved, and
  the times of events agree with their sequence.
- **Passkeys and OIDC** (`SignedInHonestly`, `CountersRise`). One challenge of a kind is open at a time, so what has been
  verified with an open one is still ahead of the counter (`StillAhead`): whatever raised it since has closed the challenge.
  A callback owns the challenge it consumed.
- **Promotion, papers, Things** (`PromotionsUndisturbed`, `FiguresKept`, `LifecycleJustified`). What is pending still holds
  of what it was checked against, unless it is late by name; a run that is locked has the row it is about to get justified by what was
  read, and keeps it until the commit, since its results and conflicts wait for the lock and freezes are `overlooked`; the history is
  one line, to which each transition adds.
- **Tenants** (`ServicesSound`, as the next five). The records of operators and of routing agree on whether a tenant is ACTIVE; an
  interruption counts an era, and revokes every session that is open.
- **Establishment.** Two rows that count and are alike share no day, and on each day the lines of managers close no
  cycle. What is above a position is the least set closed under the lines (`AboveLeast`, `AboveClosed`), so a line whose
  subordinate is not above its manager closes none (`AcyclicMore`), however long: no recursion is needed.
- **Access requests.** Who commits a resolution holds the row's lock, so the row is pending and nobody else commits; what was
  effective on a day stays effective on it (`CouldStill`).
- **Clearances.** What an evaluation has read is part of what is on record, and is all of it as long as nothing was inserted
  (`Grounded`, `Covering`). Rows are only added, so an allowance stays justified, and a refusal is due unless something
  was inserted meanwhile.
- **Fields and relationships.** What a command is about to write fits its Thing, which one command at most creates
  (`Fitting`); both ends are of the types named, and two relationships that conflict are one or were not seen (`Conflict`).
- **Types** (`TypesCorrect`). What the invariants above leave out: flags, bounds and histories (`ServicesTyped`). A passkey challenge
  that is open has another attempt before the last (`KeyTypes`), since the CASE of `recordFailure` sees the count its own UPDATE has
  raised; a command knows no time later than the clock (`ReadInTime`); a set with room takes one element more (`RoomForOne`).
- **Information, approvals, process plans** (`ChainsKeptInForce`). A supersession under way holds the rows it has locked, and each row
  says who replaces it; one source approval of a tuple is current, one version of a plan in force; a freeze under way has found what the
  plan has, but for what came past its lock.
- **Deliverables, exchange, publication** (`IssuesReleased`, `AdoptionsTraced`, `LoopsClosed`). What was read before an issue was of
  the item and remains so; what a delivery was read as, it still is at least; the attempt under way is the last of its activity.
- **Service orders, site work** (`FieldWorkKept`), **work, verdicts and resolutions** (`OutcomesKept`). The order follows its rows;
  where an evaluation stands says what there is of its run; a result agrees with the latest baseline as of the time of
  the run, so it can be found again.
- **The functional framework and resources** (`LimitsHold`). A sum is the number of points of its rows (section 2), so that it grows by
  the weight of a row that is added (`PointsInserted`) and fewer rows add up to no more (`PointsFewer`), without induction. A
  caller who has seen every capacity has room for what it asks on each day of its period (`Room`), since whatever is in force on
  that day overlaps the period; who is FULFILLED, partly or not, is told by the points of the shares.
- **Change control and sales** (`Settled`), **migration control** (`Reconciled`), **retention** (`HoldsAccounted`). What
  the transitions have counted on the way is still so; what still holds of a checked operation when its write comes
  (`OpOK`), above all that no conflict which is on time can appear between the count of a completion and its lock; what was
  checked clear of holds (`Clear`) stays clear as of its check: a hold imposed since comes after the check, and one that is released was accounted for
  before (`ClearKept`), so destructions and reports, pending or recorded, remain in order (`ApprovedFor`, `Reported`).

### Only model-checked

- Liveness (`RunsEnd`, `EventuallySettled`, `EventuallyPublished`): fairness and ENABLED are out of the prover's reach.
- The violations of section 6, which are counterexamples.

## 5. What is left out

- Cryptography, ID-token verification, CBOR and HTTP: not state machines.
- Read repositories and pages: they change nothing.
- Audit events. A denied step-up writes one and rolls it back with the exception it throws
  (`mfa-service.ts:675`); that is not visible in the model.
- `session_ttl_minutes` is the event of expiry; `bootstrapUser` is left out.
- Clock skew: an idempotency record's expiry is compared with the caller's `createdAt`; the
  model has one clock.
- Lock waits and deadlocks that the database resolves with an error (`assignWork` against `cancelWorkflow`,
  `startAssignment` against `completeOrder`, opposite supersessions): the loser's transaction is rolled back whole.
- Integration jobs, strategy and metadata administration: one guarded statement or one transaction each. Delegations of permissions; the FTE and SINGLE limits of a position, which are checked on its first day only
  and not for employments. What a template brings to a tenant it is provisioned with; the sessions of the operators themselves.
  The field values of objects: those set while a `save` or before a `transition` is awaited are lost when the object is
  read anew (`nublox-object-runtime.ts:382`). In the modelled components: requirements and responsibilities of deliverables, escalation
  of work, configuration items, the kinds and scopes of effectivities, rule definitions, sales accounts, resources, schedules and restores, sourcing rules, daily logs, delta items.
- Most of the repository's lines: pages, forms, the function catalogue, read repositories, types, input parsing, and
  SQL column lists. The map covers the lines with control that keeps state.
- Components marked `not_modelled` in `PROJECT.json`, with their reasons; the plan has most of them.

## 6. Divergences

Shown by a run:

- `identity_purge` — ADR-0010:36 says successful delivery purges the raw link. It is purged by
  the UPDATE to SENT only: a delivered message whose outcome was lost on its last attempt, or
  whose challenge was used before the outcome was recorded, keeps it.
- `mfa_replay` — README.md:132 promises replay protection for used TOTP windows.
  `confirmEnrollment` does not record the counter it accepted (`mfa-service.ts:497`); the
  same code is accepted at the next sign-in within its window.

- `holds` — ADR-0006:171 says an expired retention does not override an effective Hold. The holds looked at are those
  of the subject named (`records-retention-repository.ts:526`): a destruction of the whole record passes over the holds
  on its versions.

- `tenant_lifecycle` — ADR-0012:82 and :86 give the lifecycle of a tenant as ACTIVE -> SUSPENDED -> ACTIVE and ACTIVE or
  SUSPENDED -> DELETION_REQUESTED -> DELETED. The commands refuse DELETED only
  (`platform-administration-service.ts:392`): a tenant whose deletion was requested is suspended or reactivated.

Met while modelling, and reachable in the models though no run is spent on them; the properties
except these cases by name:

- `migrations.ts:131`: the dirty rows are read once. A second `db:migrate` that read them before
  the first one's INSERT passes over the APPLYING row and runs the next file, although
  `docs/architecture/10-enterprise-kernel-persistence.md:27` says a dirty previous migration is
  refused. `OrderedApplication` speaks of commands that do not overlap (`overlap`).
- `migrations.ts:207`: the retry's claim does not look at `affectedRows`; of two operators who retry
  at once, the second executes the SQL too, also after the first's APPLIED (README.md:162).
  `Retriers` has one process.
- `identity-challenge-service.ts:141-154`: only unexpired challenges are invalidated and only their
  messages cancelled; a message that waited longer than its challenge lived is still mailed
  after it was replaced (ADR-0010:30).
- `apps/web/.../security/mfa/+page.server.ts:123`: the policy is read before the password is verified, and `disable`
  does not look again; MFA that has become required in between is disabled (the page says, :126,
  that it cannot be).
- `auth-repository.ts:437`: the policy is read before the session's transaction; one lowered in
  between is exceeded by one session (ADR-0010:41). `CapRespected` excepts `outside`.
- `auth-repository.ts:588`: a session that goes idle between the SELECT and the touch is revived.
- `portability-factories.ts:294`: a checkpoint without its optional sequence is saved as NULL, after which
  a smaller sequence is accepted. `NeverBackwards` counts from the last one left out.
- `passkey-service.ts:1179`: a challenge is consumed one failure early, and its
  TOO_MANY_ATTEMPTS answer is never given.
- `portability-repository.ts:604`: reports name the key, not the claim. A caller whose record has expired
  completes the record of the next. `RunsOnce` and `AnswersOwnCommand` speak of callers in time.
- `portability-repository.ts:366`: `markOutboxFailed` names the message and may come without `nextAttemptAt`. Of a publisher whose lease has
  ended it makes the message due that another has claimed since, under a lease that has time left, and a third may claim it.
  `LeasesExclusive` excepts the claim that is cut short (`cut`), and no other.
- `configuration-promotion-repository.ts:373-392`: a completion locks its run and not the baselines of the target. A baseline frozen, and stamped after the
  start, between the SELECT of the drift (`:383`) and the UPDATE leaves a SUCCEEDED run with drift. `PromotedUndisturbed` excepts it (`overlooked`).
- `records-retention-repository.ts:412-436`: a hold imposed between the check of a destruction and its INSERT does not stop it: the content is destroyed under
  a hold, and on an approval older than it. The record of the destruction is made all the same; its result can be reported only as HELD while the hold is
  active, unless the hold came after the check of that report (`:451-468`) too. `DispositionsAccounted` measures both by their checks.
- Rows inserted on a stale reading, whose check no longer held: activities of a completed publication
  transaction (`publication-repository.ts:759`), reviews of an item in rework (`deliverable-repository.ts:909`), work items of
  a completed workflow (`work-repository.ts:469`), iterations of a released revision and items of an established baseline
  (`information-repository.ts:526`, `:904`), items of a frozen package and mappings of a rejected delivery (`exchange-repository.ts:331`),
  actions and discrepancies of a closed change (`change-repository.ts:628`), lines of an approved paper
  (`commercial-repository.ts:576`), rules of a frozen retention policy (`records-retention-repository.ts:249`), items of a frozen change set
  (`configuration-promotion-repository.ts:249`), assignments and records of a completed order (`service-delivery-repository.ts:133`; such
  an assignment can still be dispatched), evidence and issues of a completed work package. The properties except them by name.
- `functional-repository.ts:1016`, `:657`: two transactions that do not see each other allocate more than 100 percent, or publish
  two versions.
- `control-repository.ts:554`: the next lifecycle row is a copy of the current one, with its Decision, and
  `control-factories.ts:216` refuses a Decision on a transition that needs none: no uncontrolled transition can follow a
  controlled one, although docs/decisions/ADR-0007-metadata-driven-object-runtime.md:102 makes a transition available
  wherever it is valid from the current state.
- `auth-repository.ts:868`: a sign-in that found its tenant ACTIVE inserts its session after the tenant was suspended; the
  session is usable when the tenant is back. `ServiceSound` speaks of sessions opened before.
- `deliverable-repository.ts:1072`: an acceptance is not tied to the version issued
  (`docs/architecture/04-native-work-delivery-runtime.md:281` binds it to the exact issued subject).
- `migration-repository.ts:1131`: a cutover may name the VERIFIED reconciliation of another run. `:676`: a run inserted on
  a completed plan stays QUEUED and holds the plan's guard.
- `change-repository.ts:952`: any PASS closes a change, also when a later verification failed.
- `supplier-sourcing-repository.ts:246`: a future-dated approval ends the current one at once; approvals outlast the
  cancellation of their supplier.
- `exchange-factories.ts:304`: the subject of an adoption need not be in the package.
- `commercial-repository.ts:587`, `:756`: approvals in any order of numbers; a version is issued on a variation that is closed.
- `records-retention-repository.ts:466`: two requests record the same result twice, and an archive is destroyed twice.
- `identity-challenge-service.ts:413`: a password verified before a reset creates its session after the reset revoked all;
  likewise passkeys and providers switched off during a sign-in (`passkey-service.ts:956`, `:1092`, `oidc-service.ts:1169`).
- `hcm-command-service.ts:516`: two commands that do not see each other's lines close a cycle of managers, after which the
  recursive query of every later command on that chain fails; likewise two primary employments or positions. `EstablishmentSound`
  excepts such rows (`unseen`).
- `hcm-command-service.ts`: an occupancy without an end may outlive its employment; the organisation's own command enters an
  occupancy as primary, by the column's default, whatever others the person has.
- `industry-delivery-command-service.ts:631`: the sum of shares is read before the transaction; two requests give more than 100
  percent of a capability requirement, and its status tells the sum of one of them. `GivenOnce` excepts it (`unseen`).
- `security-classification-repository.ts:311`: two classifications of one version and scheme that are checked at once are both
  inserted, after which every evaluation is refused. `ClearancesHonest` excepts them (`unseen`). `:464`: an evaluation mixes what it
  reads at three moments; an occupancy that is entered meanwhile may not count. `:398`: an exception needs a Decision about its
  subject, whose outcome is not read.
- `thing-administration-command-service.ts:530`: two relationships counted at once exceed a cardinality; `:445`: a
  field that becomes required between the check and the DELETE is cleared all the same. Things that exist when a field becomes
  required lack it until it is set.
- `configuration-resolution-command-service.ts:285`: a run of which a statement fails is not completed; it stays RUNNING. A
  baseline that is committed after the time it was given (`change-configuration-command-service.ts:601`), or filled after it was
  established, changes what an earlier run would find. `Repeatable` excepts both (`late`).
- `validation-policy-repository.ts:183`: a new version of a rule set is in force before it has members, and an evaluation
  without members has PASSED: until they are added, what the version before refused goes through.
- `manufacturing-repository.ts:80`, `:90`: a part read against a DRAFT plan is inserted after the plan was frozen, or, if it refers to an operation only
  (migration 0043:111, :139), while a freeze that has read the parts holds the lock; it is released with the plan although the checksum does not
  cover it. `PlanInForce` excepts it (`latePart`).
- `oidc-service.ts:875`: `updateProvider` may change the issuer under existing links.
- `portability-repository.ts:604`: a record whose caller died stays IN_PROGRESS until it expires, for ever without `expires_at`.

## 7. Plan

Built, in this order: migration runner and its theorems; one-time links and the dispatcher; MFA;
sessions; rate limiter; passkeys; the three portability components and their theorems; OIDC login; information, deliverables,
publication and exchange; work, functional framework, change, migration and retention; promotion and commercial; service
delivery, site production and sourcing; tenants; Things; resource fulfilment, establishment and access requests; clearances, fields and relationships of Things;
configuration resolution, validation runs, process plans and opportunities.

The theorems: first those of the runs with modules of their own, then the services of each composing module with
one inductive invariant each.

Next: the fields of relationships and integration jobs, in the composing modules; the source approvals and
the issues of deliverables as implementations of one abstract "decided once" specification, with the refinement proved as
`Implements` is.
