# Formal model of cool-admin-go-next

TLA+ specifications of the parts of this Go back-end framework whose
correctness depends on the order in which processes, goroutines, transactions
and messages take their steps, and of the code generator whose output has to
agree with what the run time checks. TLC checks them on small instances, TLAPS
proves the central ones for every instance. `PROJECT.json` lists the components,
the runs, the source lines behind every definition, and the hazards the
properties are aimed at.

## 1. The system

cool-admin-go-next is a framework (`cool-next/`) with business modules
(`modules/`). A code generator reads the modules and writes the registry an
application starts from. Several application instances share one SQL database,
optionally Redis, and a message broker.

| Component | State | Operations | Interacts with | Hard behaviour |
|---|---|---|---|---|
| Outbox table, `cool-next/outbox/store` | rows with status, attempts, availability, claim token, lease | Enqueue, Claim, Renew, MarkSent/Retry/Dead, CleanupSent, ReplayDead | called by enqueuer and workers, own transactions | stale tokens, lost replies, leases that run out |
| Outbox worker, `outbox/worker.go` | claimed records, loop position, stop contexts | poll, claim a batch, publish, renew, settle, clean up, stop | table, broker | crash between broker and settlement, two workers on one row, stop deadline, starvation |
| Outbox consumer, `outbox/consumer*.go` | deliveries in flight, inbox rows, attempt counters | receive, count, run handler in the inbox transaction, ack / retry / dead letter, replay | broker, database, business handlers | duplicate and concurrent deliveries, lost acks, unknown commit results |
| Task scheduler, `modules/task/service` | cron entries per instance, lease in the task row | add, update, start, stop, delete, run once, cron callback, load, shutdown | request transaction, gcron, database | registry changed before commit, callbacks in flight, leases between instances, clocks |
| Plugin host, `plugin/host/manager`, `modules/plugin/service` | desired rows, generations, resolver, compile cache | install, update, delete, publish, invoke, drain, reconcile, close | database, WebAssembly runtime | stale publication, drain against calls, cancelled compilation |
| Requests: `core/gnctrl`, `crud`, `core/gnservice`, `db/tx` | one transaction scope per request | bind, plan, hooks, add, delete, update, info, list, page, nested scopes, commit, answer | database, recycle bin, business hooks | failures swallowed by a handler, fields a client may not write, limits |
| Recycle bin, `db/gnrecycle`, `modules/recycle` | archived rows | archive on delete, restore, expire | requests, a daily job | concurrent deletes, updates and restores of one row |
| Base administration, `modules/base/service` | users, roles, menus, departments, relations | add, update, delete, move | row locks, session revocation | checks made on relations that another transaction is changing |
| Sessions, `auth` | sessions in memory or in two Redis keys | create, access, refresh, revoke | login, Redis | rotation races, revocation races, lost replies |
| Login risk control, `risk` | captchas, counters, locks; fallback state | captcha, allow, record, clear | login, Redis | capacity, windows, outage and probe |
| Application lifecycle, `core/app` | started components, transports | assemble, scan, initialise, start, supervise, stop | all components | rollback of a partial start, stop deadline |
| Schema and seeds, `db/schema`, `seed` | tables, import marks | inspect, synchronise, guard, import | several instances at once | statements without a transaction, two importers |
| Module graph, routes, `core/module`, `core/route` | the registry, built once | BuildGraph, BuildTable | generated code | its checks panic at start |
| Code generator, `codegen`, `cmd/cool` | the generated file | generate, check, build | the project's source | the order of components, what it accepts against what the run time refuses |
| Everything else | — | configuration, EPS, gRPC serving, plugin bundles, dictionary and space modules, scaffolding | — | sequential; see section 6 |

What makes them correct:

* **Outbox table**: a live claim is ended by its holder only; claim columns are set
  exactly while a row is leased; a sent row is final.
* **Outbox worker**: no committed message is lost before the broker has it; a
  message is eventually sent or dead; workers that keep up never publish one
  message at the same time.
* **Outbox consumer**: the handler's effect is committed once; nothing is
  dropped; every message is processed or ends as a dead letter.
* **Task scheduler**: one cron entry per task and instance; one execution at a
  time; a stale executor cannot touch its successor's lease; a leftover entry
  goes away.
* **Plugin host**: a call never runs on released code, every replaced
  generation and every compilation is released, close ends, the node's
  diagnostics reach the desired rows.
* **Requests**: the answer says what was committed; a request whose part failed
  is not committed; clients do not write protected columns nor read hidden ones,
  and answers are bounded.
* **Recycle bin**: the last version of every row is in exactly one place.
* **Base administration**: an enabled administrator remains; relations point at
  rows that exist; menus are a forest; a session carries its user's current rights
  (each with the isolation level it needs, sections 3 and 4).
* **Sessions and risk control**: both stores behave like one atomic session
  store; a refresh token used twice ends its session; guesses are bounded; an
  outage of Redis is always probed again.
* **Application**: what the generator accepts starts; nothing outlives what it
  needs; a seed is imported once.

## 2. Modules

| Module | Models | Uses |
|---|---|---|
| `OutboxTable` | the row and each SQL statement as an operator on a row | — |
| `OutboxStore` | abstract specification: the table under arbitrary callers | `OutboxTable` |
| `OutboxWorker` | enqueuer, workers, broker, clock | `OutboxTable`, `Backoff`; refines `OutboxStore` |
| `Backoff` | the doubling, capped, jittered retry delay | — |
| `OutboxConsumer` | broker consumer adapter, deliverer, inbox | — |
| `TaskScheduler` | scheduler, executor and task requests of several instances | — |
| `PluginHost` | plugin manager, compile cache and administration of one node, other nodes as its environment | — |
| `Authority` | administration of users, roles, menus and departments with login, refresh and logout | — |
| `SessionStore` | abstract specification: sessions that are created, rotated and ended atomically | — |
| `RiskControl` | the two back ends of the risk service, an operator per method | — |
| `Login` | request goroutines through risk service, user transaction, authentication service and session store | `RiskControl`; refines `SessionStore` |
| `CrudPlan` | compilation of query options and field policies, and what a plan selects | — |
| `RequestBinding` | from a request body to service input and written columns | `CrudPlan` |
| `Requests` | requests, transaction scopes, statements, recycle bin | `RequestBinding` |
| `Schema` | table differences and the statements that remove them | — |
| `RouteTable` | `route.BuildTable` | — |
| `ModuleGraph` | `module.BuildGraph` | `RouteTable` |
| `EntityDeclarations` | entity declarations, descriptors, compiled entities, expected tables | `Schema`, `RouteTable` |
| `ModuleSources` | module roots, configuration, constructors, consumers, gRPC, query calls | `EntityDeclarations`, `ModuleGraph` |
| `Controllers` | services, controllers, routes, and the controller builder | `ModuleSources` |
| `ProviderGraph` | providers, dependency resolution, topological order | `Controllers` |
| `Registry` | rendering: its checks, the registry, the assembly | `ProviderGraph` |
| `AppLifecycle` | instances: schema, seeds, construction, start, supervision, stop | `Schema` |
| `Application` | edit, generate, build, run | `Registry`, `AppLifecycle` |
| `OutboxStoreProofs`, `OutboxWorkerProofs`, `OutboxConsumerProofs` | theorems about the three outbox modules | each the module it is named after |
| `TaskSchedulerProofs`, `PluginHostProofs`, `AuthorityProofs`, `LoginProofs`, `RequestsProofs` | theorems about the other concurrent components | each the module it is named after |
| `MC*` | instance data and symmetry sets for TLC | — |

### Correspondence with the code

*OutboxTable / OutboxStore.* A row keeps `status`, `attempts`, `claimToken`, and
the three times the SQL conditions compare with the database clock. Times are
relative to that clock and clipped where no condition can tell values apart, so
`Tick` ages all rows. A `WHERE` clause is a predicate (`Available`, `Expired`,
`HoldsClaim`, `Cleanable`), the assignments of an `UPDATE` are an operator
(`Claimed`, `Renewed`, `MarkedRetry`, ...). `OutboxStore` lets any caller use any
token that may still be in somebody's hands (`held`), lets replies get lost
after the commit, and makes tokens fresh: 16 random bytes are taken not to
repeat. Payload, headers, topic and error text are read by no condition.

*OutboxWorker.* One process per worker. `pc[w]` is where `run()` is; a batch
makes up to three claim calls (`claim1..3`: half of the batch from one source,
the rest from the other, the remainder from the first again, the first source
alternating from batch to batch). Each
claimed record is a task with its own goroutine: it restores the envelope,
calls the broker, heartbeats, and settles with its claim token. Database calls
fail with or without effect, the broker may take a message and report a failure,
`OnStop` cancels the claim context and after its deadline the publish context,
and a process may crash at any point. `malformed` are messages that
`NewRecord` stores and `envelope` rejects later.

*OutboxConsumer.* The broker is external and modelled by what
`BrokerConsumerBackend` is used for: a delivered copy stays hidden until it is
acknowledged or its visibility ends. `Slots` are the goroutines of `receive`.
A delivery goes received, counted, inserted (transaction open, handler run),
decided, settled; every call of it can fail, with its effect or without. A message may
be one that `restoreDelivery` refuses before it is counted (`RestoreFails`), or one
that `checkEnvelope` or `decode` refuses after the counter has advanced (`DecodeFails`);
both are dead letters, only the second uses up an attempt.
`InsertBlocked` is the unique index of the inbox table: a second insert of the
same message waits for the first transaction.

*TaskScheduler.* One task and several instances. A request writes the
row in the request transaction, changes the registry (two separate critical
sections of the scheduler's mutex: `Sync`, `Register`), and commits or rolls
back. A job is a cron callback or a manual run: claim, run with heartbeat,
settle, or drop its entry. The row lock of the open transaction blocks the
executor's statements (`RowFree`). `timely` chooses once whether clocks agree
and heartbeats are on time; the lease properties are also checked for
behaviours where they are not.

*PluginHost.* One node. `row[k]` is the plugin's row and active artifact, which
administrators change here (`Request`, prepare, `Commit`, publish) and on other
nodes (`RemoteCommit`). An actor is the reconcile loop or an administrator's
request; its `stage` says between which critical sections of `manager.mu` it
stands, and there everybody else may overtake it. A generation is candidate,
serving, draining, or closed with calls still on it; `order` is the manager's list,
`after` the chain that `Close` builds. Preparing is acquire, compile, instantiate;
a compilation whose last reference goes is cancelled and may still be joined.
`Publish` covers `Publish` and `PublishReplacing`; `Diagnose` is the separate
`setDiagnostic` after it, together with the loop's failure record, which only
the loop touches. A plugin either claims the one contested hook or none.
Instance quotas, nested calls, and conflicts between a hook and a key are left out.

*Authority.* Every service operation is one transaction of a process: `LockRows`
takes the rows of one `LockRows` call of the code, table after table in the
service's own order (`LockCalls`), `Read` makes the plain reads and the checks on
them, then relations are rewritten, the sessions of the users concerned are
revoked while their rows are held, and the transaction commits. `KeepAdmin`,
`CheckAdmin`, `CheckParents`, `SeenBefore` are the checks by their Go names. A
login or refresh saves its session while it holds its user's row. Waiting in a
circle is ended by the database for one of the transactions (`Deadlock`).
`RequestForms` says which fields each request may submit; `CanInsert` stands for
primary keys and for the unique label of roles. Menus are added, moved and deleted in
batches, and `MenuImport` inserts a tree without locking anything; users, roles
and departments are one per request.
Identifiers of deleted rows are not used again.

`Runner.Within` begins its transactions without an isolation level, so what a plain read
sees is the database's default, and `isolation` is either: the committed rows
(PostgreSQL), or the rows at the transaction's first plain read (`snap`; MySQL, the
database of the shipped configuration). Locks and writing statements always meet the
current row. SQLite admits one writing transaction at a time and is left out here.

*SessionStore / RiskControl / Login.* `SessionStore` has four atomic operations.
In `Login` a request's `pc` stands between two accesses to shared state: a Redis
command or script, a critical section of `MemoryStore`, of the risk service, or
the user's transaction. A Redis session is a locator and a field of the user's
hash (`locator`, `hash`), which expire on their own; `ReadLocator` and
`ReadContent` are the two reads of `readSession`, the scripts compare what was
read. Every Redis call may fail with or without its effect. `RiskControl` has
one operator per method of `memoryRiskBackend` and per Lua script, from a state to
an answer and a state. `Visible` is the refinement mapping: the sessions a
reader of the store can see now.

*CrudPlan / RequestBinding / Requests.* A controller's `CurdOption` and a request
body become a plan or the class of an error (`QueryChecks`, `PolicyChecks`,
`OrderRequestChecks` are the checks of the compiler in its order, `QueryPlan`,
`CompilePlan` what it builds). A body is its shape and its items; a field of a
mutable remembers whether a client or the application set it. `ApplyQuery` is
what the SQL of a plan returns from joined rows. In `Requests` a goroutine
goes through receive, `Begin`, `ModifyBefore`, the statements of its action,
`ModifyAfter`, a nested scope where its handler opens one, `Commit` or `Rollback`,
and `Finish`. A statement is one step, with the row locks of MySQL or SQLite's
single writer. Deletion reads its targets for update, inserts the record and
deletes the rows in three statements; restoring is the reverse, one transaction
per record, in which `InsertSnapshot` inserts the record's rows one by one.
`MaxRestoreCount` is the code's limit on the identifiers of a restore.

*Schema / AppLifecycle.* A table is its columns and indexes with their compared
attributes. An instance is a `stage` with a position in what that stage works
through: tables, seeds, places of the assembly, components, transports. DDL
statements take effect at once; a seed's transaction has the three points at
which other instances can see it. `Stop` fixes the list of hooks the way
`Application.Stop` does; `StopBegin` and `StopReturn` are the two ends of a hook.
A failing call, a component that ends by itself, a hook that hangs and a crash
are `Fault`s.

*RouteTable, ModuleGraph, EntityDeclarations, ModuleSources, Controllers,
ProviderGraph, Registry.* The generator and the run time as functions of a
project: a record of modules with their configuration, entities, services,
constructors and controllers, in which an expression is absent, a constant or
`Dynamic`. An operator named after a Go function gives the diagnostic codes that
function reports, or what it builds. Words stand for texts; `Malformed`,
`Spelling`, `Numerals` and `Types` are what the lexical rules, `strconv` and the
Go type checker say of them. `GraphInput` is what the generated package gives to
`MustBuildGraph`, `Assembly` what its function `assemble` adds, both in order.

*Application.* The working tree (`source`), the generated file (`registry`) and
the binary (`plan`). `Edit` changes the source, `Generate` writes the registry of
a source without diagnostics, `Build` compares it again and fixes settings;
then instances run. `panic` says which of the run time's checks a build fails.

## 3. Runs

| Run | Result | What it shows |
|---|---|---|
| `outbox_race` | pass | two workers, one message: no loss, exclusive claims, attempt limit, one publisher at a time, a live claim ended by its holder only, sent rows final, claim columns that match the status, refinement of `OutboxStore` |
| `outbox_batch` | pass | one worker, two messages: every committed message is settled, a stop ends |
| `outbox_consumer` | pass | two deliveries at once: effect once, nothing dropped, budget of runs, every message decided |
| `task_scheduler` | pass | two instances: one entry, one execution, leases ended by their owner, leftover entries go |
| `plugin_hooks` | pass | two plugins on one hook, one with an upgrade; caller, administrator, other node, loop and close: no call on released code, references balance, no lost generation |
| `plugin_sync` | pass | two plugins, one of them running, a caller, one change, one failure: diagnostics reach the row, close ends behind its chain of drains |
| `authority` | pass | two transactions at a time out of 22 requests, logins and refreshes, at READ COMMITTED and REPEATABLE READ: sessions of enabled users with the current password, user and role relations without gaps at both levels; the last administrator, current roles, menu parents and the menu forest at READ COMMITTED |
| `authority_mysql` | violation | at REPEATABLE READ the last two administrators are removed by two requests |
| `login` | pass | two requests over Redis or memory with an outage: refinement of `SessionStore`, stolen tokens end their session, guesses bounded, the probe alive |
| `requests` | pass | two requests at a time out of 35, on MySQL or SQLite, with and without the bin, one failure: rows conserved, answers match commits, protected columns and policies hold |
| `application` | pass | a project and its second release, defects, two instances that fail or crash: what is accepted boots, dependencies outlive, seeds once |
| `application_outbox` | violation | a project with an event and a consumer is accepted and panics when it boots |

Bounds. `MaxFaults`, `MaxChanges`, `MaxEvents`, `MaxPublishes`, `MaxReplays`,
`AttemptBound`, `LeaseBound`, `MaxRequests`, `MaxNow`, `MaxPairs`, `MaxReleases` and
`MaxBoots` cap what would be unbounded. Two workers, deliveries, goroutines or
instances are the smallest number that races; a third adds a repetition of the
same pairs. Three tokens let a row be claimed while two stale tokens are still
around. A lease of two units with a publication timeout (or renewal interval) of
one is the smallest that satisfies the configuration check and leaves a moment
between the two. A retry limit of two gives a first, a last and an excess attempt.
Two faults allow a failure during the recovery from another. In the plugin runs
three generation objects are reused: one served, one replaced or candidate for
each actor; a fourth only waits for a drain. `plugin_hooks` starts from rows a
restarted node may find, so that one change reaches upgrades, disabled plugins and
hook conflicts. `plugin_sync` starts from one such running row as well: its first
reconciliation overlaps with the one change, so that two publications, a call in flight
and `Close` meet, and `Close` drains a generation behind another that waits for the call. With
a second change the liveness check is too large.

`OutboxStore` has no run of its own. What it promises arbitrary callers is proved for
every instance (`OutboxStoreProofs`), and `outbox_race` checks the same three statements on
the table the workers share, together with the refinement.

`authority` sends three requests: two race, and a third can be a login
before or after either. Every relation has a row that is used, one that is not,
and one to come; `m4` and `m5` are menus that are added below others or imported
as a tree. `login` has one account and one client whose limits are one, so
that a captcha or guess too many, a lock, its end and its doubling fit into two
units of time; three pairs are a login, a refresh and one that competes.
`requests` sends two requests over rows and records that are there at the start,
so that each pair of operations meets on one row; a batch and a page have
two and one entries, the smallest limits that can be exceeded. A restore names at
most three identifiers, repeated ones included, because three admits a repetition and
two records; one of the records has two rows, so that a restore can fail between
them. `application`
boots three processes: two at the same time and one after a failure, a crash or
a second release. One module imports rows with keys of their own and a menu tree, the
other rows without keys. `ImportRows` reads and inserts the rows in one
step: an importer that inserts after another's commit is undone by the unique
index of the mark, whatever it has read before. `MCApplication` contains about 65 projects with one defect
each; `DefectsAreRefused` has TLC check, before the run, that the generator
reports each of them with its own code and nothing else. A defect in a project
can therefore not reach the run by accident, and each stage of the generator is
exercised on both sides of its checks.

Symmetry is used on messages, tokens, workers, goroutines, instances, sessions
and captchas where no liveness property is checked. With symmetry TLC does not
sort the fields of every record it stores; `Login`, `RiskControl`, `Authority` and
`CrudPlan` therefore write record fields in the order in which TLC keeps them, so that
two of its workers never sort a shared one at the same time. Deadlock is checked except
for the consumer, task, plugin, authority and login models: there the bound
on publications, requests and faults, or a closed manager, lets the system come to
rest.

Fairness. Goroutines are scheduled (weak fairness of each worker's and
delivery's own steps); calls with a context end because every one of them has
a timeout (`PublishTimeout`, `ConsumerTimeout`); the process supervisor restarts
a worker or adapter that stopped; the broker ends the visibility of what was
not acknowledged; live cron entries fire again. `Exit` of a worker is
strongly fair because its `select` also has the ticker as a ready branch, and Go
chooses among ready branches at random; the clock is strongly fair because it is
disabled while a task that keeps up has a step to take. In the plugin host,
compilations, instance starts, calls and drains have timeouts, and the sync ticker
fires; administrators need not make requests. No success of a
database or broker call is assumed, only that the number of failures is finite.
The other runs check safety and assume no fairness.

## 4. Findings

* `application_outbox`: `writeGenerated` puts the outbox worker and the consumer
  runtime in front of the constructed components, although they depend on the
  publisher and the adapter among these, and `compileDependencies` refuses a
  provider that does not come before its consumer. Every accepted project with an
  `outbox.Enqueuer` parameter or a consumer panics in `MustBuildGraph`. `assemble`
  adds the two last, so `scanAssembly` would refuse them as well. No module of the
  repository uses the outbox, which is why it starts.
* `authority_mysql`: `keepAdmin` is there to protect the last effective administrator.
  At MySQL's default isolation level, which `Runner.Within` leaves in force, its plain
  reads repeat the snapshot of the transaction's first plain read, the one that found the
  admin roles to lock; a request that waited for these locks does not see
  whom the holder has removed. Two requests remove the last two administrators. The
  outbox store asks for READ COMMITTED by name where it needs it
  (`store/database.go:197`).

Observations, from configurations beside the runs (`TaskViolation.cfg`,
`AuthoritySnapshot.cfg`) and from modelling:

* `TaskViolation.cfg` violates `RunningTaskIsScheduled`: `Scheduler.run`
  (`scheduler.go:172`) removes the task's current entry rather than the one that
  fired. Stop, a callback in flight that saw the stop, start again, and the late
  removal leave a running task without an entry.
* `AuthoritySnapshot.cfg` checks three more statements at REPEATABLE READ, each of
  which is violated for the reason of `authority_mysql`. `RolesAreAlwaysCurrent`: a
  role's deletion lists the users of the role from its old snapshot and misses one
  that was added and logged in meanwhile; the session keeps the deleted role.
  `ParentsAlwaysExist`: a menu's deletion looks for the children of a level in its old
  snapshot and misses a menu added below it. `MenusNeverCycle`: two updates put each
  of two menus below the other, and each `checkParents` passes on its own old
  snapshot. docs/db.md says that relations have no foreign keys and that business code
  guarantees that references exist; `checkParents` refuses cycles. The findings count
  this cause once.
* `MenuService.Update` locks the menus it has read, and checks the tree again under
  these locks. Menus added after that read are not locked: if two updates read before
  four menus `a`, `b` below `c`, `c`, `d` below `a` are added, one can put `a` below `b`
  while the other puts `c` below `d`, and neither sees the cycle. It takes requests
  that name menus before they exist. `MenusFormAForest` speaks of the menus that were there
  at the start; that every menu is in the forest is false, at READ COMMITTED too.
* `Publish` of the plugin manager changes the resolver and the diagnostic in two
  critical sections. The loop may publish an older revision last while the
  diagnostic shows the newer one; then it never looks at the plugin again. A
  retired singleton, and a reinstallation that starts at revision 1 again, have
  the same effect. `CatchesUp` is therefore about diagnostics.
* `Deliver` turns an unknown commit result on the last attempt into a dead letter
  although the effect is there; a replay is then a no-op thanks to the inbox row.
* A message that crashes its worker on every publication is claimed again without
  counting an attempt (`store/sql.go:163`). A task's stop that rolls back leaves a
  running task without an entry until the next start or restart (`info.go:141`).
* Users lock roles, departments, users; roles lock menus, departments, roles,
  users. Transactions can wait for each other, and the database has to end one.
  Departments on a cycle, which nothing prevents, can never be deleted.
* Failures recorded in memory during an outage are not consulted once Redis is
  back; `consumeCaptcha` has no fallback; `ClearLoginFailure` never clears the
  fallback. A late failure of an ordinary call ends a probe's exclusiveness.
* `page * size` is not checked for overflow; the hidden columns are removed from
  the root entity only; an update of a missing row, and a deletion of missing
  records from the bin, succeed silently.
* `importDB` sets a sequence outside its transaction. After a failed
  initialisation, later components that need none are not stopped. `Run` may
  return the nil error of `Stop` although a component's failure ended it.
* Accepted projects that do not build or boot, besides the finding: control
  characters in texts that must be free of them; module directories that are
  no identifiers; a tag that names an API its `Curd` has not (the builder
  panics); a table called `cool_recycle`; controllers or seeds without entity and
  outbox (the generated file does not compile, CG092).
* `Schedule.Next` skips to the next hour with `Truncate`, which is relative to
  absolute time; in a zone with a half-hour offset minutes are passed over.

## 5. Proofs

Eight modules contain theorems, one for each component except the generator and
the application's life cycle. The theorems hold for any sets of messages,
workers, goroutines, users and so on, and for any durations and bounds
satisfying the named assumptions, which TLC evaluates on every run. Of each module the type invariant is proved as well; it is part of the
inductive invariant, called `Inv` or named below.

**Outbox table** (`OutboxStoreProofs`). `TypeOK /\ ClaimColumnsMatchStatus` is
inductive, and neither half is without the other: a settling statement keeps the
columns consistent only if the row it starts from is typed and consistent, and
that a replayed or cleaned-up row carries no token is what
`ClaimColumnsMatchStatus` says of dead and sent rows. The action properties follow
from `RowStep`: every step changes every row in one of five ways (kept, ended by its
holder, taken when no lease runs, queued, removed after retention).

**Outbox worker** (`OutboxWorkerProofs`). `Inv` adds three facts. `RowsMatch`: the
columns fit the status (the invariant of the table). `TasksTruthful`: a task works
on a committed message, one whose answer was an acceptance has its message at the
broker, and one about to mark its row sent has been accepted; without it marking
a row would not be known to lose nothing (`NoLoss`). `LeaseOutlivesTask`: in the
timely behaviours a task still holds its claim, with less time left to it than to
the lease of its row; that is the argument about time behind `OnePublisher`, and
it starts from `PublishTimeout < LeaseDuration` (`WorkerAssumption`, the check of
the configuration). `WorkersImplementStore` maps each step to one of `OutboxStore`
or a stutter, and `OutboxStoreProofs`, instantiated with the workers' table and the tokens of
their goroutines, gives `ClaimColumnsHold`, `LiveClaimsHold` and `SentStaysSent`.

**Outbox consumer** (`OutboxConsumerProofs`). `EffectsMatchInbox` and `InsertExclusive` tie the
effects of a message to its inbox row and to the one delivery that may have inserted
it without having committed (`ExactlyOnce`). `Retained` follows every published
message: it is queued, in the inbox, in the dead letters, or carried by a delivery
pledged to settle it (`NeverDropped`). `Budget` adds to the runs so far those that
deliveries under way may still make (`BudgetRespected`). There is a message
and the set of delivery slots is finite (`ConsumerAssumption`).

**Task scheduler** (`TaskSchedulerProofs`). `RequestAlive` and `RegistryEmpty` (no entry
while an instance is down, loading or stopping, nor once a request has cleared it)
make a new entry the only one (`NoEntryLeaked`). `OneJobPerEntry` and
`RunnerOwnsLease` are about the lease: in the timely behaviours an execution that runs
owns it, its remaining time and the time since the last renewal add up to
`LeaseDuration`, and the latter is at most `RenewInterval`, which is shorter
(`TaskAssumption`). `OneRun` follows. `LeaseProtected` needs only the types: the
conditions of the statements protect a lease whatever the clocks say.

**Plugin host** (`PluginHostProofs`). The invariant has three layers: rows and actors
are what the steps expect (`RowsReal`, `ActorsBusy`); a candidate belongs to the one
actor that prepared it, a live generation is in the manager's order, a call keeps its
generation until it is cut, and a closed manager serves nothing (`CandidatesOwned`,
`LiveAreTracked`, `CallsHold`, `ClosedServesNothing`, with `NoOrphanGeneration` itself); and a
cache entry that is held or waited for is in the state its holders expect and counts
them (`EntriesServe`, `ReferencesBalance`), by counting lemmas over sets that gain or lose
one member. `CallsAreLive` follows. `HostAssumption` says that the rows
found at boot are rows of existing builds, and that generations and
administrators are finite sets.

**Administration** (`AuthorityProofs`). The invariant says, of each transaction, that
what it has read and will rely on still describes the committed rows. `Changes`
is what a commit may do to rows its transaction has not locked (next to nothing),
and `OthersKeep` that the facts of every other transaction survive it: this is where
the order of locks and reads counts. An operation that removes administrators
holds every role labelled admin, so there is only one at a time, and what
`keepAdmin` found stays true. The deletion of a menu keeps the invariant that the
children of each level it has locked are known, because a menu can only be moved
below one that is held. A login holds the row of its user, which whoever revokes
the user's sessions holds until the commit. The constants admit both isolation levels, and
the invariant has two strengths: what rests on locked rows and on the rows that
statements write holds at either, what rests on plain reads only at READ COMMITTED. So
`AdminStays`, the roles in `SessionsCurrent` and the menu parents in `GrantsKept` are
stated for READ COMMITTED (at REPEATABLE READ they are false, section 4); the
account part of `SessionsCurrent`, the relations in `GrantsKept` and
`TypeCorrect` are stated for both. `InitAssumption` says that the first
administrator is there, `MarkAssumption` that marks for missing rows and omitted
fields are no values of the columns.

**Login** (`LoginProofs`). `ProbesEnd` follows the flag of the fallback through every
return of the goroutine that probes. The invariant for `ReplaysEndSessions` is
`PairsSpentOnce`: while a session lives its current pair is unused, and every
other pair was used by the one refresh that rotated it away. It needs that what a
goroutine has read of the two Redis keys is still true as far as it acts on it
(`ReadsHold`), that both keys expire together (`LocatorsTrue`), and that drawn pairs are new
and different (`DrawnIsNew`, `DrawnDiffer`). `StoresImplement` proves the refinement of
`SessionStore` step by step for both stores: each step changes what is
visible by one put, by ending sessions, or not at all. For `GuessesLimited` each
operation of the two risk backends is reduced to what it does to the entries of the
accounts (`MemoryStep`, `RedisStep`): an entry stays, goes when it has lapsed or is
cleared, or counts one more failure (`Fails`). `LimitHolds` then says, of the backend in
force, that a locked account admits nobody else, so its guesses and the goroutines
admitted before the lock stay within the bound, and that one which is not locked remembers
every guess made. The count starts anew when the clock moves, when Redis
fails or comes back (each backend keeps its own failures, also for a request that met the
failure and is answered from memory afterwards), and when a right password
clears the failures. A password refused because the table of accounts is full is not
counted. `LoginAssumption` says that durations are whole, goroutines finitely many and
that None is no value, `RiskAbsent` the same of Absent; `RiskConfig` and `TokenConfig`
are the checks of the configuration.

**Requests** (`RequestsProofs`). The types already carry
`ProtectedFieldsAreTheServers`: what a transaction has written is a row under its own
key with the application's values in the protected fields, input that claims to come from
the server holds the server's value, and the content of a record is typed like the
rows, so a restore brings nothing else back. `FailureKnown`
follows the failure a scope has recorded and gives `AnswersAreTrue`. For
`RowsAreConserved` the invariant is in two parts. `Conserved` is about the
committed state: rows and records hold what was last written, a row is archived once
and not while it is in the table, nothing is lost, and keys to come are unused.
`Tracked` is about each transaction under way: it owns what it has written
(`WritesOwned`), what it has read is still committed as long as it acts on it
(`Reads`), and its pending writes insert, replace, delete with their archive, or
restore with their record dropped (`Writing`). `HeldApart` and `Undisturbed` carry these through the commits of the others:
by the row locks of MySQL and PostgreSQL, and by SQLite's single writer and the
refusal of writes from a snapshot that has become stale. Without `FOR UPDATE` in
`archiveDelete` the step of an update between reading and archiving breaks it.
`EntityAssumption` says that the entity's key is its field `id` and that the mark for a
missing row is no row, `InputsAssumption` what the JSON of a request can be,
`FoundAssumption` that the rows and records found at the start are consistent
and older than the keys given out next, `RequestsAssumption` that keys and bounds
are numbers. The query plan is an opaque value in these proofs.

Only model-checked:

* Liveness and fairness, which the prover does not handle.
* `MenusFormAForest`: section 4 says why it is about the stored menus only; the argument
  that the locks of an update cover every cycle among these has not been written as a proof.
* `AnswersWithinPolicy` of `Requests`: it is about what a compiled plan selects, and
  plans are computed by folds over sequences, which need induction over data.
* The properties of `AppLifecycle` and `Application`. `AcceptedProjectBoots`
  evaluates the generator, whose recursive operators the prover cannot expand, on
  a list of projects.
* The values of the recursive delay in `Backoff`: proofs use only its bounds.

## 6. Not modelled

* Configuration loading and validation, EPS documents, gRPC and HTTP serving,
  plugin bundles and protocol codecs, the COS plugin, scaffolding and the
  plugin command: sequential transformations of data, or pure input/output.
* Text templates, Go parsing and type checking, file writing: the generator's
  decisions are modelled, its texts are not.
* DDL wording, driver versions and the statements of the start-up probe.
* Task schedule patterns: calendar arithmetic with time zones, which a small
  instance cannot cover.
* The read-only queries of the outbox store, task logs, `nextRunTime`, audit names,
  menu export, parameters, logs and translations of the base module; dictionary
  and space modules, whose actions are those of `Requests`.
* Instance quotas, nested calls and hook-to-key conflicts of the plugin host; form
  and file binding.
* Goroutines that outlive their request's scope: the closed scope refuses them.
* Signatures, hashes and random tokens are perfect: they are not guessed and do
  not repeat.

## 7. Plan

1. Proofs: `SeedsImportedOnce` and `DependenciesOutlive` of `AppLifecycle`.
2. An abstract registry of generations that `PluginHost` implements; quotas, nested
   calls and several nodes.
3. Schedule patterns and argument splitting against reference definitions.
