# A verification of elgon

TLA+ models of the parts of `github.com/dmesha3/elgon` whose correctness depends
on the order in which things happen, or on an algorithm that a handful of tests
cannot cover, with TLC runs on small instances and TLAPS proofs for all. Paths
below are relative to the repository (`src/` in `PROJECT.json`).

`PROJECT.json` lists every component, run, property, mutant, hazard and theorem,
and for every definition the lines it was translated from.

## 1. Inventory

| component | state | operations | what is hard | what must hold |
|---|---|---|---|---|
| SQL job backend, `jobs/distributed.go` | a table shared by processes; `sync.Once`, a closed channel, per worker a claimed row | `Enqueue`, `RunWorker` (`claimNext`, `ack`, `retry`), `Close` | claim is SELECT then UPDATE; statements fail, or take effect and answer with an error; crashes; contexts that end; clock skew; the pool | one owner per job, nothing handled twice, nothing lost silently, queued jobs are reached, workers stop |
| in-memory queue, `jobs/queue.go` | a channel and a flag under a mutex | `Enqueue`, `RunWorker`, `Close` | the flag is read under the lock and the channel used outside it | an accepted message is in one place and is delivered, also after `Close` |
| Redis and Kafka queues, `jobs/redis.go`, `jobs/kafka.go` and their adapters | a list, a topic with its committed offset | the same three | pop before run, pushes that are sent twice, calls that fail or take effect without an answer, offsets committed late, out of order or never, foreign values, `Close` against workers | the same contract for every value stored, with loss; stored values are taken; workers return |
| scheduler, `jobs/cron.go` | entries under a mutex, a goroutine and a ticker each | `Add`, `Start` | `Start` works on a copy; tasks against cancellation | `Start` returns after its tasks |
| migration engine, `migrate/migrate.go` | `schema_migrations` and the schema | `Up`, `Down`, `Status` | replicas migrate together from stale lists; DDL that does not roll back; lost commits | table and schema agree, no holes, counts are the work done |
| migration loader, `migrate/loader.go` | the directory | `Load`, `ParseMigrationFileName` | several files per version, dialects, files that are unreadable, empty or still being written | complete, in order, never another dialect's SQL |
| migration generator, `migrate/generate.go` | files | `GenerateFromModelFiles` | version by the second, name by a random token, Stat then write, two writes; a second copy of the ORM's naming rules | both files whole, or none but what could not be filled or removed; no name twice; the statements of the ORM |
| ORM schema, `orm/schema.go` | the database's tables | `BuildCreateTableSQL`, `AutoMigrate` | processes that migrate together; with and without transactions | all tables after nil, none of its own after an error |
| data accessors, `app_db.go` | adapter, dialect, cached client | `SetSQL`, `SetORMDialect`, `ORM` | double-checked locking | the client is never stale, never built twice |
| lifecycle, `app.go` | listener, error channel, signals | `Run` | signals and a failing listener against requests in flight | nil means that nothing is served any more |
| router, `router.go`, `route.go` | a tree per method | `add`, `find` | patterns that overlap, order of registration | what is found matches and is the most specific |
| request pipeline, `router.go`, `app.go`, `ctx.go`, `errors.go`, `middleware/`, `auth/auth.go`, `observability/metrics.go` | pool of `Ctx`, the request's position in its chain | `ServeHTTP`, each middleware, `writeError` | reuse of `Ctx` between requests, panics before and after a response, errors seen by several layers | no sharing, no leak, guards hold, every request answered that can be |
| ORM tables, `orm/table.go` | a table | `Create...`, `Find...`, `Update...`, `Delete...`, `Upsert` | several statements per call, with and without transactions and RETURNING | bulk inserts accounted for, answers true |
| ORM query builder, `orm/table.go` | none | `whereClause`, `insertQuery`, `updateQuery`, `selectQuery` | flat text, precedence, numbering of placeholders | the SQL means the `Where`; every value in its place |
| OpenAPI, `openapi/` | maps of the generator | `RegisterSchema`, `AddOperation`, `Build` | maps written by every request, recursive types | every reference resolves; later requests only read |
| groups, named routes, plugins, OAuth, config, CLI | maps filled before the server runs, or none | registration; HTTP calls; reflection; parsing | sequential | not modelled |

The components meet at few places. The queues share the `Queue` interface, which
`JobLifecycle` states as an abstract specification. `SQLBackend`, the engine and
the ORM all talk to a database through `db.Adapter` (`db/sql.go` passes every
call to `database/sql`), so each of their models has the same environment: one
atomic step per statement, which takes effect and answers, fails without effect,
or takes effect and answers with an error. The router gives the pipeline a route
and its chain. `App.Run` serves the requests that call `App.ORM`, which gives a
client of the ORM. Scheduled tasks enqueue messages. The generator writes the
directory the loader reads, with statements of the ORM's schema; the CLI calls the
loader and then the engine.

## 2. Modules

| module | models | checked by |
|---|---|---|
| `JobLifecycle` | what a queue promises about a message: new, ready, running, done or dead; after a restart, again ready unless the queue has kept its place | as a PROPERTY of the three below |
| `SQLBackend` | `jobs/distributed.go` | `sql_two_nodes`, `sql_live`, `SQLBackendProofs` |
| `InMemoryQueue` | `jobs/queue.go` | `inmemory`, `InMemoryQueueProofs` |
| `BrokerQueue` | `jobs/redis.go`, `jobs/kafka.go`, their adapters, `jobs/cron.go` | `broker`, `BrokerQueueProofs` |
| `MigrateEngine` | `migrate/migrate.go` | `migrate`, `MigrateEngineProofs` |
| `MigrateLoader` | `migrate/loader.go` | `models`, `ModelMigrationsProofs` |
| `OrmSchema` | `orm/schema.go`, from struct to statement; no state | by the two below |
| `MigrateGenerator` | `migrate/generate.go`, on the directory of `MigrateLoader` | `models`, `ModelMigrationsProofs` |
| `AutoMigrate` | `Client.AutoMigrate` | `models`, `ModelMigrationsProofs` |
| `ModelMigrations` | the four above side by side | `models`, `ModelMigrationsProofs` |
| `AppData` | `app_db.go`, `orm/client.go` | `app`, `AppProofs` |
| `AppServer` | `App.Run` around the requests of `AppData` | `app`, `AppProofs` |
| `HTTPPipeline` | `ServeHTTP`, `Ctx` pool, middleware, auth, metrics | `http`, `RequestProofs` |
| `Router` | `router.go`, `route.go` | `router`, `RequestProofs` |
| `OrmQuery` | the SQL builder of `orm/table.go` | `orm_query`, `OrmProofs` |
| `OrmQueryMeaning` | what its conditions mean: the database and a reference | `orm_query` |
| `OrmTable` | the operations of `orm/table.go` | `orm_table`, `OrmProofs` |
| `OpenAPI` | `openapi/openapi.go`, `openapi/schema.go` | `openapi`, `AppProofs` |

`MC<module>` holds the sets a configuration needs. A definition whose name is a
definition's name with a suffix, and whose comment begins with "Fault:", is a
plausible mistake in that code: put in the place of the original it violates the
property `PROJECT.json` pairs it with, under the same configuration.

### SQLBackend

Each statement of a worker is one step: `Poll` (the select on context, closed
channel and ticker), `PollCreate` (`ensureTable`), `SelectRow`/`SelectNothing`,
`Claim`/`ClaimNothing`, `HandlerOk`/`HandlerErr`, `Ack`, `Retry`, `Stop`.
`Enqueue` and `EnqueueCreate` are those of a producer; `CloseCheck`, `CloseDo`
and `ClosePanic` are the three ways through `Close`. `Cancel`, `Crash`, `Restart`
and `Tick` are the environment. The table is four functions of the job;
`available` and `created` are in units of time on the node's own clock. Payloads
are left out: nothing decides on them.

### InMemoryQueue

`EnqueueCheck` reads the flag under the lock; `EnqueueSend`, `EnqueueCancelled`
and `EnqueuePanics` are the outcomes of the select after the unlock. A buffer of
zero or less is made one, as `NewInMemoryQueue` does.

### BrokerQueue

One process with a `Scheduler`, a queue on Redis or Kafka and workers; the
process may end and start again while the broker stays. A task is a call of
`Enqueue`. The two queues share `RunWorker`'s loop and differ after an error
(`AfterError`: Redis waits, Kafka does not) and in `Close`. A queue may also have
been made without clients.

The broker is a `log` of the values it was given; a value is known by its place. The
clients behind the adapters send a push or a write again when its answer is lost, so
`EnqueueUnanswered` may store a message twice, and may also report an error for one
that is stored. `next` is the place read last and `committed` where reading goes on
after a restart. When `committed` follows depends on the adapter's configuration
(`commits`): with BRPOP at once, as the value is removed (`Pop`); with a `GroupID` in
`ReadMessage` after the value was taken (`Commit`, which may fail, or take effect and
answer with an error: `CommitFails`); with a `CommitInterval` then or never; and
without a `GroupID`, the adapter's default, never, so that a restart reads everything
again. Workers share one reader and commit in any order, backwards too. A topic is
one partition with one consumer process: rebalancing of a group is not modelled.

### MigrateEngine and MigrateLoader

An engine's call is `EnsureTable`, `ReadApplied`, then for each version of its
list `LoopBegin`, `Exec`, `Record`, `Commit`; `LoopMissingSQL` and `LoopEnds` are
the ways out. Whether the database rolls DDL back, whether scripts say
IF EXISTS, and which scripts are blank is chosen once per behaviour. `locks` are the
calls whose transaction is open at the database: a script on the same version
waits for it, and only `Commit`, a rollback on one of the error paths (`Release`) or
the end of the process closes it. A script concerns the objects of its own version.

`Load` is a loop over directory entries; a file name is its parts and the SQL loaded is the
file it came from. A file may be empty, may be gone since `ReadDir`, and may be in the
middle of being written (`unfilled`): then `ReadFile` gives nothing or a part of it,
and `cut` remembers that it did.

### OrmSchema, MigrateGenerator, AutoMigrate, ModelMigrations

`OrmSchema` is `BuildCreateTableSQL` by its parts: tags as sequences of options,
names as sequences of letters, a statement as its table and column definitions.
`MigrateGenerator` has the generator's own copies of the naming and tag rules and
its steps: `GenBuild`, `GenStat` for each token tried, and `os.WriteFile` in two halves,
`GenWriteUp` and `GenFillUp`, `GenWriteDown` and `GenFillDown`, since the file is there
before its content; either half may fail. `GenRemove` is the `os.Remove` whose error is
ignored: the up file goes, or stays (`kept`). A call shares `disk` with
`MigrateLoader`, so a load sees every state of the directory in between. Slices of the
types the generator knows are accepted as in the code: with a `type:` they are
columns, with `-` none.
`AutoMigrate` is a step per entity, in a transaction where `BeginTx` gives one;
what the database does with locks, and that mysql commits DDL at once, is
external. `ModelMigrations` starts them from the situations listed in its MC module.

### AppData and AppServer

`ORMFast` is the part under the read lock and `ORMSlow` the one under the write
lock. `epoch`, `built` and `during` are history.

`AppServer` puts `App.Run` around them: the listener's goroutine with its error
channel, the signal, the select and `Shutdown`. Requests are the callers of `ORM`.
What `net/http` does (accept, wait for idle connections, give up at the timeout) is
external.

### HTTPPipeline and Router

A request goes down its chain, one layer a step, and up again with a result: nil,
an error or a panic. A handler is any list of statuses it calls `WriteHeader` with and
a result: nil, a panic, an `*HTTPError` with its status, with Status 0 or nil, a wrapped
one, or another error. So it may panic or fail after a response, or write two. `sent`
is the first status, which net/http sends, and `code` the last, which the writer of
Metrics keeps. A nil `*HTTPError` makes Metrics panic, and makes `writeError` panic
behind every Recover; so does Status 0 if nothing was written (`WriteErrorPanics`).
`Router` builds one method's tree by `Add`. `find` is `Walk`, the last of
`Steps`, which says where the loop stands after each part of the path.

### OrmQuery and OrmQueryMeaning

A `Where` is a tree of maps and lists as in Go; the builder threads the number of
the last placeholder through it as the code does, and its text is a sequence of
tokens. `buildWhereMap` and `buildOperatorExpr`, which call themselves, are recursive
functions on the maps among `GoValues`; `Nesting` says how deep a value nests.
Every loop of the builder is `Joined`, a turn of it `Extend`. `BuildInsert`,
`BuildUpdate`, `BuildDelete` and `BuildSelect` are the calls that make a statement.
`OrmQueryMeaning` adds the rows: `SqlEval` is the database, which splits the flat text
by the precedence of OR, AND and NOT and evaluates with three truth values;
`Meaning` is the reference and knows neither text nor placeholders. It has RECURSIVE
operators and is only model-checked.

### OrmTable

One step per statement, as above; `Start` has the checks before the first one,
`Begin` the choice between a transaction and the fallback without. Other calls see
committed rows only; an insert of a key that an open transaction holds waits.
Any number of open transactions may wait for each other in a circle; the database
then ends one of them (`InCycle`). NULL keys do not conflict.
`found`, `ret` are the call's own; `made`, `wrote`, `met` and `hit` are
history: rows inserted, rows written, what other calls have done meanwhile to the rows
of the call's `Where`, and whether a fault met the call. `met` has "gone" when they took
a row out of it, "joined" when they put one in and "changed" when they changed one
that stayed; the properties say which of these they allow. A `Where` is an equality here, and rows are over any set of `Values`.

### OpenAPI

A job is the set-up with its calls of `RegisterSchema`, or the `Build` of one
request. `buildSchema` is a stack of frames, one step per field, since another
Build may come between any two map operations; a schema is reduced to the
components it refers to. `Race` is what the Go run-time may do when one goroutine
writes the map while another is at it, `Overflow` what it does to a stack that
has passed `MaxDepth`.

## 3. Runs

| run | instance | shows |
|---|---|---|
| `sql_two_nodes` | 2 nodes, a worker each, clocks one RetryDelay apart, 2 jobs, a handler that fails once, 1 fault | `MutualExclusion`, `NoSilentLoss`, `StrandedOnlyByFault`, `HandledNeverRerun`, `ImplementsLifecycle` |
| `sql_live` | 1 node, 2 workers, 2 jobs, 3 connections, 1 fault, 2 callers of `Close` | `QueuedEventuallyHandled`, `WorkerStops` |
| `inmemory` | 3 senders, 2 workers, buffer of one | `ImplementsLifecycle`, `AcceptedEventuallyHandled` |
| `broker` | Redis, and Kafka with each way of committing, with and without clients; 2 workers, 2 entries of which one has a schedule of zero, 2 runs, 2 places in the log, 1 fault | `ImplementsLifecycle`, `StoredEventuallyTaken`, `ReturnsAfterCancel` |
| `migrate` | 2 calls, 3 versions, every contiguous history, 2 faults, steps 0 or 1 | `SchemaMatchesTable`, `NoHole`, `CountIsWork`, `UpIsComplete`, `CallsReturn` |
| `models` | `Load`: every subset of 11 entries, 3 dialects. Generator: 2 calls together beside a `Load`, 2 tokens, 2 seconds, 1 fault; 1 call beside earlier files; or 1 call for 36 pairs of structs and 3 dialects. `AutoMigrate`: up to 3 processes, 22 lists of entities, 3 dialects, 2 faults | `LoadIsComplete`, `GeneratorKeepsFiles`, `GeneratedAgrees`, `MigrateAccounts`, `MigrationsReturn` |
| `app` | 3 requests, 2 adapters or none, 2 dialects, 3 changes | `CacheCoherent`, `OneClientPerChange`, `AnswersInForce`, `NilMeansDrained` |
| `http` | 2 requests, 2 `Ctx`, 3 chains, 3 tokens, 10 handlers, OPTIONS or not | `CtxNotShared`, `RoleGuardsHandler`, `RecoverAnswers`, `CountedAsSent` |
| `router` | every sequence of registrations of 9 patterns, every path of up to 3 parts | `FoundMatches`, `MostSpecificFirst` |
| `orm_query` | some 1150 `Where`s two levels deep, 15 rows, both kinds of placeholder | `MeansWhere`, `BindsOwnValues` |
| `orm_table` | 2 calls of 20 kinds, 4 tables, unique or not, RETURNING or not, 1 fault | `CreateManyAccounts`, `UpsertAnswers`, `ReturnedAreUpdated`, `CallsReturn` |
| `openapi` | 14 applications over 11 types, 3 requests, stack of 6 | `RefsResolve`, `LateBuildsOnlyRead` |

Why the bounds are enough: what can go wrong between actors in this code takes
two of them (two claimers of one row, two engines, two requests and a reused
`Ctx`, an Upsert and a call that comes between its statements), and a second job, version or key so that
they may also meet on different ones. One fault suffices for every single
failure; the engine has two, so that a call can fail and the next one meet what
it left. `MaxFailures = 1` gives a handler that fails and succeeds on the retry.
`MaxTime` bounds the clock only while nothing waits for it. `Attempts` is 2 where the
code has 16: with two tokens that is enough for a call to find one taken, to find
both, and to get through. The types of `openapi` nest at most four deep, so that
`MaxDepth` is passed by those alone that never end. Deadlock is checked except
where the system really stops: in `broker` (a cancelled process), `models`,
`orm_table` and `openapi` (each call is made once) and `app` (`Run` has returned).

Symmetry is used for jobs, callers, adapters, requests and `Ctx` in runs with safety
properties alone, and for jobs in `sql_two_nodes`, whose refinement has no
fairness.

Fairness. A goroutine that can take a step takes one (weak fairness of
`WorkerStep` and `Step`): the Go scheduler runs every runnable goroutine and
`database/sql` returns from every statement. Strong fairness of `Stop` and
`StopOnCtx`: Go's select chooses at random among the cases that are ready, so one
that is ready again and again is not avoided for ever. Strong fairness of
`EnqueueSend`: senders blocked on a channel are served in the order they came.
`Tick` is weakly fair: time passes. Nothing is assumed of handlers' results beyond
the bound on failures, of callers, of `Close` or of faults. In `BrokerQueue` every
call of a client returns (BRPOP and `Poll` have timeouts), so `WorkerStep` and
`TaskStep` are weakly fair. A ticker need not tick, so `TaskRun` has no fairness;
`MaxRuns` bounds how often a select prefers the tick to a context that is done.
In `MigrateEngine` a call goes on with its next statement once it need not wait.
In `AutoMigrate` (`FairModelSpec`) a process goes on with its step, and the database aborts one of
two transactions that wait for each other. In `OrmTable` a call
that waits for a transaction relies on that transaction's call, and on the
database to end one of those that wait for each other.

## 4. Proofs

Everything below holds for every value of the constants that the named assumptions
of the module allow: any numbers of processes, messages, requests, versions, files,
types and faults. The assumptions say what kind of thing a constant is (a finite
set of numbers, a sequence, a value outside a set); a run of each module has TLC
evaluate them on its instance. Each theorem follows from an inductive
invariant that is proved action by action.

| theorem module | theorems and the property each proves |
|---|---|
| `SQLBackendProofs` | `TypeCorrect`; `Exclusive`: `MutualExclusion`; `NothingLost`: `NoSilentLoss`; `HandledOnce`: `HandledNeverRerun`; `Refinement`: `ImplementsLifecycle`; `StrandedAfterFault`: `StrandedOnlyByFault` |
| `InMemoryQueueProofs` | `Invariance`; `Refinement`: `ImplementsLifecycle` |
| `BrokerQueueProofs` | `Invariance`; `Refinement`: `ImplementsLifecycle` |
| `AppProofs` | `Coherent`: `CacheCoherent`; `OneClient`: `OneClientPerChange`; `Answers`: `AnswersInForce`; `ServerUsesData`; `NilDrained`: `NilMeansDrained`; `Resolved`: `RefsResolve`; `LateReads`: `LateBuildsOnlyRead` |
| `RequestProofs` | `TypeCorrect`; `Invariance`; `CtxApart`: `CtxNotShared`; `RoleGuarded`: `RoleGuardsHandler`; `PanicsAnswered`: `RecoverAnswers`; `CountedRight`: `CountedAsSent`; `TreeBuilt`; `RouteMatches`: `FoundMatches`; `SpecificFirst`: `MostSpecificFirst` |
| `MigrateEngineProofs` | `SchemaMatches`: `SchemaMatchesTable`; `HistoryWhole`: `NoHole`; `CountsWork`: `CountIsWork`; `UpCompletes`: `UpIsComplete` |
| `ModelMigrationsProofs` | `MigratesWhole`: `MigrateAccounts`; `KeepsFiles`: `GeneratorKeepsFiles`; `LoadsAll`: `LoadIsComplete`; `GeneratesSame`: `GeneratedAgrees` |
| `OrmProofs` | `Invariance`; `BulkInsertsAccount`: `CreateManyAccounts`; `UpdatesAreReturned`: `ReturnedAreUpdated`; `UpsertFindsItsRow`: `UpsertAnswers`; `OwnValues`: `BindsOwnValues` |

### SQLBackend (`NodesAssumption`, `NoJobAssumption`, `BoundsAssumption`)

Mutual exclusion is not inductive: a
claim is decided by the status column alone, so one has to know that an owned row
is marked processing (`OwnedProcessing`). To keep that over `Ack`, which deletes by
id, only handled jobs may be acknowledged (`AckHandled`), and a handled job may
have no owner but one on its way to ack and never be queued again
(`HandledSettled`); for `Enqueue`, which writes a fresh row, whatever a worker holds
must be a stored job (`HoldsStored`, `RowsInserted`). `Typed` is proved first, one
lemma for each group of actions, then `Safe` from it; what a fault does to a
statement is the same case as the statement itself.

The same invariant carries the refinement: the phase of a message is computed from
its row, its owner and its history, and each action either moves one message a step
along its life cycle or, when a process ends, loses a set of them
(`Advancing`, `Losing`). `StrandedOnlyByFault` needs
one conjunct more, `FaultFree`: before the first fault no process has ended and no
context is done, so every statement of ack and retry takes effect.

### InMemoryQueue (`BufferAssumption`, `NoJobAssumption`)

The invariant says that a message has one place: its `Enqueue` call, one slot of the
channel (`Buffered`), one worker (`HeldOnce`), or behind a handler (`OverSent`).
Without it the channel could hold what a worker has, and the step that receives it
would be no step of the contract. Each step moves one message and leaves the others
where they are (`OthersSame`). The panic of a late send ends the process and maps to
`Lose`.

### BrokerQueue (`BoundsAssumption`, `GarbageAssumption`)

A restart goes back and never forward, and nothing is read that was not given
(`Offsets`: `committed <= next <= Len(log)`, although workers commit in any order). The
value a worker has was read, no other worker has it, and no handler has returned for
it since it was read (`Taken`): without that a value could run twice in one life of the
process. `Counted` is about the scheduler: a run of a task has a number, so its message
is one. Under the invariant a value's phase can be read off the offsets and the workers
(`PhaseTable`). Storing a value, a second time too, submits a new one (`GiveSubmits`);
reading starts it, commits nothing of the contract's, or drops it (`ReadMoves`,
`HeldMoves`); and a crash is the contract's `Restart`, where values come back only if
they lie behind the committed offset (`CrashRestarts`). Pops whose answer is lost, and
values that a failed commit leaves to nobody, are losses (`Losing`).

### AppData and AppServer (`NilAssumption`, `NilIsNoClient`, `BoundAssumption`; in `AppProofs`)

The strengthening says that a client was built if and only if
one is cached (`BuiltIsCached`), that there is none without an adapter, and that
the present configuration is among those a slow caller has lived through
(`PresentCounts`), which is what its second look under the write lock needs.
`ServerUsesData` proves that `AppServer` implements `AppData`: the server's own steps
leave the accessors alone and its requests make their calls. `NilMeansDrained`
adds that a call of `ORM` belongs to a request in flight (`CallsServed`), that only
`Run` shuts the server down and only then its goroutine closes the channel
(`ShutByRun`), and that nil comes from a `Shutdown` that found nothing in flight,
after which nothing is accepted (`NilAfterDrain`).

### HTTPPipeline (`NoneAssumption`, `NoneIsNoStatus`, `ChainsAssumption`; in `RequestProofs`)

For any chain of the layers, in any order and number. On the way down:
every request in service has a `Ctx` of its own whose principal is none or its own
(`OwnPrincipal`), and only an admin is beyond a `RequireRole` (`RolePassed`). On the
way up, what the layers return determines what was and will be sent. What a handler
wrote first is what was sent (`Written`). A panic has met no Recover, unless Metrics
panicked over the handler's nil `*HTTPError` (`PanicUncaught`); the error of a handler
that panicked is still that panic or the 500 that Recover made of it, and nothing was
sent if the handler wrote nothing (`PanicPending`). An error that `writeError` cannot
write is the handler's own (`OwnError`). What Metrics has counted is the status that
was or will be sent, for the handlers that come to one status (`CountedSoFar`).
`RoleGuardsHandler` rests on the pool: without `CtxNotShared` another request's
principal could stand in the `Ctx`.

### Router (`PatternsAssumption`, `MaxPathLenAssumption`; in `RequestProofs`)

For any patterns, in any order of registration, and paths of any length. The
invariant `TreeOK` is about the tree: every node has its parent and lies on the way
of a pattern that was registered, or of the one at which `add` panicked
(`NodesOK`); routes are at the ends of their patterns (`RoutesOK`); a node has a
parameter's or wildcard's name exactly when it has that child (`NamesOK`), without
which `find` would read a name that was never set. It is kept by `Add`, and by
`AddPanics`, which leaves half a way behind.

`find` is then followed part by part. `OnItsWay` says of the loop after `i` parts
that it stands at a node of the tree whose every edge was the one preferred there
(`Preferred`), and has captured the parts at the edges that are not texts, in their
order (`Captured`). The induction over the parts is a least counterexample: the
first part after which `OnItsWay` fails has one before it (`WalkOnItsWay`). From it
`FoundIsMatch` and `FoundIsPreferred`: two patterns that lead to one node
differ in names only. That a path is found when every pattern that starts like it
matches it (`GuidedIsFound`) needs `NeverLost`: while parts remain, a pattern that
the walk has followed so far has an edge for the next one.

### OpenAPI (`TypesAssumption`, `AppsAssumption`; in `AppProofs`)

References are noted in frames long before the component they are noted in exists,
and other Builds write to the map in between. The invariant therefore speaks of
every frame of every stack: what a frame refers to is already a component
(`RefsKnown`), the models a Build has passed are known (`Passed`), and after the first
complete Build all models of all routes are (`AllKnown`), so that a later one finds
nothing to add (`LateKnows`). Components are never removed. Recursion without end and
the data race are covered: they end the process.

### MigrateEngine (`VersionsAssumption`, `ScriptsAssumption`, `BoundsAssumption`)

`Versions` is any finite set of numbers. A call works through the list it read at
its start. While all calls go up, what a list leaves out is applied and
stays so (`UpKept`; `DownKept` for the other direction), and the call takes the
least version left (`AtNext`): so `NoHole`. With transactional DDL, transactions on
one version exclude each other (`Apart`), and what a script has found of its version
holds until the commit (`Held`): that is why a second engine's INSERT cannot succeed
twice, and a change is counted when and only when it was made (`Fresh`, `Counted`).
Without it, `Dropped` says that only one `Down` can have dropped the objects of a
version. The proof of `CountsWork` showed where the count of `Down` is not its
work: besides scripts that say IF EXISTS, an `Up` without transactional DDL
restores the objects that one `Down` has dropped, a second `Down` drops them
again, and both count one row. That takes three calls, one more than
the run `migrate` has; `CountIsWork` leaves the case out. `Invariance` includes
`Locks`: a call holds locks exactly between its script and the end of its transaction,
so one that has returned, on whichever path, blocks nobody; that is the part of
`CallsReturn` that does not depend on fairness.

### ModelMigrations (`FilesAssumption`, `GenAssumption`, `RankAssumption`, `SetupsAssumption`, `StructsAssumption`, `NamesAssumption`)

`NamesAssumption` says that `Files` has an index for every name the generator can
come to: the directory has no a priori limit in the code.

- `AutoMigrate`: the entities behind a call's loop counter have tables, in the database
  or in its open transaction (`Progress`), what is pending is its own (`OwnPending`), and
  before the commit it has shown nothing (`NothingShown`); so the commit gives all and
  a rollback leaves none.
- The generator: a call that has settled on a name alone (`Settled`, `Sole`) has in the
  directory exactly what its program counter says, and filled as far as it says
  (`Leaves`); a completed call's down
  file is never removed by anyone (`DownStays`), although its up file may be, and that
  is what keeps a later call from its name (`Apart`): `GenStat` looks for both.
- `Load`: `byVersion` holds, for each version among the entries read, what the last
  file of either direction held when it was read, which is nothing if the file is
  empty or was being written (`Collected`, `FromLast`). Entries are taken in
  order (`LoadTyped`), so the last one read is the last in the directory. `Ascending`, the
  model of `sort.Ints`, is proved to list a finite set of numbers, each once, in
  order (`AscendingLists`). The directory may change while the loop runs
  (`BesideLoad`); for its files to be known the invariant of the generator is used.
- `GeneratedAgrees`, for any structs: a call that looks for a name has the script of
  its structs (`Scripted`). The generator takes only ASCII letters for letters where
  the ORM takes all, but a name it accepts in the end is an identifier, and then
  both rules give the same (`SnakeNames`, `OneTable`). It filters the fields
  twice, which is as good as once (`SameFields`). Sorting the tables by name keeps all
  statements because the byte order is total on them (`BeforeOrders`, `Places`);
  `RankAssumption` and `StructsAssumption` say that letters have distinct bytes and
  what a parsed struct looks like.

### OrmTable (`OrmTableAssumption`; in `OrmProofs`)

For any finite number of calls of any kind, over any rows. The invariant is a fact
about each call (`Own`) and one about all rows: each belongs to nobody or to a
transaction still open (`Owners`). While a bulk insert runs, its counter is the
number of rows it has made and all of them are there (`Counted`). While `Upsert`
runs, as long as no other call took its row away, the row it found, or has inserted, is
still in its `Where`; beside it there are only rows that others have put there; and it
has the values the Upsert knows of or gave it unless others changed it (`Upserting`,
`Result`). `Foreseen` is the same of the rows that stand in for RETURNING. A call's own
step keeps its fact, one lemma per action (`StartOwn` to `RereadOwn`). Another call's
step changes the rows of its `Where` only in the ways `met` records (`Sight`), so what is
known of it stays known or is no longer claimed (`BesideKept`). Nobody waits for a call
without a transaction, so that one is in no deadlock (`NoRowsNoDeadlock`), and only a
fault or the unique constraint gives its statements an error. The constraint's error
needs a row with the key, which the first query had not seen: another call has put it
there.

The proof corrected the model and a property. `UpsertAnswers` had to say that, on a
table with a unique column, the `Where` is by that column: with another, the
update or insert may be refused for a key that belongs to a row outside the `Where`.
In the model, a deadlock has to be any circle and not two calls, a key is
refused also when one UPDATE gives it to several rows, and NULLs conflict with
nothing. The first needs three calls, one more than the run has; for the other two the
run has calls that meet them.

### OrmQuery (`KeysAssumption`, `ValuesAssumption`, `LimitsAssumption`; in `OrmProofs`)

`BindsOwnValues` holds for any `Where`, however deep, any `Values`, limits and
offsets. The assumptions say that `KeyOrder` lists each key once and that what a map
or a list contains nests less deep than it does, as every finite Go value does.

A piece of text is `Good` from a number on when it has one placeholder for each of its
arguments, numbered on from there, and hands on the last number (`Sound`), or is
an error. Each builder of one column makes good pieces (`EqualsGood` to
`OneOperatorGood`); a turn of a loop keeps it (`ExtendGood`), so do a whole loop
(`JoinedGood`) and brackets (`BracketedGood`). The builders are recursive on values, and
two facts need an induction on `Nesting`, each by the least depth at which it would
fail: that they satisfy their own definitions (`BuildersUnfold`: the functions that
agree with them up to a depth agree with each other, `LevelsAgree`, so one exists for
all, `BuilderExists`), and that what they build is good (`OperatorsGood`,
`WheresGood`). `StatementBinds` then puts SET or VALUES, the condition, LIMIT and
OFFSET in a row. The parts before and after the condition are where a number could go
wrong, and where the fault of the run does.

### What is only model-checked, and why

- Liveness (`QueuedEventuallyHandled`, `WorkerStops`, `AcceptedEventuallyHandled`,
  `StoredEventuallyTaken`, `ReturnsAfterCancel`, `CallsReturn`, `MigrationsReturn`)
  rests on fairness, which the proof system does not reason about.
- `MeansWhere`: its database and its reference are RECURSIVE operators on texts
  and trees, out of the prover's reach. What a proof would add to `OwnValues` is
  that the brackets group the flat text as the tree does; the run checks that for two
  levels of AND, OR and NOT around every operator.

## 5. What the checks found

Against what the repository says:

- `jobs/queue.go:51`: a `Close` between `Enqueue`'s check and its send, or while the
  send is blocked, makes the send panic (`EnqueuePanics`), where `queue.go:45`
  answers `ErrQueueClosed`. The process ends with it: the contract counts what it held
  as lost, and `AcceptedEventuallyHandled` excuses it.
- `migrate/loader.go:40`: each file of a version and direction replaces the one
  before in the order of names, and `0001_init.pg.up.sql` comes before
  `0001_init.up.sql`: for up the general file wins, although
  `docs/modules/migrate.md:11` promises "dialect-specific migration file selection"
  and the comment at `loader.go:14` lists the dialect's file as the specific one.
  For down it is the other way round. `LoadIsComplete` says nothing of the SQL where
  both files are there (`Contended`).
- `orm/table.go:248`: "Upsert updates matching rows when present", but when several
  rows match, its first query answers `ErrNonUnique` and nothing is written.
  `UpsertAnswers` leaves the case out.
- `orm/schema.go:347`: a `table:` option on a field that is a column is an unknown
  option and refuses the entity, although `docs/modules/orm.md:66` allows it "on any
  struct field"; it works on embedded and unexported fields.
- `migrate/generate.go:40`: "using the same rules as orm.BuildCreateTableSQL" does not
  hold for a struct with a `TableName` method, which the generator does not see,
  nor for fields it refuses and the ORM passes over: an unexported or skipped field
  of a type it does not know.

Seen while modelling, and part of the models' behaviour:

- `jobs/kafka.go:70`: after `Close`, or while the broker is down, a Kafka worker
  polls in a tight loop until its context ends.
- `jobs/redisadapter`, `jobs/kafkaadapter`: a push or write whose answer is lost is sent
  again by the client, and its message may be stored, and handled, twice; when the
  client gives up, `Enqueue` reports an error for a message that is stored.
  `kafkaadapter.go:80`: `GroupID` is empty by default, and then nothing is committed and
  a restart handles the whole topic again. With a group, workers that share the reader
  may set the offset back, and a `CommitInterval` leaves it behind: handled messages run
  again after a restart. A message whose commit failed is not seen again in this
  life of the process.
- `migrate/generate.go:91`: two calls in one second that draw the same token write
  the same files; if one of them then fails on its down file it removes the up
  file of the other, which has reported success (`Clash`). Two calls of one second
  with different tokens share their version, and `Load` merges them into one
  migration with the SQL of one of them. `:104`: a down file that broke off stays behind
  alone, and from then on `Load` fails for the whole directory. `:105`: the error of
  `os.Remove` is ignored, so that an up file may stay behind for a call that failed, and
  is then a migration without a down script.
- `migrate/loader.go:35`: a file that a generator has created and not filled yet counts
  as empty, an up file of this kind fails the load, and of one that is half written
  the part that is there is taken for the script.
- `orm/schema.go:168`: CREATE TABLE IF NOT EXISTS accepts a table of that name with
  other columns, so two entities that map to one table both succeed. `:357`: a
  `type:` option on a `sql.Null...` field is ignored.
- `openapi/openapi.go:234`: the first requests for a specification race on the map
  unless a `Build` has returned before. `openapi/schema.go:56`: a struct that
  contains itself directly or in a list never stops being expanded.
  `RegisterSchema` under the name of another type gives that type's references the
  registered schema. The race of the first requests is allowed by the model;
  `LateBuildsOnlyRead` says when it is over. A generic type's `Name()` contains
  characters (`/`, `[`) that a `$ref` would have to escape; names are tokens here.
- `app.go:144`: when the listener fails `Run` returns while requests are in flight.
- `jobs/distributed.go:123`: the rows of the SELECT stay open during the UPDATE. In
  `sql_live` with `MaxConns = 2` two workers hold a connection each and wait for a
  third for ever, and `QueuedEventuallyHandled` fails; the run has one connection more.
- `jobs/distributed.go:90`: two callers of `Close` may both find the channel open; the
  second close panics, ends the process, and leaves the rows it owned processing.
- `jobs/distributed.go:132`: the claim does not look at `available_at_ms` again, so a
  row that was failed and put back between SELECT and UPDATE runs before its
  delay is over.
- `jobs/distributed.go:96`: when the first CREATE TABLE of an instance fails, the
  `sync.Once` keeps later calls from trying again; every `Enqueue` and claim of the
  instance fails until it is made anew. `QueuedEventuallyHandled` excuses such an instance.
- `jobs/distributed.go:132`: no lease expires; a row whose worker died or could not
  call `retry` stays processing, also because `retry` gets the context that has just
  ended. `StrandedOnlyByFault` says that nothing else leaves a row so.
- `observability/metrics.go:42`: no defer, so a request that panics below Metrics is
  not counted. Counted under another status than was sent are: a wrapped `HTTPError`
  (500 for its own status); an error returned, or a panic recovered, after a response
  was written (the error's status for that of the response); and a second
  `WriteHeader` (the last for the first). `CountedAsSent` is about the other handlers.
- `middleware/recover.go:15`: a handler that has sent a status before it panics keeps
  it; Recover's 500 goes into a response that is under way. `app.go:164`: a nil
  `*HTTPError`, or one with Status 0 when nothing was written, panics in `writeError`,
  outside of every Recover: the connection is aborted and its `Ctx` not given back.
- `router.go:94`: `find` does not go back, so a path that a pattern matches may not
  be found when a more specific one starts like it; `FoundMatches` says when
  it is. `router.go:58`: the first pattern names the parameter of a node for all.
- `middleware/cors.go:35`: OPTIONS is answered by the chain, which runs only when a
  route for OPTIONS is found.
- `migrate/migrate.go:60`, `:153`: an Up and a Down from stale lists can leave a hole;
  two Downs of idempotent scripts both count a version. `:129`: without transactional
  DDL a process that ends between script and record leaves a schema the table does
  not tell of; `SchemaMatchesTable` is about transactional DDL. Scripts of several versions
  that touch the same objects, and could wait for each other, are not modelled.
- `orm/table.go:65`: in a transaction, `CreateMany` answers with a count of rows that
  it has rolled back. `:253`: two `Upsert`s of one new key insert twice without a
  unique constraint, and one or both answer `ErrNonUnique` although their rows stay;
  with one the second fails and writes nothing. When another call takes the row away
  between the statements, `Upsert` answers `ErrNotFound`, or nil with a row that a third
  call has put in its place and that its update never reached. `:581`: a create value that
  contradicts the `Where` wins, and `Upsert` then reports `ErrNotFound` for a row
  it inserted. `:200`: without RETURNING, `UpdateManyAndReturn` lists the rows of its
  first query, though others have joined or left the `Where` before the UPDATE.
  `:224`: a `Where` of empty logical lists passes the guard and changes every row.

## 6. Not modelled

- Groups, named routes and plugins: maps and prefixes filled in before the server
  runs, by one goroutine. `RegisterPlugins` stops at the first error and keeps the
  plugins before it, as its error tells the caller.
- JWT coding and OAuth: cryptography, HTTP and JSON without state of their own.
- `config`: reflection over tags and parsing of scalars.
- The CLI: flags and scaffolding; its migrate command calls what is modelled.
- Logging, formatting of metrics, and of OpenAPI documents their annotations,
  examples and security entries; `examples/`.
- LIKE patterns: a value that itself contains `%` or `_` is not escaped by the code
  and is not among the inputs of `orm_query`.

## 7. Plan

Built in this order, the most important behaviour first: queue contract and SQL
backend with its proofs; in-memory queue; engine and loader; data accessors with
proofs; pipeline and router; ORM; brokers and scheduler; schema, generator and
AutoMigrate; lifecycle; OpenAPI.

Then the proofs of section 4, from the queue contract outwards: all three queues,
the parts of `App`, the pipeline, the migrations, the ORM's tables. The
router's walk, the generator's statements and the query builder's placeholders came
last: they are functions of data, and are proved by least counterexamples.

What is left: `MeansWhere` for any depth. It needs the evaluation of `OrmQueryMeaning`
as recursive functions, the text by its length and the `Where` by its nesting, and
the lemma that a bracketed piece has no AND or OR outside brackets.
