# Verification of sqlx-turso

TLA+ models of the run-time behaviour of `sqlx-turso`, the SQLx adapter for the
Rust `turso` engine, with TLC runs and TLAPS proofs. Paths below are relative to
`src/crates/sqlx-turso-core/src/` unless they name another crate.

## The system

| part | state it keeps | operations | modelled in |
|---|---|---|---|
| transactions (`transaction.rs`, `connection.rs`) | `TransactionState`: depth, queue of depths to roll back, failed flag | begin, commit, rollback, drop of a handle (`start_rollback`), `clear_pending_rollback` | `TransactionState`, `Connection`, `NestedTransactions`, `Pool` |
| pool (`pool.rs`) | none of its own: aliases of `sqlx_core::pool` | acquire, release, begin, ping | `Pool` |
| execution and streams (`executor.rs`) | the statement cache, `FetchState` of a running stream | `fetch_many_sql`, `prepare_sql`, `FetchState::next`, `fetch_optional`, `prepare_with`, `describe`, `inspect_sql` | `Connection` (order), `FetchStream` (cache, stream), `Pool` (prepared statements), `SqlText` (inspection) |
| migrations (`migrate.rs`) | the migrations table and the schema, in the database | the methods of `Migrate`; identifier parsing | `Migration`, `Identifiers` |
| database files (`migrate.rs`, `lifecycle.rs`, `driver.rs`) | the main file and its sidecars | `create_database`, `database_exists`, `drop_database`, `validate_file_target` | `DatabaseFiles` |
| driver (`driver.rs`) | one shared in-memory database per `TursoMemoryState`, behind an async mutex | connect, `memory_database` | `Driver` |
| options (`options.rs`, `features.rs`) | values shared by `Arc`, copied when changed; the sequence number of in-memory names | builders, `from_str`, `build_url` | `Options` |
| values (`value.rs`, `type_info.rs`, `arguments.rs`) | the argument buffer | encode, decode, `compatible`, `add` | `Values`, `ValueFlow` |
| Any backend, describe hooks (`any.rs`, `macros.rs`) | none | map of types and values, type of a column in a query macro | `ValueFlow` |
| query macros (`sqlx-turso-macros/src/lib.rs`) | none | `rewrite_sqlx_paths` | `MacroPaths` |
| CLI (`sqlx-turso-cli/src/main.rs`) | directories on disk | stage, commit, clean up | `PrepareWorkspace` |
| errors, trait glue, facade crate | none | a table, forwarding, re-exports | not modelled |

How they meet. The application owns a `TursoConnection` exclusively (`&mut`), so
one call is in flight per connection; calls are futures that may be dropped at
any await. sqlx_core's `Transaction` is a handle on the connection: its `drop`
calls `start_rollback`, which is synchronous and can only queue the depth. Every
later call first awaits `clear_pending_rollback`, which sends the queued
`ROLLBACK`s; only `prepare_with`, `describe` and `ping` do not. A pool hands the
connection on in whatever state it was left. Migrations run on a connection
through the same calls. Connections of a pool, and of several processes, meet in
the engine, at its write lock, and once before that: when they are opened through
clones of the same in-memory options they meet at the mutex of the shared
`TursoMemoryState`, and when they open a file, at the file another task may be
dropping. A value meets the engine's affinity between the column it is written to
and the row it is read from. The CLI shares nothing with the rest but the metadata
directory its cargo child fills.

What is hard: the lazy rollback (what happens between the drop and the next use,
and when the drain fails or is cancelled half way, on a connection that has gone
through a pool meanwhile); savepoint names that are reused while old ones are still
on the engine's stack; an engine that ends a transaction on its own; a stream that
is one row behind the engine and may be dropped at any row; migrators without a
lock that crash, fail and race; a database of several files that is dropped file by
file; a mutex held over an await whose future may be dropped; hand-written scans of
SQL text and names; a declared type, a stored class and a Rust type that must agree;
two processes that swap the same directory and may be killed between two renames.
The hazards are listed, line by line, in `PROJECT.json`.

What makes each part correct:

- transactions: rollbacks undo scopes inside out; an open scope is inside an
  engine transaction and has a handle; no transaction is left without a handle, a
  queued rollback or the failed flag; laziness cannot be observed; every call returns.
- pool: nobody sees or continues another's unfinished work; what was acknowledged
  stays and what was given up never appears; a statement is prepared against the
  committed schema; the write lock of an idle connection comes back.
- execution: a statement is cached once and within the capacity; results are
  final when delivered; errors cost at most the row in hand; a text is run as a batch
  exactly if it is one, and its placeholders are the engine's where its names are plain.
- migrations: a transactional script and its row take effect together; a dirty
  row leaves nothing behind; versions apply in order; no write lock is orphaned;
  every run ends; names stay inside their quotes.
- database files: a database never meets a sidecar of another; a drop that
  succeeded left nothing; no database is created unasked.
- driver: connections share a database exactly if their options are clones with a
  shared cache, or name the same file; every connect returns.
- options: the name of an in-memory database stands for one database on every
  clone; a URL means the same however its parameters are ordered, with two
  stated exceptions; what is written is read back, where a URL can say it.
- values: what was written is read back by the type that wrote it, or is an error,
  in every column, but for the seconds of an offset; no number is misread beyond the
  rounding of f64; an encoder that fails leaves no argument;
  the type a macro infers reads what is written as it.
- query macros: every path of an expansion can be reached from the user's crate.
- CLI: complete metadata is never lost; partial metadata is never in place.

## Modules

- `TransactionState` — one operator per method of the Rust struct, on records.
- `Engine` — external: the part of SQLite's semantics the adapter relies on. The
  engine's content is one value; a savepoint remembers the value it was taken at.
  `ROLLBACK TO` keeps its savepoint, `RELEASE` of the outermost savepoint of a
  transaction opened by `SAVEPOINT` commits, names need not be unique.
- `NestedTransactions` — the abstract promise: a stack of scopes, each
  remembering the content it began with; dropping a handle undoes its scope at once.
  It also has the call in flight and its result, so that a begin, commit or rollback
  that returned `Ok` did what its name says and one that returned an error did not.
  What it promises includes what a user would not expect: a begin that fails inside a
  scope undoes that scope (`Fail`), its handle then stands for the scope around it,
  and the last handle for none (`EndNothing`). So it counts `handles` beside `scopes`.
- `Connection` — one connection and its application. A call is split at its
  awaits: it starts (`Call...`), drains (`RollBackPending`, `SkipPending`,
  `FailPending`, or `RefuseFailed` at once), and runs its own statement (`Begin`,
  `End`, `EndAtZero`, `WriteQuery`, `ReadQuery`, `RawQuery`) or fails (`OwnFails`,
  `QueryFails`) or is dropped by the application (`CancelPending`, `CancelOwn`).
  `GiveUp` is the common end of a call that fails: the `Transaction` it owned is
  dropped and queues the depth. That holds for begin too: sqlx_core 0.9 (external) makes
  the `Transaction`, open, before it awaits `begin()`. `Faults` selects what may go wrong.
- `Pool` — composes `TransactionState` with sqlx_core's pool and the engine's
  write lock (both external): clients, connections, transactions one level deep. The
  content is the sequence of committed writes; a connection also has the
  snapshot its transaction reads and the content its cached statement was prepared
  with. Calls are split as in `Connection`; `Prepare` does not drain.
- `Migration` — any number of migrators, each with a connection, in the order in
  which sqlx_core's `Migrator` (external) calls the methods of `migrate.rs`. A
  script is `Parts` statements that cannot run twice. `work` is the uncommitted
  content of the transaction that holds the write lock, `doomed` the queued
  rollback of a dropped `Transaction`; `met` records that two runs overlapped.
- `DatabaseFiles` — tasks that create, open and drop a file database. A file
  belongs to a *life*, which begins when the engine creates the main file; each
  removal is a step, and any call may break off. `met`, `left` and `dropped` record
  the overlaps the code does not exclude.
- `FetchStream` — the statement cache (least recently used first) and the
  stream of one query. An item of the stream is one action; rows are counted.
- `Driver` — tasks that connect. `Connect`/`ConnectRefused` stand for the checks
  before the first await; `Reuse`, `StartBuild`, `Build` for `memory_database` on
  the two sides of `lock().await` and of the build; `Open` for a build that finds the
  file, which is one for all (`DropDatabase` removes it); `ApplyPragma` for each
  `pragma_update`. `EndAttempt` is what an error or a dropped future leaves behind.
  A database is a number; `slot` is `TursoMemoryState::database`, `waiting` the
  FIFO queue of tokio's mutex (external).
- `Options` — options as records, one operator per builder method, `ApplyParam` for
  one round of the loop in `apply_query_params` and `Rounds` for the loop, `BuildUrl` for `build_url`.
  Strings are members of small sets: a file name is empty, relative, absolute, or has a
  space, dots, `?` or `#`, which `Url::parse` (external) refuses (`HasUrl`) or changes
  (`Changed`, `Written`, `Around`); a timeout is a number of milliseconds, a fraction of
  one or more than u64 holds. Three of the sixteen default PRAGMAs stand for all. `Meaning` is the reference
  definition: what a URL says, without going through it from left to right.
  `mode=rw` says nothing there, as in the code (`options.rs:606`).
- `Values` — pure: what every Rust type encodes to, accepts and decodes, the
  substrings by which a declared type is recognised, and the conversions between
  texts, numbers, Julian days and instants. A cell is a storage class with data; texts
  and blobs have a *form*, the one in which a type prints or parses them. `Printed` is
  chrono's offset, rounded to minutes (`value.rs:639`); time refuses one with seconds
  (`CanEncode`). `Since1970` is the difference and the product of `value.rs:832`, each
  rounded to the step f64 has there (`DayStep`, `SecondStep`, constants: one step holds
  from a power of two to the next).
- `ValueFlow` — the buffer of arguments with encoders that fail, a value stored in a
  column under the engine's affinity (external), what other programs stored, and
  the reads: typed, through Any, and as the type a macro infers.
- `SqlText`, `Identifiers` — pure: `inspect_sql` as the rounds of its loop over a sequence
  of characters (`Inspect`), beside a reference that gives every character the mode the
  engine's tokenizer is in (`Modes`, `Several`) and reads names as it does, with `$`, `#`
  and letters beyond ASCII (`Named`, `Nameless`); the parser and printer of
  names. `Texts` lets texts grow.
- `MacroPaths` — the tokens of an expansion and their rewriting.
- `PrepareWorkspace` — processes that run `sqlx-turso prepare` on one directory. One
  action per call to the file system; a directory is fresh, partly written, or what a
  successful check left: whole, some of the metadata, or bare (cargo compiled only some
  of the crates anew, or none). `Crash` may leave a directory half removed.
  `Pids` gives the processes ids of their own (`OwnPids`) or the same one.
- `MCConnection`, `MCPool`, `MCMigration`, `MCDatabaseFiles`, `MCFetchStream`, `MCDriver`,
  `MCPrepareWorkspace` give the constants values. A behaviour of `MCData` is one of
  `ValueFlow` or one of `Texts`, and one of `MCDriver` is one of `Driver` or one of `Options`:
  each pair shares a run and no variable.
- `ConnectionProofs`, `PoolProofs`, `MigrationProofs`, `DatabaseFilesProofs`, `FetchStreamProofs`,
  `DriverProofs`, `PrepareWorkspaceProofs`, `DataProofs` hold the theorems.

Where the code tests one condition after another and several may hold, the model has a
chain of IFs; a CASE has arms of which only one can hold, since TLA+ does not order them.

Operators that a comment calls *faulty* are not used by any specification: each
is a plausible bug with which one property must fail (`PROJECT.json`, `mutants`).
`TypeOK`, `LockHasOwner` (`Migration`), `LockHasReason` (`Pool`), `MissingIsClean` and
`HalfDroppedIsHidden` (`DatabaseFiles`) are in no cfg; where a proof module says so they are
theorems.

## Runs

| run | shows | bounds |
|---|---|---|
| `conn_refine` | scopes, savepoint stack and engine stay in step; `Connection` implements `NestedTransactions` | 3 values, 3 scopes, 4 savepoints; faults busy, conflict |
| `conn_usage` | order of the queue, no scope without a handle, inert after a failed rollback, outermost cleanup never fails the connection, every call returns | 2 values, 3 scopes, 3 savepoints; faults conflict, abort, raw, cancel |
| `conn_cancel` | **violated**: a dropped transaction is rolled back on the next use | 1 scope, fault cancel |
| `conn_reject` | **violated**: what is written through a handle waits for a commit | 2 values, 2 scopes, no faults |
| `pool` | only one's own work is seen, the fate of a write is kept, statements are prepared against committed content, the lock comes back | 2 connections, 2 clients, 1 transaction each; rollbacks may fail |
| `migr` | script and row together, a dirty row leaves nothing, versions in order, every run ends | 2 migrators, 2 versions (one without transaction), 2 statements each, 4 runs, all faults |
| `database_files` | no sidecar of another life, a drop leaves nothing, no file unasked | 3 tasks, 3 lives |
| `fetch_stream` | cache and look-ahead | 3 queries, capacity 2, 3 rows |
| `connect` | clones share one database, others do not, every connect returns; identity of in-memory databases, URLs read as meant and read back as written | 3 tasks, 2 memory states, 3 databases, 6 kinds of options; 2 variables, 2 calls, 7 names, 3 parameters from 26 |
| `data` | values, arguments, inferred types, texts and names | integers of 2 to 5 bits and 6 numbers at their edges, 4 offsets, one with seconds, minutes of 2 seconds of 2 nanoseconds of 2 ticks, f64 steps of 2 and 5 ticks, days of 3 seconds, dates from -9 to 9, 2 arguments, texts of 5 units, names of 6 characters |
| `prep` | no partial metadata in place, complete metadata never lost, in place when all is over | 2 processes with own or equal ids, 3 runs, 2 kills, 1 I/O error |
| `query_types` | **violated**: every path of an expansion names something of the facade | 3 pieces |

Why the bounds are enough. Three scopes are the least at which a savepoint lies
strictly inside another, and four savepoints the least at which a dead savepoint
of the same name lies under a live one while a third scope is open. Three
contents tell apart what was there before the transaction, before the inner
scope, and now. With two pooled connections one can hold the lock, idle or not, while
the other wants it, and a client can get the connection the other one left behind;
transactions are not nested there, `Connection` has the nested ones, and every
client's later transactions are like its first; the invariants of this run are proved
for any number of either. A version with and one without a transaction, with two
statements each, show a script half done in both modes; four runs let two that
overlap, one of them crashed or failed, be followed by two others. Three
tasks can drop a database, open it meanwhile, and create its successor; three lives
are the least at which the files of two earlier ones can meet. A capacity of 2 with
three queries is the least that evicts something other than the only entry.
Three tasks show one that holds the mutex, one that waits and one
that gives up in between; six kinds of options show both memory states, a private
cache, sync, a refusal and a file. Three URL parameters are the least that put
one setting before and one after the parameter that resets it. Widths of different
sizes, ticks finer than a nanosecond and f64 steps coarser than one give every
conversion its edges, a carry into the seconds and days before 1970 included (at today's
dates one REAL and the next are 40 microseconds apart, the difference to the epoch is
exact and the product is rounded by up to 119 nanoseconds, so that a carry happens near
1970 only; the theorem is for all steps); a unit of a text is a token or a
character of the scanner, and five of them hold a literal or comment with a
statement on each side. Three runs of two processes let two runs overlap while
a third starts on what they leave. `MaxDepth`, `MaxSavepoints`, `MaxTx`, `MaxRuns`,
`MaxRows`, `MaxLives`, `MaxDatabases`, `MaxCalls`, `MaxParams` (and that a URL is
written before any other call), `MaxUnits`, `MaxChars`, `MaxArgs`, `MaxPieces`,
`MaxAttempt`, `MaxErrors` and `MaxKills` are the only bounds.

`Permutations` is a symmetry of the values of `Connection` and of the tasks of
`DatabaseFiles`; it is used in safety runs only (`conn_refine`, `database_files`).
`CHECK_DEADLOCK FALSE` appears in the migration, connect, data, macro and prepare
runs, where nothing is left to do after the last run, call or unit; that tasks which
connect do not block one another is `ConnectsReturn`.

Fairness. `Connection` assumes only that a call in flight is polled until it
completes (`WF_vars(Progress)`); the application owes nothing, and cancellation
is never forced. `Migration` assumes that a migrator that is not dead goes on
(`WF_vars(Step(m))`); a crash is never required. `Driver` assumes that a connect in
flight is polled (`WF_vars(Step(t))`); that tokio's mutex is fair is not assumed but
modelled, by its queue. `LockComesBack` depends on the application, and `Pool` says how
far: calls are polled (`WF` of `Step`), somebody comes back for a connection, the pool
serves who waits (its queues are FIFO, by construction), nobody keeps a handle or a
connection for ever (`SF` of `Leave`), and a connection that is acquired again and
again is queried at times, not only pinged or prepared on (`SF`). Without the
last the lock need not come back: the code has no other place where it would.

### The disagreements found

`clear_pending_rollback` pops a depth from the queue (`connection.rs:106`) and
then awaits the `ROLLBACK` (`connection.rs:108`). If the application drops that
future at the await, the depth is gone and the engine may still be inside the
transaction. The test `dropped_transaction_rolls_back_on_next_use`
(`transaction.rs:229`) states the opposite. `conn_cancel` gives the trace: begin,
write, drop the handle, start a query, drop its future. It depends on the
engine's `execute` yielding at least once, which its signature allows.
Without cancellation the property is part of what `conn_refine` shows.

A nested begin that fails undoes the scope around it. sqlx_core makes the inner
`Transaction`, open, before it awaits `begin()`; when that returns an error, as for any
custom statement inside a scope (`transaction.rs:25`), the drop calls `start_rollback`
(`transaction.rs:72`), which queues the depth it finds: the outer one. The next use of the
outer handle sends `ROLLBACK` and then runs on its own, and its `commit()` or `rollback()`
answers `Ok` at depth 0. The test `rejects_custom_begin_inside_nested_transaction`
(`transaction.rs:210`) does the first half of this and takes that `Ok` for a rollback.
`conn_reject` gives the trace: begin, a rejected begin, a write that is published at once.
`NestedTransactions` describes the same behaviour as what a user gets, so that
`ImplementsNested` holds with it: what remains unobservable is the laziness.

`rewrite_sqlx_paths` replaces `::sqlx_turso` and `::sqlx` wherever they stand in a
path (`sqlx-turso-macros/src/lib.rs:145`), so the type path of a date or time column
(`macros.rs:172`) is rewritten twice and names a module a user cannot reach.
After the colon of a record's field, which the loop pairs with the first colon of the
path, the first name is not replaced at all (`WriteField`). `query_types` shows it; the repository's `README.md:104` lists checked query output typing as
supported, and no test has a macro query with such a column.

Worth knowing, though not runs of their own:

- Pool: a connection whose rollback failed answers ping and keeps the write lock
  until it expires; `prepare` and `describe` on a connection with a queued rollback show
  the uncommitted schema of the dropped transaction, and a cached statement keeps its
  columns. `LockComesBack` and `PreparedIsCommitted` state these as their exceptions.
- Migrations: the loser of a race replaces the winner's success row by a dirty one
  (`migrate.rs:170`, `273`), which is why `DirtyLeavesNothing` and `InOrder` except runs
  that overlap. A migration whose `COMMIT` fails is not recorded as dirty, because
  `migrate.rs:163` returns first (nothing of it is in force then).
- Files: `validate_file_target` looks for the file (`driver.rs:120`) before
  `build_database` opens it (`driver.rs:114`), and the engine creates what it does not
  find; `NoFileUnlessAsked` names this as the only case. A `drop_database` that fails
  half way leaves sidecars of a database that `database_exists` calls missing.
- URLs: `build_url` turns the first segment of an absolute path into the host
  (`options.rs:727`) and keeps it in the path (`options.rs:731`): `/tmp/data.db`
  becomes `turso://tmp/tmp/data.db`. A name that is no host makes `build_url` panic against
  its own "generated Turso URL must parse" (`options.rs:728`): `:memory:`, so
  `to_url_lossy()` of the default options, and a relative file with a space in the first
  segment. In a relative name dots are resolved and `?` and `#`
  end the path (`options.rs:727`). A timeout is written in whole milliseconds
  (`options.rs:771`), also one that is too long to be read (`options.rs:675`). `UrlRoundTrip`
  excepts these (`HasUrl`, `Changed`, `WholeMillis`, `Sayable`). `get_mvcc` (`options.rs:309`) finds only a PRAGMA spelled in lower
  case. `sync_remote_url` in a URL discards the sync parameters before it, an auth
  token included (`options.rs:663`); `Meaning` states it, since nothing promises
  otherwise.
- Texts: a text that begins with two empty statements (`;;SELECT 1`) is run as a batch
  and loses its rows, and the body of a `CREATE TRIGGER` makes its text a batch. A query
  with arguments that names an identifier such as `x$x` is refused, and `#x` and `:$1` are
  taken for no placeholder, since the scan reads names otherwise than the engine
  (`executor.rs:297-335`); `SqlReadAsTheEngine` excepts exactly these (`Unread`).
- Values: a `DateTime` whose offset has seconds (local mean time) is printed with the
  offset in minutes and reads back, without an error, as an instant up to half a minute
  away (`value.rs:639`); `RoundTrip` and `NeverSilentlyChanged` except exactly this
  (`ReadBack`). `Vec<u8>` is compatible with TEXT columns but refuses a text (`value.rs:165`,
  `445`). A column declared `INTEGER` is inferred as `i32`, `integer` and `BIGINT` as
  `i64`; `BOOL`, `TIME` and `NUMERIC` have no type in a macro; with a preferred date
  and time crate that is not compiled in, every column that is no date fails too
  (`macros.rs:142`). `Uuid` is never inferred, as `Vec<u8>` accepts first. Any maps
  `NUMERIC` and `DATETIME` to text.
- CLI: a killed `prepare` can leave the metadata in a hidden backup that no later run
  restores (`main.rs:192`); `MetadataSurvives` says that it is still there. Two
  processes with the same id choose the same backup name (`main.rs:177`, `187`), and
  one removes as stale what the other set aside: this is why the properties
  except them (`OwnPids`). A `cargo check` that compiles nothing anew writes no metadata, one
  that compiles some crates writes theirs, and `commit` (`main.rs:92`) then replaces whole
  metadata by an empty directory or by a part of it. What a successful check left counts
  as complete here, whatever it is: no property says more, since neither code nor
  documents do.

## Proofs

`ConnectionProofs` is checked by TLAPS for every set of values, every bound and
every set of faults allowed by `ConnectionAssumption`:

- `TypeCorrect`: `Spec => []TypeOK`. The inductive invariant is `TypeOK` together
  with the fact that the engine's stack stays typed under every statement
  (`RunType`, resting on `InnermostPosition`: `Innermost` picks a position of the
  stack whenever `HasSavepoint` holds).
- `RollbacksInsideOut`: `Spec => []PendingCountsDown`. Inductive with `TypeOK`:
  `mark_rollback_needed` appends exactly the depth the queue has to continue
  with (`MarkCountsDown`), a pop keeps the rest (`DrainedCountsDown`), and begin,
  commit and rollback change the depth only when the queue is empty.
- `ScopesOwned`: `Spec => []ScopesHaveHandles`. Inductive with `TypeOK`: a handle goes
  only with its scope or when no scope is left. The two numbers are not equal: a failed
  begin of a nested scope queues the *enclosing* scope's rollback and leaves its handle.

`StateSteps` classifies every step by what it does to `TransactionState`, so that
the invariants need not look at each action. What the methods of `TransactionState`
do to each field is stated once, at the beginning (`...Fields`).

The second part of the module relates `TransactionState` to the engine:

- `OpenHandlesAreTransactional`, `TransactionsHaveOwners` and `SavepointsNested`
  are one induction. None of the three is inductive alone, and their conjunction
  is not either: the invariant is `ScopeInv`, which says that unless the
  connection is marked failed the engine carries as many scopes as there are open
  handles and queued rollbacks (`InStep`, `Scoped`), with one exception, a queued
  rollback of an outermost scope that a conflict already ended. The lemmas about
  the stack say what each statement does to the innermost savepoints of the live
  scopes: `PushNested` for `SAVEPOINT`, `CutNested` (from `PrefixInnermost`) for
  `ROLLBACK TO` and `RELEASE`; `BeginInStep`, `EndInStep`, `PendingEndsInnermost`
  and `ConflictInStep` apply them to the calls. The queue's order
  (`PendingCountsDown`) is needed to know that a drained rollback is the innermost
  scope's. The assumption `AdapterInControl` limits the faults to busy and
  conflict. It is needed: raw `BEGIN`/`COMMIT`, an engine that aborts on a failing
  query, and the cancellation finding each break one of the three properties.
- `FailedConnectionInert` and `OutermostCleanupSafe` are action properties from
  the type invariant; the first holds under every fault, the second unless the
  engine may refuse a `ROLLBACK` it could run (`"busy"`).
- `LazyRollbackUnobservable` is the refinement: under `AdapterInControl`,
  `Spec => ImplementsNested`. The state it needs is the
  conjunction of the invariants above (`RefinementInv`). The scopes of the abstract
  specification are what the savepoints of the open handles remember (`ScopesOf`), its
  content is what will be there when the queue is drained (`DataOf`); so a drop that
  only queues a depth undoes the scope (`MarkUndoes`), the `ROLLBACK` sent later
  changes nothing that is seen (`PendingRefines`), and each call is one abstract step
  (`BeginRefines`, `EndRefines`, `QueryRefines`, `ConflictRefines`). The hypothesis
  is needed: cancellation loses a rollback. A failed begin needs none, since the abstract
  `Fail` undoes the scope around it as well.

`PoolProofs` shows `OnlyOwnWork`, `FateKept`, `PreparedIsCommitted` and `LockHasReason` for
any number of clients, connections and transactions. None of the four is inductive.
The invariant `PoolInv` says where every connection is (`Places`: one client, one place
in the pool, or closed), which of four modes it is in (`Modes`: `Clean`, `Opened` by its
client's handle, `Dropped` with one rollback queued, `Broken`), and which writes there
are (`Contents`: those of the history are the committed ones, an undecided write is
neither kept nor lost, and a transaction with the lock has the history and its own
write after it, so that a commit appends to what others committed meanwhile). A call
moves nobody but its client and its client's connection (`Served`), so that each lemma
`...Keeps` has to show only the new mode of that connection (`ModesKeep`) and what is
decided about that client's write (`ContentsKeep`).

`MigrationProofs` shows, for any number of migrators, versions, statements and runs,
`ScriptAndRowTogether`, `LockHasOwner`, and, as long as no two runs overlapped,
`DirtyLeavesNothing` and `InOrder`. The first two rest on `WriteInv`: a run that has
begun to write in a transaction holds the lock (`Locked`), and its transaction differs
from the committed content in its own version only, as far as its script has come
(`Wrote`). The other two also need `ApartInv`: unless runs met, a run that is on its way is alone, knows
the rows of the table as they are (`Knows`) and works at the edge of what is applied
(`AtTheEdge`), so the next row it writes leaves no gap.

`DatabaseFilesProofs` shows for any number of tasks and lives that `OneLife`,
`MissingIsClean`, `HalfDroppedIsHidden`, `DroppedIsGone` and `NoFileUnlessAsked` hold. The
invariant `FilesInv` adds to the first three that the files a drop has gone past are gone
or belong to a database opened while a drop ran (`Reached`), and that a connect that must
not create the file has seen it and lost it only to a drop (`SawTheFile`); that
`KnownFiles` begins with the main file is what hides a half-dropped database.

`FetchStreamProofs` shows `CacheBounded`, `ResultIsFinal`, `LastRowFinishesStatement` and
`ErrorLosesOneRow` for any queries, capacity and number of rows: the first because a touched
statement moves to the end of a sequence that stays without repetition (`TouchKeeps`), the
others from an invariant (`StreamInv`) that says that the engine is ahead of the consumer by exactly the row read ahead (`Behind`) and that everything
was delivered when the rows are over (`Complete`).

`DriverProofs` shows for any number of tasks, options, pragmas and databases that
connections share a database exactly if they should: `ClonesShare` and
`OthersApart`. The two properties are about connections only; the invariant
`DriverInv` adds what holds while one is being opened: who builds a shared
database holds the mutex of an empty slot (`OneBuilder`), a shared connection
has the database of the slot, one to a file a file's, and any other one that nobody else has
(`SlotOrOwn`), and no two slots hold the same (`SlotsApart`). There is one lemma per
kind of step; errors, dropped futures and closed connections are all
`EndAttemptKeeps`.

The same module has the options the driver is called with, since `Driver` knows them by their
memory state and an application by the name of the database: `NamesStandForDatabases` shows that
the two agree (`NameIsDatabase`) after any builder calls on any clones and for URLs of any
length. The invariant is that the name of in-memory options is the number of their state
(`NameIsState`); every builder method keeps it, and so does every round of the loop over a
URL's parameters (`ParamReads`). That the loop does is an induction over its rounds by the
least number for which something fails (`LeastNatural`), which needs no induction rule with
an operator for a parameter: once for the recursive function to satisfy its equation
(`RoundsAre`), once for the invariant (`ParseReads`).

Two more theorems are about what a URL says. `UrlsReadAsMeant` shows `UrlReadAsMeant` for URLs
with any number of parameters: the loop of `apply_query_params` gives the settings that
`Meaning` defines without a loop. The invariant of the rounds (`Agreed`) relates the loop's
state to the meaning of the parameters read so far, that is, of a prefix of the list; each
kind of parameter has to show that one more at the end of the prefix changes both
alike. What follows the loop (the checks on sync and encryption) then sees equal settings.
`UrlsRoundTrip` shows `UrlRoundTrip` for options that any builder calls have made. Its
invariant (`SettingsInv`) says which settings options can have together; from it, the list that
`build_url` writes has each key at most once, and the remote URL before the other sync
parameters, so that `Meaning` of it, and by the first theorem the loop over it, is the
settings again, but for the fraction of a millisecond (`WholeMillis`). It assumes what a
URL can carry: a name that `Url::parse` keeps and sync options that are `Sayable`.

`PrepareWorkspaceProofs` shows the three properties of the CLI for any number of processes, runs,
failures and kills. `FinalNeverPartial` is inductive only with the rest of `IInv`, which says
who may work with which name: a process owns the staging directory and the backup it
chose (`Owned`), since `unique_sibling` returns the first name that stands for nothing
(it exists by the least-number principle, `LeastNatural`), and no two stage in the same
place (`StagingsApart`). Nothing set aside is half removed unless something failed
(`BackupsWhole`), who removes the old metadata leaves other metadata (`Replaced`), and
metadata that was published is in place or a process is about to put it there
(`Returns`). `InPlaceWhenIdle` is about one failed call: with two, the rename that restores
can fail after the one that installs. The proof also gave the case of equal ids, where
one failure is already too many. `MetadataSurvives` is an action property, from `IInv`.

`DataProofs` shows what the `data` run checks of values, for all integer widths that at
least double, all lengths of a second, a day and a tick, all numbers, offsets and dates,
any subset of the optional crates and any number of arguments (`ValuesAssumption`). The
invariant `FlowInv` only keeps track of origins: the arguments are the cells of what was
bound, the column holds what the engine's affinity made of the cell of its source. What
is hard is pure: that decoding undoes encoding and affinity. `Reads` says it of one type,
value and column, and is proved for a group of types at a time (`IntegerReads`, `BoolReads`,
`FloatReads`, `SameReads`, `FormedReads`) from what a type encodes to (`Encoded...`), what a column
stores (`Stored...`) and what a cell decodes to (`Decode...`). An error is allowed unless the column
suits the type (`OwnColumn`, `InferredSuits`), and an instant whose printed offset lost its seconds may be
half a minute away (`PrintedIs`). `NothingMisread` rests on `SinceIsNear`, which adds up the
two roundings of f64 (`NearestIs`), and on `JulianNearest`: splitting into seconds and the
rest, rounding and carrying the remainder (`DivMod`) is the nanosecond nearest to that.

The same module shows what `data` checks of texts, for texts of any length in any
characters; the only invariants needed are that names are written in the characters of
names (`TextInv`) and SQL in those of SQL (`SqlInv`). All inductions are by the least or the
greatest number for which something fails (`LeastNatural`, `GreatestNatural`), and the equations
of the recursive functions are proved from the same principle: a function that is
stepped through has a next value (`Iterates`), and one that goes on only at a greater
place ends (`Jumps`).

`NamesStayQuoted` shows `NameStaysQuoted`. Reading a quoted name is a loop whose invariant
(`RoundInv`) says which quotes of the text were read as doubled, so that a quoted name ends at its
first unpaired quote (`QuotedEnds`, `PrefixEnds`) and a name that stands before a dot or
the end is found (`PrefixFinds`). Writing doubles the quotes of a name, and reading what was
written gives the name back, a character of the name at a time (`ShownIsRead`).

`SqlIsReadAsTheEngine` shows `SqlReadAsTheEngine`. For each kind of token one lemma says that
the scan leaves it where the engine is in code again, and which modes the engine was in
meanwhile (`QuotedSkipped`, `LineSkipped`, `BlockSkipped`, `LiteralEnds`, `NamesAreCode`); a literal
with doubled quotes is several literals for the engine. So inside a token no statement
ends and no placeholder begins (`TokenIs`), the look for a further statement finds one
exactly if a word comes (`RemainingIs`), and the loop keeps (`Sound`, `InspectStays`) that
`saw_statement` says whether a word or an end came, that a placeholder was noted
exactly if one came that the code refuses, and that no end so far had something before it and a
word after it. What came before may be only an end: the two empty statements that
`EmptyFirst` allows for (`SplitIs`). Where every name is plain (`~Unread`), the engine's
variables are the scan's (`MarksAgree`, `NamesAgree`): a `$` begins one, and a name ends for
both at the same character.

Every property proved was first checked by TLC on the small instances.

What stays with TLC: liveness (`CallsReturn`, `RunsEnd`, `ConnectsReturn`, `LockComesBack`), which
is out of the proof system's reach. Every invariant and every other action property that a passing
run checks has a theorem. That the models of `inspect_sql`, of the names and of the
values agree with the code, and the references with the engine, is read, not proved.

## Not modelled

- MVCC and `BEGIN CONCURRENT` (a conflict appears as the fault `conflict`); the content
  of a database beyond one value or a sequence of writes; a failing drain during a
  migration (the poisoned connection then refuses everything, which is
  `Connection`'s and `Pool`'s subject).
- Sync with a remote, encryption and custom IO, which are turso's (which settings a
  second clone's connect finds in a database built by the first is left out);
  logging; busy timeout and cache capacity as options (no other option depends on
  them); percent encoding of URLs.
- Rounding of `f64` other than of Julian days, a step that changes from one REAL to the
  next, NaN, and the characters of date, time,
  UUID and JSON texts: a text has the form in which some type prints it.
- `error.rs`: a table from error variants and substrings of messages to kinds (a
  message of the engine that is worded differently gets another kind).
- Access to columns by index and name, `fmt_value_debug`, arguments of the CLI, trait
  glue and the facade crate: lookups, printing and forwarding.

## Left

A pool whose transactions are nested, by composing `Connection` with `Pool`.
