# TLA+ models of the InfluxDB 3 catalog, HTTP API, command line, compactor and persister

This directory holds TLA+ specifications of the parts of this repository
that keep state and run concurrently, the TLC configurations that check
them, and `PROJECT.json`, which records for every definition the source
lines it models, for every run what it checks, for every property a
mutation of the model that breaks it, and the findings and hazards.

All paths below are relative to `src/`.

## 1. The system

| Part | Source | What it is |
|---|---|---|
| `Repository<I, R>` | `influxdb3_catalog/src/catalog.rs` 931–1067 | An ordered map from identifier to resource, a bidirectional map between identifiers and names, and the next identifier to hand out. Every level of the catalog (databases, tables, nodes, tokens, triggers) is one. |
| `InnerCatalog` | `catalog.rs` 1083–1401, 1476–1583, 1777–2065, 2554–2616 | The catalog in memory: sequence number, nodes, databases with their tables and triggers, tokens with a hash look-up, generation durations. `apply_catalog_batch` applies one logged batch. |
| `TableDefinition` | `catalog.rs` 2069–2542 | A table: its columns, the series key (the tags in order of arrival), the sort key (series key, then time), its last and distinct caches. |
| `Catalog` write path | `catalog.rs` 121–128, 233–268, 355–449, 555–737, 777–796 | Tasks compose a batch against the sequence number they saw, take the process-wide write permit, have the batch verified and numbered, write it to the log in the object store, apply it to memory. Checkpoints every N batches are written in the background. A restart loads checkpoint and log. |
| Catalog reads | `catalog.rs` 490–506, 741–757, 884–925, 1667–1678 | Deletion status of a database or table, retention cut-off per table. |
| Compactor | `influxdb3_write/src/compaction.rs` | A background service: on every tick it looks for files of a table and generation that can be compacted into the next generation, runs up to four jobs at a time in a `JoinSet`, each reading, sorting, re-chunking and validating the data and deleting its inputs. Stops on shutdown. |
| Persister | `influxdb3_write/src/persister.rs` | Writes snapshot files and parquet files to the object store; loads the newest snapshots by paging through the listing. |
| HTTP API | `influxdb3_server/src/http.rs` | `route_request`: the preflight answer, the endpoints a server without authentication disables, authentication of every request but the creation of the operator token, one handler per method and path; the handlers validate names and parameters and call the catalog, the write buffer, the query executor or the processing engine; `record_batch_stream_to_body` makes the body of a query answer from the executor's stream; every error has a status code. |
| Command line | `influxdb3/src/commands/create/token.rs`, `delete.rs` | `create token` and `delete`: arguments, a typed confirmation, one call of the client library per command. |
| Tests | `influxdb3/tests/server/system_tables.rs` | Integration tests, read as evidence of intent. |

How the parts interact: a command sends one request; `route_request`
authenticates it against the tokens of the catalog and hands it to its
handler; HTTP handlers and background tasks call the
catalog's update methods concurrently; every update goes through the
write permit and the log; the compactor reads the catalog (tables,
deletion flags, sort keys) and the write buffer's file listing and deletes
objects the listing still names; the persister writes the files and
snapshots that the write buffer lists and that a restart loads.

What makes it hard: the optimistic retry loop of the catalog (two tasks
composing against the same sequence number), state changed while composing
(identifiers are taken from the shared catalog before the batch is logged),
a log write whose outcome is unknown, background checkpoints in any order,
a crash between log and memory, names rewritten on soft deletion, the
look-up of a created token after the permit is released, column
identifiers taken by two writes at once, a sort key rebuilt only when a
flag says so, compaction jobs
running on a listing taken before they started, paging over a listing that
changes, integer casts at the edge of their range, a request authenticated
and validated against a catalog that has changed by the time it is
applied, the one endpoint that is open without a token, a token whose
plaintext exists only in a response, a query answer written batch by
batch by a body that must remember how far it got.

## 2. Modules

| Module | Models | State | Actions / operators |
|---|---|---|---|
| `Repository` | `Repository<I, R>` | a record `repo`, `id_name_map`, `next_id` | Operators `Insert`, `Update`, `Remove`, `BumpNextId`, the look-ups. `BiInsert` evicts the pairs that share the left or the right value, as `BiHashMap::insert` does; `IdExistsPanics` is the `assert_eq!` of `id_exists`. |
| `TableDefinition` | `TableDefinition`, `ColumnDefinition`, the `TableUpdate` implementations | a record value | `NewTableDefinition`, `new_from_op`, `new_empty`, `make_sort_key`, `add_fields`, `add_columns` (its loop is `AddColumn`, the rest `Rebuilt`), `add_column`, `column_exists`, `CreateCache`, `DeleteCache`, `update_table`. |
| `InnerCatalog` | `InnerCatalog`, `DatabaseSchema`, `TokenRepository`, `GenerationConfig`, the `update_schema` implementations of every `DatabaseCatalogOp`, the trigger ops among them | a record value | `apply_catalog_batch` and the five `apply_*_batch` functions as operators from a catalog and a batch to `Ok`, `Err` or `Panic`; the `Cow` of `new_if_updated_from_batch` as `Borrowed`/`Owned`; the read operators `database_deletion_status`, `table_deletion_status`, `get_retention_period_cutoff_map`, and what the catalog lists (`db_names`, `list_db_schema`, `active_triggers`, `get_tokens`, `list_last_caches`, `list_distinct_caches`, `table_names`, `if_not_deleted`); `create_new_empty_table`. |
| `Catalog` | the write path, log and checkpoints, crash and restart | `inner`, `permit`, `store`, `pending`, `task`, `clock`, `entropy` | One action per step of a request: `Submit`, `ReadSequence`, `ComposeStep`, `get_permit_and_verify_catalog_batch`, `Persist`, `PersistFails`, `PersistConflict`, `Apply`, `ReturnToken`; `WriteCheckpoint`, `CrashAndRestart`, `Tick`. |
| `CatalogLog` | what the catalog promises: a state machine that follows an append-only log | `log`, `applied`, `state` | `AppendBatch` (by a writer that has seen the whole log), `Advance` (the state takes in the next batches, in order). Constants `Initial` and `Step`. |
| `MCCatalog` | — | — | Request sets and symmetry for TLC; the start of the schema run. |
| `HttpApi` | `http.rs` as functions of a request | — | `validate_db_name` (`Scan` is one turn of its loop), `validate_auth_header`, `token_part_as_bytes`, `extract_v1_auth_token`, `read_body`, `read_body_json`, the handlers (each yields `Err(error)` or a plan: the catalog request, or the component that answers, and the status of success), among them `query_sql`, `query_influxql` and `query_influxql_inner`, `ErrorStatus` and `CatalogErrorStatus`, `Routes`, `Matched`, `Handled`, `AnsweredAtOnce`, `Exempt`. |
| `QueryBody` | `record_batch_stream_to_body` | — | One operator per poll function: `JsonPoll` (with the states of `JsonFuture`), `CsvPoll`, `JsonLinesPoll`, and `PrettyPoll` and `ParquetPoll` for the formats that read the stream first; `Read` polls a body to its end; `QueryStatus` is the status of the answer. |
| `Server` | `route_request` in front of the catalog | the variables of `Catalog`, and `conn`, `started_without_auth`, `handed` | `route_request`, `HandlerAnswers`, `HandlerAsksElsewhere`, `HandlerCallsCatalog`, the steps of `Catalog` with the answer they end in (`ServerCompose`, `ServerPersistFails`, `ServerApply`, `ServerReturnToken`), `ServerCrashAndRestart`. |
| `Cli` | `create token`, `delete` | — | `from_arg_matches`, `handle_token_creation_with_config` and the three handlers, `parse_hard_delete_time`, `command`; `RequestOf` is the request the client library sends for a call. |
| `MCServer` | — | — | The clients of run `http`: the commands they run and the requests they send by themselves. |
| `Compactor` | `CompactionService` | `deleted`, `parquet_files`, `object_store`, `written`, `cycle`, `set`, `shutdown` | `run_compaction_cycle`, `Spawn`, `JoinThenSpawn`, `JoinNext`, `CycleCompletes`, `execute_compaction_job`, `write_and_validate`, `DeleteOldFile`, `DeleteOldFileFails`, `Stop`; the environment: `PersistParquetFile`, `SoftDelete`, `RequestShutdown`. |
| `MCCompactor` | — | — | Table order, generation durations and row sets for TLC. |
| `Persister` | `Persister`, `TrackedMemoryArrowWriter` | `snapshots`, `parquet`, `load`, `returned` | `persist_snapshot`, `persist_parquet_file`, `load_snapshots`, `ListPage`, `Collect`, `LoadFails`; `serialize_to_parquet` with the writer's `try_new`, `write` and close. |
| `MCPersister` | — | — | The streams of batches for TLC. |

### Correspondence with the code

*Data.* Names are sequences of model values: `<<a>>` is a name, `<<a, 0>>`
the name `a` with deletion time 0 appended, which is what
`make_new_name_using_deleted_time` builds (the time is formatted to the
second, so the clock of the model counts seconds). A row is a pair
(series, time). A column name is a model value, a column type is `"Tag"`,
`"Timestamp"` or the name of a field type; `ColumnOrder` is the order of
the names, which is the order in which the `BTreeMap` of
`TableDefinition::new` and `add_columns` gives the columns to the
repository. The Arrow schema built beside the repository is left out. A
cache is an identifier, a name and an opaque definition; the definition of a
trigger names its plugin file and the variant of its
`TriggerSpecificationDefinition`, which is all `trigger_count_by_type`
reads of it.
A token's plaintext and its hash are one fresh number per
request. Parquet bytes are the rows they encode.

*Requests.* A request is a record of method, path (the sequence of its
segments), `Authorization` and `Content-Type` headers, query parameters and
body. A header is what the handler reads from its text: whether it is
visible ASCII, its pieces between spaces, the mime type it parses to. A
database name whose characters are looked at is the sequence of the classes
`validate_db_name` tells apart (`"alnum"`, `"underscore"`, `"hyphen"`,
`"slash"`, `"star"`, `"other"` for another single byte, `"wide"` for a
grapheme of several bytes). `NamespaceName::new`, the second validation
of the name of a write (`http.rs` 603), is code of the crate `data_types`
and not in these sources: the names it takes are the constant operator
`IsNamespaceName` of `HttpApi`, to which run `http` gives the rule of that
crate (`MCIsNamespaceName`: 1 to 64 characters, each a letter, a digit,
`_`, `-` or `/`). A body is its length on the wire against
`max_request_bytes`, its encoding, and the parameters or lines it holds.
The status of an answer is computed (`Respond` requires it to be a status)
and is not kept in the state: no property tells answers apart, and the
connection is free again either way.

*Command line.* The matched arguments are a record of the arguments the
command declares, those given, and the same for the subcommand `--admin`.
A line typed at a prompt is the sequence of its words and blanks, and
`Trim` is `str::trim`. A `--permissions` value is the sequence of its
parts between `:`, the last of them the sequence of actions between `,`.
A `--hard-delete` value is a record of its lowercase form and of the time
it reads as.

*Results.* `Ok(v)`, `Err(e)` and `Panic` stand for `Result` and for the
`expect`s and `assert`s of the code; `?` is the propagation of anything
that is not `Ok`.

*Steps.* An `async` function is cut where it awaits something another task
can interleave with. A catalog update is cut at the read of the sequence
number, the composition, the permit, the log write and the application.
A request of the HTTP API is cut after `route_request` has authenticated it
(the authorizer reads the tokens of the catalog as they are then), after
its handler has read what it reads from the catalog and the clock, and then
at the steps of the catalog update it asks for.
`execute_compaction_job` is cut after `ctx.collect().await`, after
validation, and at every `object_store.delete`. `load_snapshots` is cut at
every `list`.

*Query bodies.* The stream of the query executor is the sequence of what
it answers the polls with: batches, each its number of rows and whether
the writers take it, or a failure; after the last it answers that it has
ended, as often as it is asked. A chunk of a body is the sequence of what
was written: `row`, `[`, `,`, `]`, `header`. The polls of a body read and
write nothing but the body and its stream, so no step of another task can
tell them apart and a body is read in one step (`Read`); whether the
answer has status 200 before the stream is polled is what separates the
formats. A request that names no format is answered in JSON, the format
`QueryFormat::try_from_headers` gives for a request without an `Accept`
header. The query string of an InfluxQL request is the sequence of the
statements it parses to, each the kind of statement it is and the database
it names (`Statement`), or `NONE` if it does not parse; the parser is
another crate.

*Code outside `src/`.* `catalog_update_with_retry` and the request
composers for databases, tables, columns, caches, triggers, nodes and
deletions are in `update.rs`,
the log and checkpoint files in `object_store.rs`, snapshot paths in
`paths.rs`; none of them is in this repository's sources. They are
modelled from the repository's specification, from the calls `catalog.rs`
makes (`get_permit_and_verify_catalog_batch`, `apply_ordered_catalog_batch`,
`db_or_create`) and from its tests, and are marked `spec_modelled` in
`PROJECT.json`. What a logged batch does to the catalog is `catalog.rs`
itself. The same holds for what the HTTP API and the command line use of
other crates: `NamespaceName::new` (`data_types`, the constant
`IsNamespaceName`), the authorizer (`influxdb3_authz`: a token authenticates if
`hash_to_info` finds it), the path constants (`all_paths`), the request
types and their deserialization (`influxdb3_types`, serde), clap's
matching of arguments, and the client library (`influxdb3_client`), whose
methods are taken to send the method, path and parameters that the
handler of the same name reads.

*Integers.* The retention cut-off is computed as
`now - (d.as_nanos() as u64) as i64`. `AsU64`, `AsI64` and `WrappingSub`
model the casts and the release-build subtraction at a width `TimeBits`
(64 in the code, 3 or 8 in the runs, so that the boundary values are small
numbers).

## 3. Runs

Passing runs (TLC finds no error):

| Run | Module, cfg | Checks | Size |
|---|---|---|---|
| `catalog_protocol` | `MCCatalog`, `catalog_protocol.cfg` | `TypeOK`, `RepositoriesAgree`, `IdsAreFresh`, `MemoryIsReplayOfLog`, `ApplyNeverFails`, `LoggedIdentifiersAreNew`, `ImplementsCatalogLog`, `DefaultDeletionKeepsHardDeleteTime` | about 670 000 states, 2 min |
| `catalog_liveness` | `MCCatalog`, `catalog_liveness.cfg` | `ApplyNeverFails`, `EveryRequestReturns` | about 22 000 states, under 1 min |
| `catalog_schema` | `MCCatalog`, `catalog_schema.cfg` | `SortKeyFollowsSeriesKey`, `RepositoriesAgree`, `ApplyNeverFails`, `LoggedColumnsArrive` | about 520 000 states, 1 min |
| `compactor` | `MCCompactor`, `compactor.cfg` | `TypeOK`, `CycleEnds`, `ShutdownStops` | about 13 500 states |
| `compactor_concurrent` | `MCCompactor`, `compactor_concurrent.cfg` | `InputsNotShared`, `ConcurrencyBounded` | about 2 100 000 states, 2 min |
| `persister` | `MCPersister`, `persister.cfg` | `TypeOK`, `LoadReturnsNewest`, `WrittenFilesHaveRows` | about 73 000 states |
| `http` | `MCServer`, `http.cfg` | `OnlyCurrentHashesAuthenticate`, `ApplyNeverFails`, `DatabaseNamesAreValid`, `OperatorTokenHandedOutOnce`, `DatabaseCountWithinLimit`, `BodyIsWellFormed` | about 600 000 states, 4 min |

What they show:

* **RepositoriesAgree** – in every repository of the catalog the resources,
  the names and the identifiers name each other, so `id_exists` never meets
  its assertion. It holds under the assumption `DistinctDeletionSeconds`
  (see the first finding).
* **IdsAreFresh** – `next_id` is past every identifier in use, in memory
  and after any restart, although identifiers are taken while composing and
  the cursor is rebuilt from the inserts of the log.
* **LoggedIdentifiersAreNew** – no two batches of the log create a database,
  or a table of one database, under the same identifier. `IdsAreFresh`
  speaks of the identifiers in use; this one also of those whose resource
  has been hard deleted, which is what "stable identifiers" needs, because
  `Repository::insert` takes a known identifier under a new name without an
  error. It holds because `remove` leaves the cursor where it is and
  `insert` moves it on replay; a `remove` that gave the last identifier
  back would break it and leave `IdsAreFresh` standing.
* **DefaultDeletionKeepsHardDeleteTime** – the step in which the batch of
  a soft deletion with `HardDeletionTime::Default` reaches the catalog,
  applied by its task or loaded by a restart, leaves every hard-delete time
  that is set as it is. The composer refuses such a deletion with
  `AlreadyDeleted`, and `SoftDeleteDatabaseLog::update_schema` overwrites
  the time whenever it is applied; between the two lie the permit and the
  log write. It holds because `get_permit_and_verify_catalog_batch` sends
  a batch back to be composed again when the sequence number has moved.
  The tests of `catalog.rs` check it for one task
  (`test_database_soft_delete_default_preserves_existing_hard_delete_time`);
  the run checks it with a second task that deletes the database between
  composition and application, by its name and by its deleted name.
* **MemoryIsReplayOfLog** – whenever no task holds the permit, the catalog
  in memory is, up to the cursors, what a restart would load from the
  checkpoint and the log.
* **ApplyNeverFails** – a batch that has been logged applies and changes
  the catalog: the `expect`s of `apply_ordered_catalog_batch`, of
  `apply_node_batch` and of the replay are never met. This is what the
  sequence check of `get_permit_and_verify_catalog_batch` is for.
* **ImplementsCatalogLog** – `Catalog` implements `CatalogLog` under the
  refinement mapping below: whatever the tasks, the permit, failed and
  conflicting log writes, checkpoints and restarts do, the log files only
  ever grow by one batch at the end, written by a task that has applied
  everything before it; and the catalog in memory is always the logged
  batches applied in order up to its sequence number. A restart is a
  stuttering step of the abstract log (it loads what was applied) or an
  `Advance` (it loads a batch that was logged by a write that reported
  failure, or by a task that crashed before applying it).
* **OnlyCurrentHashesAuthenticate** – `hash_to_info` finds a token exactly
  for the hashes the tokens carry now; a regenerated or deleted token's old
  hash authenticates nothing. Checked in run `http`, where tokens are
  created, regenerated and deleted through the API by clients that hold
  them.
* **DatabaseNamesAreValid** – every database of the catalog has a name the
  documented rule of `validate_db_name` allows, whichever endpoint created
  it. Run `http` checks it for the v3 endpoints and for v1 writes of
  `db`, `db/rp` and `d b`. The v3 endpoints owe it to `validate_db_name`;
  a v1 write owes it to `validate_db_name` for the place of the `/` and to
  `NamespaceName::new` for the characters (see the observations below).
* **OperatorTokenHandedOutOnce** – at most one token is ever sent to a
  client that presented none. Two anonymous requests for the operator token
  race through the write path; the loser finds the token when it composes
  again and is answered 409. A server started without authentication
  answers the token endpoints 405.
* **DatabaseCountWithinLimit** – the number of databases never exceeds the
  limit, although the limit is compared at composition and the batch is
  logged later: of two creations composed at `limit - 1` the second is
  sent back by the sequence check. The build's limit is `usize::MAX`; the
  run sets it to 1.
* In `http`, **ApplyNeverFails** is about what reaches the log through the
  API: a handler's request is composed against the catalog of a later
  moment than the one it was authenticated and validated against, and
  still no logged batch fails to apply.
* **SortKeyFollowsSeriesKey** – in every table the series key is the tag
  columns, its names are the names of those columns, and the sort key is
  the series key followed by `time` if the table has that column:
  `add_columns` rebuilds the sort key only when its loop has seen a new
  tag or a timestamp, and that is enough whichever columns arrive in
  whichever order (scenario S2 of the specification is one path of the
  run).
* **LoggedColumnsArrive** – when a batch a task has logged is applied (or
  replayed by a restart), the columns its `AddFieldsLog` names are in the
  table under their identifiers. `add_fields` passes over a field whose
  identifier is known and whose type agrees, without comparing names; two
  writes that took the same next identifier would lose a column silently.
  The sequence check prevents it: without it TLC finds the lost column.
* In `catalog_schema`, **ApplyNeverFails** is about the trigger and cache
  ops: `DeleteTriggerLog` of a trigger that was enabled meanwhile,
  `EnableTrigger` of one already enabled, a table update of a batch whose
  columns are all known are errors or no-ops at application, and never
  reach it; **RepositoriesAgree** covers the column, cache and trigger
  repositories through creations, deletions and re-creations.
* **EveryRequestReturns** – every request a task has begun comes to an
  end: every way out of the write path (retry, a failed write, a conflict,
  success) lets go of the permit. The log of the run is bounded by
  `MaxSequence`, so the run does not show that a task which retries is
  served under an endless stream of other updates; the code has nothing
  that would put it before them.
* **InputsNotShared** – no two jobs of a cycle have an input file in
  common, checked in run `compactor_concurrent` where two jobs are in
  flight and each deletes its inputs while the other reads its own.
* **ConcurrencyBounded** – the `JoinSet` never holds more than
  `max_concurrent` tasks: with three jobs taken and a limit of two, the
  loop joins one before it spawns the third.
* **CycleEnds** – a cycle that has started ends, whatever its jobs do.
* **ShutdownStops** – after shutdown is requested the service stops, with
  no task left in the set.
* **LoadReturnsNewest** – `load_snapshots(n)` returns the newest of the
  snapshots that were in the store when it began, newest first, none twice,
  also when snapshots are persisted between its pages.
* **WrittenFilesHaveRows** – no parquet object is put for a stream without
  rows, for one that fails or for one with a batch the writer refuses.
* **BodyIsWellFormed** – whatever the stream behind a query yields, the
  JSON body sent is one array (`[`, the rows with a comma between them,
  `]`), or the beginning of one if the stream broke; the CSV body is the
  header once and the rows; the JSON lines body is the rows. The JSON body
  is written by a new `ArrayWriter` for every batch, and `JsonFuture`
  keeps in its state whether the array has been opened: it stays
  `FirstPoll` over batches without rows, because the writer writes nothing
  for them, and the end of the stream writes `[]` or `]` accordingly.

Runs in which TLC finds the property violated, each a disagreement between
the code and what its comments, tests or documentation say (details in
`PROJECT.json`, `findings`):

| Run | Property | What the trace shows |
|---|---|---|
| `catalog_name_collision` | `RepositoriesAgree` | With `DistinctDeletionSeconds = FALSE`: create `a`, delete it, create `a` again, delete it in the same second. Both get the name `a-<time>`; `Repository::update` evicts the first from the name map. |
| `token_creation_race` | `TokenPresentAfterCreation` | A token is created and applied; another task deletes it; the creator's read-back by name finds nothing and its `expect` fails. |
| `retention_period_wraps` | `RetentionIsThePeriodGiven` | A retention period of `2^TimeBits - 1` gives a cut-off after now. (Width 64 in the code: a period above `2^63 + now` and below `2^64`; from `2^63` to `2^63 + now` a release build wraps twice and the cut-off is the one asked for.) |
| `compactor_listed_files` | `ListedFilesExist` | A job deletes its inputs; the listing still names them and the output was never put. |
| `compactor_time_range` | `RangeCoversRows` | A compacted batch sorted by series then time gets the range (first value, last value), which leaves out one of its rows. |

### The refinement

`CatalogLog` has three variables. `Catalog` implements it with

| `CatalogLog` | `Catalog` |
|---|---|
| `log` | the log files of the object store, by sequence number, up to the last one written |
| `applied` | `inner.sequence` |
| `state` | `inner` without its cursors (`next_id` of every repository and the sequence number itself) |
| `Initial` | `NewInnerCatalog` without its cursors |
| `Step(state, batch, sequence)` | `apply_catalog_batch`, without the cursors |

(`AbstractLog == INSTANCE CatalogLog WITH ...` in `Catalog`; the property
is `AbstractLog!LogSpec`.) The cursors are left out of the state because
the code advances them while composing, before anything is logged; that
they stay ahead of every identifier in use is `IdsAreFresh`. `Persist` and
a `PersistFails` that created the file are `AppendBatch`; `Apply` and a
restart that finds more in the log than memory had are `Advance`; every
other step, checkpoints included, leaves the abstract state unchanged.

### Observations that are not runs

* The retention cut-off map (`get_retention_period_cutoff_map`) has entries
  for soft-deleted tables and for the tables of soft-deleted databases:
  it iterates `list_db_schema` and `db.tables()`, neither of which filters
  on `deleted`.
* `http.rs` checks no permission: a request is authenticated or not, and a
  token with permissions for one database passes every endpoint. What the
  authorizer does with permissions is decided in `influxdb3_authz`.
* An operator token can be lost: its plaintext is in the response of its
  creation and nowhere else. If the process dies between the log write and
  the response, or the log write reports a failure after the file was
  created, the catalog has an operator token that no client was sent; every
  further creation is answered 409. Run `http` reaches that state.
* `delete_database` and `delete_table` compare a `hard_delete_at` with the
  clock of the handler; the catalog stamps the deletion afterwards. A time
  that was ahead in the handler can be behind the deletion time recorded.
* `validate_db_name` with `accept_rp`, which the v1 write passes, compares
  a character after the first with the separator and with nothing else
  (the arm that refuses a character is `(false, _, char)`), so `d b`, `d*`
  or `a;b` pass it, against its doc comment. What refuses such a name is
  `NamespaceName::new` three lines later, if its rule is the one the run
  assumes; its error `InvalidNamespaceName` has no arm in `into_response`
  and is answered 500, where the v3 endpoints answer the same name with
  400, and it is raised after the body has been read.
* `TokenRepository::add_token` puts the hash in `hash_lookup_map` before
  `repo.insert` can fail, and leaves it there when it does (`add_token` of
  `InnerCatalog` returns the error with the tokens as they are then). The
  failure is a panic of `apply_ordered_catalog_batch`; `ApplyNeverFails`
  shows that it is not reached.
* Errors of the client are answered 500 where `ErrorStatus` has no arm for
  them: a body that is not UTF-8, a body over the limit, a gzip body that
  does not inflate, a database named in a permission that does not exist.
* `--permissions` is declared with `value_delimiter = ','`, so its
  documented example `db:test_db:read,write` reaches
  `handle_scoped_token_creation` as two strings, the second of which has
  one part and is refused; the `split(',')` of the actions never sees a
  comma. (`AsDocumented` in `MCServer`.)
* `influxdb3 create token --name x` without `--admin` and without
  `--permissions` takes the third branch of `from_arg_matches`, which
  builds a `CreateAdminTokenConfig` from matches of a command that declares
  no `regenerate`. As clap reports an undeclared argument (a panic in a
  debug build, a missing argument in a release build), the command fails;
  the model takes that from clap's behaviour, not from this repository.

* No writer is bounded by a memory ceiling. `TrackedMemoryArrowWriter`
  resizes a reservation with every batch and fails if the pool refuses,
  but `Persister::new`, the compactor and the parquet body of a query each
  make an `UnboundedMemoryPool` for it, which refuses nothing. The
  repository's specification speaks of a tracked pool that bounds
  concurrent writers by a ceiling the operator sets.
* A query in CSV, JSON or JSON lines is answered 200 before the stream is
  polled: a failure of the stream, or a batch a writer refuses, breaks the
  body off and has no status. In the pretty and parquet formats the same
  failure is the status of the answer.
* The bodies of a stream without a batch differ by format: `[]` in JSON,
  nothing in CSV (no header), nothing in JSON lines, and in parquet an
  empty body with status 200, which is not a parquet file.
* The errors of `query_influxql_inner` have no arm in `IntoResponse`: a
  query of two statements (`InfluxqlSingleStatement`), one that names
  another database than the request (`InfluxqlDatabaseMismatch`), one
  without a database (`InfluxqlNoDatabase`) and one that does not parse are
  all answered 500.
* `db_names` leaves out deleted databases; `list_db_schema` and
  `active_triggers` do not. `SoftDeleteDatabaseLog::update_schema` leaves
  the triggers of the database as they are, so a trigger that is enabled
  when the deletion is logged is listed as active afterwards, under the
  deleted name of its database. Whether the composer of the deletion
  refuses a database with enabled triggers is decided in `update.rs`,
  outside these sources.
* `create_new_empty_table` inserts under a new identifier, and the insert
  of the repository refuses a name only together with a known identifier:
  called with the name of a table that is there, it succeeds and the name
  map gives the name to the new table. Its callers in `update.rs` look the
  name up first.
* `JsonFuture` polls the stream again after the stream has ended (state
  `Done`): a stream that yields a batch after its end meets
  `unreachable!()`. The streams of the model stay ended.

## 4. Bounds

Catalog runs: two writers (the races of the protocol are between two
tasks; a third adds interleavings of the same kinds); one database name
`a`, one table name `t`, one node name `n`, besides the internal database;
`CheckpointInterval = 2` so that checkpoints are written, overtaken and
written late within the bound; `MaxSequence = 4` or `5` batches, enough for
create, delete, re-create, delete again (the name collision needs four)
and for two checkpoints; `MaxId = 3`; `MaxTokens = 2` or `3` plaintexts;
`MaxClock` 0 or 1 ticks besides the second every soft deletion takes when
`DistinctDeletionSeconds` holds. Run `catalog_protocol` deletes the
database by its name with `Default`, and by its deleted name `<<a, 0>>`
with `Never` and with `Default`; a soft deletion is submitted while the clock is
below `MaxClock`, so two of them happen in a behaviour, both composed before
either is applied, which is the race `DefaultDeletionKeepsHardDeleteTime`
is about. `NumDbsLimit = 100` stands for
`usize::MAX`, the limit of this build. The writers are symmetric in the
safety runs; the liveness run does not use symmetry. The schema run has
`MaxTokens = 1`: its one token request is the creation of the operator
token, which is there to take the read-back step of `Catalog` itself.

Run `http`: two connections; `MaxSequence = 3`, that is two batches after
the first, enough for the operator token and one more update, or for two
updates that race from the same sequence on a server without
authentication; `MaxTokens = 2` plaintexts, so that a token is created and
regenerated, or two are created; `NumDbsLimit = 1`, so that the second of
two racing creations is at the limit; `MaxClock = 1`, one tick between a
handler and the composition; `max_request_bytes = 1`; the server starts
with and without authentication and may change mode at a restart; `health`
is the one path left open. The clients run every form of `create token`
(with and without `--admin`, `--regenerate`, `--name`, `--permissions`,
with "yes" and with nothing typed) and `delete token` and `delete
database` with a time; by themselves they create databases `db` and `d b`
through the v3 API, write to `db/rp` and, without a token, to `d b`
through the v1 API with the token in the query string, delete the operator token, send a preflight, and query
in SQL: in JSON with a held token, in the pretty format with a forged one,
and in CSV and parquet with none. In InfluxQL they send `SHOW DATABASES`
without a database, answered in JSON lines, and a `SELECT` that names
another database than the request does. Without a token they also create
the table `t` of `db` and a last cache of the table `t` of `db/rp`, which
succeed on a server without authentication once the database, or the v1
write, is there. The name `d b` is sent without a token only: it is
refused by the handler (by `validate_db_name` on the v3 endpoint, by
`NamespaceName::new` in the v1 write), which a server with authentication
does not reach without a token and reaches with one in the same way. The streams behind the queries
(`MCQueryStreams`) are all those of up to three polls, each a batch of 0,
1 or 2 rows, a batch of one row that the writers refuse, or a failure: 156
streams, among them batches without rows before, between and after those
with rows, which is where the state of the JSON body matters. A token is presented only by a client
that was sent it, or is forged. `NUM_DBS_LIMIT` is `usize::MAX` in this
build, so the limit of 1 is a boundary of the model: the check at
`catalog.rs` 428 is code, the race at the limit is not one this build can
lose.

The schema run starts after the first writes of a server: database `a`
and table `t` with a field `f1` and a tag `tag1`, both created by their
requests (`MCSchemaStart` runs the composers and
`apply_ordered_catalog_batch`), so that its three further batches
(`MaxSequence = 6`) are all about columns, caches and triggers. The writes
bring `time`; `tag2` with the known `f1`; `tag3` with `time`; and `f1`
under another type (refused at composition). Three batches are enough for
two writes racing for a column identifier followed by a third, for a
trigger created, disabled and deleted, and for a cache created, deleted
and created again. Columns are always such that `time` is the one
timestamp: that is what the write path produces.

`DistinctDeletionSeconds = TRUE` is an assumption about the environment: no
two soft deletions produce the same deleted name. The passing runs make it;
`catalog_name_collision` drops it.

Compactor: two tables, one of them with an empty sort key so that jobs
fail; `MaxFiles = 2` files persisted, which with `min_files_for_compaction
= 1` gives up to two jobs per cycle and second cycles over files already
deleted; `MAX_CONCURRENT = 1` (4 in the code) and `max_files_per_run = 2`,
so that the loop has to join before it spawns; generations 1, 2 and 6 in
the paths written, the last to reach the error of `get_file_generation`
that ends the search for every table; two row sets per file, chosen so that
the compacted output is out of time order. No two jobs overlap in this
run. Run `compactor_concurrent` has `MAX_CONCURRENT = 2`, `MaxFiles = 4`
and `max_files_per_run = 3`: four files of generations 1 and 2 in two
tables make up to four jobs, of which the cycle takes three, keeps two in
flight and joins one before it spawns the third; its files are of one kind
(`MCFileRowsOne`, long enough to be compacted alone) and there is one
reading of the clock, because the run is about the jobs and not the rows.
It checks safety only.

Persister: pages of `PAGE = 2` entries (1000 in the code), up to five
snapshots, each written by a put that may fail and then leaves nothing, requests for 0 to 5 of them, so that loads end before, at and
after a page boundary and on a short last page; streams of no batch, an
empty batch, an empty batch followed by rows, rows, rows followed by a
failure of the stream, and rows around a batch of another schema.

## 5. Fairness

`Catalog!FairSpec`: weak fairness on every step of a task other than the
permit, because the tokio runtime polls every ready future; strong
fairness on `get_permit_and_verify_catalog_batch`, because the permit is a
`tokio::sync::Mutex`, which serves its waiters in order: a task that finds
the permit free again and again is served. Nothing obliges a request to
arrive, the clock to tick, a checkpoint to be written or the process to
crash.

`Compactor!FairSpec`: weak fairness on the steps of the cycle and of its
tasks (spawned tokio tasks run); strong fairness on `Stop`, because the
`select!` of the service loop is polled between cycles and the shutdown
token stays set. The compactor runs do not check for deadlock: a stopped
or disabled service has no next step, and that is its intended end.

The persister run and run `http` check safety only. (`http` uses the
symmetry of the connections, which liveness checking does not allow; the
liveness of the write path it runs on is what `catalog_liveness` checks.)

## 6. Not modelled

* The Arrow schema of a table (`schema_builder` in `TableDefinition::new`
  and `add_columns`) and the column and table limits (`usize::MAX`
  in this build).
* The parsing of a trigger specification's text, which is in `update.rs`:
  a request names the variant. The getters that return a field as it is.
* `Catalog::new_with_shutdown` spawns a task that waits for the shutdown
  token and then calls `update_node_state_stopped`; an error is logged and
  nothing else happens. The call is the request `update_node_state_stopped`
  of run `catalog_liveness`, which races it with registrations; the
  shutdown token itself is not a variable of module `Catalog`, because
  nothing else in `catalog.rs` reads it.
* `Catalog::snapshot` and `update_from_snapshot`, which replace the whole
  catalog without the permit: only tests call them. `set_state_shutdown`
  sets a state that nothing in these sources reads.
* Subscriptions to catalog updates and metrics.
* In the HTTP API: the parsing and rewriting of InfluxQL statements
  (another crate), the headers of the answers and the bodies that are no
  query results, the bytes a writer makes of a row, line-protocol parsing
  (a body either holds lines for one table or does not), the plugin
  environment. The query executor and the processing engine answer or fail
  with one of the statuses their errors map to.
* In the command line: printing, output formats, the host URL and the CA
  certificate.
* Parquet encoding, and the reservation of `TrackedMemoryArrowWriter`,
  which no pool of these sources ever refuses; sizes and statistics in the
  compactor. `load_parquet_file` is compiled for tests only.
* The compactor composed with the persister's store. `write_compacted_files`
  serializes the output of a job and returns its size; it puts nothing in
  the object store and records no file, so there is no listing the two
  components share. What the compactor deletes and what stays listed is
  run `compactor_listed_files`.
* A task that removes what `database_deletion_status` and
  `table_deletion_status` report as `Hard`: it is not in these sources. The
  status itself is modelled.
* The iteration order of `SerdeVecMap`, except where the compactor's job
  order depends on the order of tables, which is a constant of the model.
* `influxdb3/tests/server/system_tables.rs` is test code and is read as
  evidence of intent only.

## 7. Plan

Done: the repository; the catalog's batches for databases, tables with
their columns and caches, triggers, deletions, tokens, generations and
nodes; the write path with crash and restart, and its refinement of the
abstract log; retention and deletion status; the HTTP API in front of the
catalog, with the bodies of its query answers; the command line; the
compactor; the persister with its parquet writer; the InfluxQL handlers;
what the catalog lists; table and cache requests in run `http`; the kind
of a trigger's specification and the counts by kind; identifiers over the
whole log and hard-delete times under racing deletions.

Next, in this order:

1. The trigger, retention and deletion endpoints for tables as requests of
   the clients of run `http`. Their handlers are in `HttpApi` and their
   catalog requests are checked in `catalog_schema` and `catalog_protocol`;
   each further kind of request adds 40 000 to 120 000 states to run
   `http`, which is why the run sends the two it does.

Nothing else of these sources is left to model without the code that is
outside them (`update.rs`, `object_store.rs`, `channel.rs`, the write
buffer and the query executor; section 6 says what each would add).
