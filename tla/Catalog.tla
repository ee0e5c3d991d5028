------------------------------- MODULE Catalog -------------------------------
(***************************************************************************)
(* The catalog write path of influxdb3_catalog/src/catalog.rs: concurrent  *)
(* tasks of one server process that each compose a catalog batch against   *)
(* the sequence number they observed, take the process-wide write permit,  *)
(* have the batch verified and stamped, write it to the catalog log in the *)
(* object store and apply it to the in-memory catalog; a checkpoint every  *)
(* CheckpointInterval batches; a crash at any point and the restart that   *)
(* loads checkpoint and log.                                               *)
(*                                                                         *)
(* The retry loop, the log and checkpoint files and the operations that    *)
(* are not defined in catalog.rs (soft and hard deletion, tables,          *)
(* retention) follow the repository's specification and the calls and      *)
(* tests of catalog.rs; what they do to the catalog once logged is         *)
(* catalog.rs itself (module InnerCatalog).                                *)
(***************************************************************************)
EXTENDS InnerCatalog

CONSTANTS
    Writers,                    \* the tasks that update the catalog
    Requests,                   \* what a task may be asked to do
    CheckpointInterval,         \* CATALOG_CHECKPOINT_INTERVAL
    DefaultHardDeleteDuration,  \* CatalogArgs::default_hard_delete_duration
    NumDbsLimit,                \* CatalogLimits::num_dbs
    DistinctDeletionSeconds,    \* TRUE: no soft deletion produces a name in use
    MaxSequence,                \* bound: no request is taken past this sequence
    MaxId,                      \* bound: no request is taken past this identifier
    MaxTokens,                  \* bound: no more token plaintexts are drawn than this
    MaxClock                    \* bound: the clock stops here

VARIABLES
    inner,      \* Catalog::inner, the in-memory catalog
    permit,     \* CATALOG_WRITE_PERMIT: who holds it, and the number in it
    store,      \* the object store: log files by sequence, the checkpoint
    pending,    \* checkpoints handed to a background task, not yet written
    task,       \* per writer: where it is in its update
    clock,      \* the time provider, in seconds
    entropy     \* how many token plaintexts the random generator has given out

vars == <<inner, permit, store, pending, task, clock, entropy>>

Idle == [pc |-> "idle", req |-> NONE, hash |-> NONE, sequence |-> 0, batch |-> NONE]

-----------------------------------------------------------------------------
(* Composing a batch.  A composer reads the catalog, may move an id cursor, *)
(* and returns Err(e) or Ok([batch, inner]).                                *)

Composed(batch, in) == Ok([batch |-> batch, inner |-> in])

DatabaseBatch(now, db, ops) ==
    [kind |-> "Database", time_ns |-> now, database_id |-> db.id,
     database_name |-> db.name, ops |-> ops]

DeleteBatch(now, ops) == [kind |-> "Delete", time_ns |-> now, ops |-> ops]

\* HardDeletionTime, resolved when the batch is composed
HardDeletionTimeAt(hard, now) ==
    CASE hard.kind = "Never"     -> NONE
      [] hard.kind = "Default"   -> now + DefaultHardDeleteDuration
      [] hard.kind = "Now"       -> now
      [] hard.kind = "Timestamp" -> hard.at

DbOrCreateEager(in, db_name, retention_period, now) ==
    LET db_id == NextIdOf(in.databases)
        db    == NewDatabaseSchema(db_id, db_name)
        ins   == Insert(BumpNextId(in.databases), db_id, db)
    IN  Composed(DatabaseBatch(now, db,
                    <<[op |-> "CreateDatabase", database_id |-> db_id,
                       database_name |-> db_name,
                       retention_period |-> retention_period]>>),
                 [in EXCEPT !.databases = ins.val])

\* db_or_create: nothing to do for a known name; else the limit, a new
\* identifier (taken from the shared catalog now) and a CreateDatabase batch.
db_or_create(in, db_name, retention_period, now) ==
    LET db_id == NextIdOf(in.databases)
        db    == NewDatabaseSchema(db_id, db_name)
    IN  CASE GetByName(in.databases, db_name) # NONE -> Composed(NONE, in)
          [] database_count(in) >= NumDbsLimit -> Err("TooManyDbs")
          [] OTHER ->
              Composed(DatabaseBatch(now, db,
                          <<[op |-> "CreateDatabase", database_id |-> db_id,
                             database_name |-> db_name,
                             retention_period |-> retention_period]>>),
                       [in EXCEPT !.databases = BumpNextId(@)])

\* create_database, and create_database_opts with its retention period
create_database(in, req, now) ==
    LET retention_period ==
            IF "retention_period" \in DOMAIN req THEN req.retention_period ELSE NONE
        r == db_or_create(in, req.name, retention_period, now)
    IN  IF IsOk(r) /\ r.val.batch = NONE THEN Err("AlreadyExists") ELSE r

SoftDeleteDatabaseAgain(in, req, now) ==
    LET db == GetByName(in.databases, req.name)
    IN  IF db = NONE THEN Err("NotFound")
        ELSE Composed(DatabaseBatch(now, db,
                         <<[op |-> "SoftDeleteDatabase", database_id |-> db.id,
                            database_name |-> db.name, deletion_time |-> now,
                            hard_deletion_time |-> HardDeletionTimeAt(req.hard, now)]>>),
                      in)

\* soft_delete_database: by the name the database has now; a default
\* deletion of a database that has a hard-delete time changes nothing and
\* is refused.
soft_delete_database(in, req, now) ==
    LET db == GetByName(in.databases, req.name)
    IN  CASE db = NONE -> Err("NotFound")
          [] req.hard.kind = "Default" /\ db.hard_delete_time # NONE -> Err("AlreadyDeleted")
          [] OTHER ->
              Composed(DatabaseBatch(now, db,
                          <<[op |-> "SoftDeleteDatabase", database_id |-> db.id,
                             database_name |-> db.name, deletion_time |-> now,
                             hard_deletion_time |-> HardDeletionTimeAt(req.hard, now)]>>),
                       in)

hard_delete_database(in, req, now) ==
    LET db == GetById(in.databases, req.db_id)
    IN  CASE db = NONE -> Err("NotFound")
          [] db.name = INTERNAL_DB_NAME -> Err("CannotDeleteInternalDatabase")
          [] OTHER ->
              Composed(DeleteBatch(now, <<[op |-> "DeleteDatabase", db_id |-> db.id]>>), in)

\* Columns as a log record names them: numbered from `first` in the order
\* given
NumberedFrom(first, columns) ==
    [i \in DOMAIN columns |->
        [id |-> first + i - 1, name |-> columns[i].name,
         data_type |-> columns[i].data_type]]

\* The tags among numbered columns, in their order: the series key
TagIds(fields) ==
    LET tags == SelectSeq(fields, LAMBDA f : f.data_type = "Tag")
    IN  [i \in DOMAIN tags |-> tags[i].id]

create_table(in, req, now) ==
    LET db == GetByName(in.databases, req.db)
    IN  CASE db = NONE -> Err("NotFound")
          [] ContainsName(db.tables, req.name) -> Err("AlreadyExists")
          [] OTHER ->
              Composed(DatabaseBatch(now, db,
                          <<[op |-> "CreateTable", table_id |-> NextIdOf(db.tables),
                             table_name |-> req.name,
                             field_definitions |-> NumberedFrom(0, req.columns),
                             key |-> TagIds(NumberedFrom(0, req.columns))]>>),
                       in)

\* The write path on a table that exists: the columns the table does not
\* have are added; one it has under another type fails the write, and a
\* write that brings nothing new commits without a batch.
add_columns_to_table(in, req, now) ==
    LET db    == GetByName(in.databases, req.db)
        table == GetByName(db.tables, req.table)
        known(c) == ContainsName(table.columns, c.name)
    IN  CASE db = NONE \/ table = NONE -> Err("NotFound")
          [] \E i \in DOMAIN req.columns :
                /\ known(req.columns[i])
                /\ GetByName(table.columns, req.columns[i].name).data_type
                      # req.columns[i].data_type
                -> Err("FieldTypeMismatch")
          [] \A i \in DOMAIN req.columns : known(req.columns[i]) -> Err("NothingToCommit")
          [] OTHER ->
              Composed(DatabaseBatch(now, db,
                          <<[op |-> "AddFields", table_id |-> table.table_id,
                             table_name |-> table.name,
                             field_definitions |->
                                 NumberedFrom(NextIdOf(table.columns),
                                     SelectSeq(req.columns, LAMBDA c : ~known(c)))]>>),
                       in)

\* The catalog part of a write: the database is created if it is not there,
\* its table if that is not there, and the columns the table lacks are
\* added, all in the one batch of the write.
WriteSchema(in, req, now) ==
    LET created  == db_or_create(in, req.db, NONE, now)
        db       == GetByName(in.databases, req.db)
        as_table == [kind |-> "create_table", db |-> req.db, name |-> req.table,
                     columns |-> req.columns]
    IN  CASE ~IsOk(created) -> created
          [] created.val.batch # NONE ->
                Composed([created.val.batch EXCEPT !.ops = @ \o
                             <<[op |-> "CreateTable", table_id |-> 0,
                                table_name |-> req.table,
                                field_definitions |-> NumberedFrom(0, req.columns),
                                key |-> TagIds(NumberedFrom(0, req.columns))]>>],
                         created.val.inner)
          [] ~ContainsName(db.tables, req.table) -> create_table(in, as_table, now)
          [] OTHER -> add_columns_to_table(in, req, now)

\* The log records of the two kinds of cache
CacheOps ==
    [last_caches     |-> [create |-> "CreateLastCache", delete |-> "DeleteLastCache"],
     distinct_caches |-> [create |-> "CreateDistinctCache",
                          delete |-> "DeleteDistinctCache"]]

\* create_last_cache and create_distinct_cache: a new cache of a table, under
\* the next identifier of its kind
create_cache(in, req, now) ==
    LET db    == GetByName(in.databases, req.db)
        table == GetByName(db.tables, req.table)
    IN  CASE db = NONE \/ table = NONE -> Err("NotFound")
          [] ContainsName(table[req.caches], req.name) -> Err("AlreadyExists")
          [] OTHER ->
              Composed(DatabaseBatch(now, db,
                          <<[op |-> CacheOps[req.caches].create,
                             table_id |-> table.table_id, table_name |-> table.name,
                             id |-> NextIdOf(table[req.caches]), name |-> req.name,
                             config |-> req.config]>>),
                       in)

\* delete_last_cache and delete_distinct_cache
delete_cache(in, req, now) ==
    LET db    == GetByName(in.databases, req.db)
        table == GetByName(db.tables, req.table)
        cache == GetByName(table[req.caches], req.name)
    IN  IF db = NONE \/ table = NONE \/ cache = NONE THEN Err("NotFound")
        ELSE Composed(DatabaseBatch(now, db,
                        <<[op |-> CacheOps[req.caches].delete,
                           table_id |-> table.table_id, table_name |-> table.name,
                           id |-> cache.id, name |-> cache.name]>>),
                      in)

\* create_processing_engine_trigger
create_trigger(in, req, now) ==
    LET db == GetByName(in.databases, req.db)
    IN  CASE db = NONE -> Err("NotFound")
          [] ContainsName(db.processing_engine_triggers, req.name) -> Err("AlreadyExists")
          [] OTHER ->
              Composed(DatabaseBatch(now, db,
                          <<[op |-> "CreateTrigger",
                             trigger_id |-> NextIdOf(db.processing_engine_triggers),
                             trigger_name |-> req.name, definition |-> req.definition,
                             disabled |-> req.disabled]>>),
                       in)

\* enable_processing_engine_trigger and disable_processing_engine_trigger: a
\* trigger that is in the state asked for is an error of the request
set_trigger_disabled(in, req, now) ==
    LET db      == GetByName(in.databases, req.db)
        trigger == GetByName(db.processing_engine_triggers, req.name)
    IN  CASE db = NONE \/ trigger = NONE -> Err("NotFound")
          [] trigger.disabled = req.disabled ->
              Err(IF req.disabled THEN "TriggerAlreadyDisabled" ELSE "TriggerAlreadyEnabled")
          [] OTHER ->
              Composed(DatabaseBatch(now, db,
                          <<[op |-> IF req.disabled THEN "DisableTrigger"
                                    ELSE "EnableTrigger",
                             trigger_name |-> req.name]>>),
                       in)

\* delete_processing_engine_trigger
delete_trigger(in, req, now) ==
    LET db      == GetByName(in.databases, req.db)
        trigger == GetByName(db.processing_engine_triggers, req.name)
    IN  CASE db = NONE \/ trigger = NONE -> Err("NotFound")
          [] ~trigger.disabled /\ ~req.force -> Err("ProcessingEngineTriggerRunning")
          [] OTHER ->
              Composed(DatabaseBatch(now, db,
                          <<[op |-> "DeleteTrigger", trigger_name |-> req.name,
                             force |-> req.force]>>),
                       in)

soft_delete_table(in, req, now) ==
    LET db    == GetByName(in.databases, req.db)
        table == GetByName(db.tables, req.name)
    IN  CASE db = NONE \/ table = NONE -> Err("NotFound")
          [] req.hard.kind = "Default" /\ table.hard_delete_time # NONE -> Err("AlreadyDeleted")
          [] OTHER ->
              Composed(DatabaseBatch(now, db,
                          <<[op |-> "SoftDeleteTable", table_id |-> table.table_id,
                             table_name |-> table.name, deletion_time |-> now,
                             hard_deletion_time |-> HardDeletionTimeAt(req.hard, now)]>>),
                       in)

hard_delete_table(in, req, now) ==
    LET db == GetById(in.databases, req.db_id)
    IN  IF db = NONE \/ ~ContainsId(db.tables, req.table_id) THEN Err("NotFound")
        ELSE Composed(DeleteBatch(now, <<[op |-> "DeleteTable", db_id |-> req.db_id,
                                          table_id |-> req.table_id]>>), in)

set_retention_period(in, req, now) ==
    LET db == GetByName(in.databases, req.db)
    IN  IF db = NONE THEN Err("NotFound")
        ELSE Composed(DatabaseBatch(now, db,
                        IF req.retention_period = NONE
                        THEN <<[op |-> "ClearRetentionPeriod"]>>
                        ELSE <<[op |-> "SetRetentionPeriod",
                                retention_period |-> req.retention_period]>>), in)

TokenBatch(now, ops) == [kind |-> "Token", time_ns |-> now, ops |-> ops]

\* The closure of create_admin_token: with `regenerate` a new hash for the
\* operator token, which must exist; without, the operator token, which
\* must not.
create_admin_token(in, req, now, hash) ==
    LET default_admin_token == GetByName(in.tokens.repo, DEFAULT_OPERATOR_TOKEN_NAME)
    IN  CASE req.regenerate /\ default_admin_token = NONE ->
                Err("MissingAdminTokenToUpdate")
          [] req.regenerate ->
                Composed(TokenBatch(now, <<[op |-> "RegenerateAdminToken",
                                            token_id |-> default_admin_token.id,
                                            hash |-> hash]>>), in)
          [] ContainsName(in.tokens.repo, DEFAULT_OPERATOR_TOKEN_NAME) ->
                Err("TokenNameAlreadyExists")
          [] OTHER ->
                Composed(TokenBatch(now, <<[op |-> "CreateAdminToken",
                                            token_id |-> NextIdOf(in.tokens.repo),
                                            name |-> DEFAULT_OPERATOR_TOKEN_NAME,
                                            hash |-> hash]>>),
                         [in EXCEPT !.tokens.repo = BumpNextId(@)])

\* The closures of create_named_admin_token_with_permission and of
\* create_scoped_token: the name must be free; the identifier is taken from
\* the shared catalog now.
CreateNamedToken(in, req, now, hash, op, permissions) ==
    IF ContainsName(in.tokens.repo, req.name) THEN Err("TokenNameAlreadyExists")
    ELSE Composed(TokenBatch(now, <<[op |-> op, token_id |-> NextIdOf(in.tokens.repo),
                                     name |-> req.name, hash |-> hash,
                                     permissions |-> permissions]>>),
                  [in EXCEPT !.tokens.repo = BumpNextId(@)])

create_named_admin_token_with_permission(in, req, now, hash) ==
    CreateNamedToken(in, req, now, hash, "CreateAdminToken", "Wildcard")

create_scoped_token(in, req, now, hash) ==
    CreateNamedToken(in, req, now, hash, "CreateScopedToken", req.permissions)

DeleteTokenUnchecked(in, req, now) ==
    Composed(TokenBatch(now, <<[op |-> "DeleteToken", token_name |-> req.name]>>), in)

delete_token_request(in, req, now) ==
    CASE ~ContainsName(in.tokens.repo, req.name) -> Err("NotFound")
      [] req.name = DEFAULT_OPERATOR_TOKEN_NAME -> Err("CannotDeleteOperatorToken")
      [] OTHER -> Composed(TokenBatch(now, <<[op |-> "DeleteToken",
                                              token_name |-> req.name]>>), in)

set_gen_duration(in, req, now) ==
    CASE req.level \notin DOMAIN in.generation_config ->
            Composed([kind |-> "Generation", time_ns |-> now,
                      ops |-> <<[op |-> "SetGenerationDuration", level |-> req.level,
                                 duration |-> req.duration]>>], in)
      [] in.generation_config[req.level] = req.duration -> Err("AlreadyExists")
      [] OTHER -> Err("CannotChangeGenerationDuration")

NodeBatch(now, node_catalog_id, ops) ==
    [kind |-> "Node", time_ns |-> now, node_catalog_id |-> node_catalog_id, ops |-> ops]

\* register_node: a known node registers again under its identifier and its
\* instance; an unknown one takes the next identifier and a new instance
\* (a UUID: here the one value that is new with every identifier).
register_node(in, req, now) ==
    LET node == GetByName(in.nodes, req.node_id)
        id   == IF node = NONE THEN NextIdOf(in.nodes) ELSE node.node_catalog_id
    IN  Composed(NodeBatch(now, id,
                    <<[op |-> "RegisterNode", node_id |-> req.node_id,
                       instance_id |-> IF node = NONE THEN id ELSE node.instance_id]>>),
                 IF node = NONE THEN [in EXCEPT !.nodes = BumpNextId(@)] ELSE in)

\* update_node_state_stopped, on shutdown
update_node_state_stopped(in, req, now) ==
    LET node == GetByName(in.nodes, req.node_id)
    IN  IF node = NONE THEN Err("NotFound")
        ELSE Composed(NodeBatch(now, node.node_catalog_id,
                                <<[op |-> "StopNode", node_id |-> req.node_id]>>), in)

\* The requests that hand back a token, and so draw a plaintext first
CreatesToken(req) ==
    req.kind \in {"create_admin_token", "create_named_admin_token_with_permission",
                  "create_scoped_token"}

\* The name under which such a request looks its token up afterwards
TokenNameOf(req) ==
    IF req.kind = "create_admin_token" THEN DEFAULT_OPERATOR_TOKEN_NAME ELSE req.name

\* The closure a request hands to catalog_update_with_retry
Compose(in, req, now, hash) ==
    CASE req.kind = "create_admin_token"   -> create_admin_token(in, req, now, hash)
      [] req.kind = "create_named_admin_token_with_permission" ->
            create_named_admin_token_with_permission(in, req, now, hash)
      [] req.kind = "create_scoped_token"  -> create_scoped_token(in, req, now, hash)
      [] req.kind = "delete_token"         -> delete_token_request(in, req, now)
      [] req.kind = "set_gen_duration"     -> set_gen_duration(in, req, now)
      [] req.kind = "create_database"      -> create_database(in, req, now)
      [] req.kind = "soft_delete_database" -> soft_delete_database(in, req, now)
      [] req.kind = "hard_delete_database" -> hard_delete_database(in, req, now)
      [] req.kind = "create_table"         -> create_table(in, req, now)
      [] req.kind = "add_columns"          -> add_columns_to_table(in, req, now)
      [] req.kind = "write_lp"             -> WriteSchema(in, req, now)
      [] req.kind = "create_cache"         -> create_cache(in, req, now)
      [] req.kind = "delete_cache"         -> delete_cache(in, req, now)
      [] req.kind = "create_trigger"       -> create_trigger(in, req, now)
      [] req.kind = "set_trigger_disabled" -> set_trigger_disabled(in, req, now)
      [] req.kind = "delete_trigger"       -> delete_trigger(in, req, now)
      [] req.kind = "soft_delete_table"    -> soft_delete_table(in, req, now)
      [] req.kind = "hard_delete_table"    -> hard_delete_table(in, req, now)
      [] req.kind = "set_retention_period" -> set_retention_period(in, req, now)
      [] req.kind = "register_node"        -> register_node(in, req, now)
      [] req.kind = "update_node_state_stopped" -> update_node_state_stopped(in, req, now)

-----------------------------------------------------------------------------
(* The object store: catalog/log/<seq> files and catalog/checkpoint *)

EmptyStore == [log |-> EmptyMap, checkpoint |-> NONE]

\* The log files after `in.sequence` up to `upto`, applied in ascending
\* order; a file that is not there is skipped.  Err if one fails to apply.
Loaded(a) == IF IsOk(a) THEN Ok(a.val.inner) ELSE a

Replay(in, log, upto) ==
    SeqX!FoldLeft(LAMBDA r, s :
                     IF ~IsOk(r) \/ s \notin DOMAIN log THEN r
                     ELSE Loaded(apply_catalog_batch(r.val, log[s], s)),
                  Ok(in),
                  [i \in 1..(upto - in.sequence) |-> in.sequence + i])

LastLogged(st) ==
    IF DOMAIN st.log = {} THEN 0 ELSE CHOOSE s \in DOMAIN st.log : \A t \in DOMAIN st.log : t <= s

\* The catalog the store holds up to a sequence number: the checkpoint, or
\* an empty catalog, and the log files after it.
LoadUpTo(st, upto) ==
    Replay(IF st.checkpoint = NONE THEN NewInnerCatalog ELSE st.checkpoint, st.log, upto)

\* load_or_create_catalog
Load(st) == LoadUpTo(st, LastLogged(st))

-----------------------------------------------------------------------------
(* The steps of an update *)

Ordered(batch, sequence) == [batch |-> batch, sequence |-> sequence]

Free == NONE
Release(p) == [p EXCEPT !.holder = Free]

InFlight == Cardinality({w \in Writers : task[w].pc # "idle"})

IsSoftDelete(req) == req.kind \in {"soft_delete_database", "soft_delete_table"}

\* A task is asked to update the catalog.  A request for a token draws its
\* plaintext and hash first, once (create_token_and_hash: 64 random bytes,
\* never the same twice); catalog_update_with_retry then reads the sequence
\* number before it runs the composer.
Submit(w, req) ==
    /\ task[w].pc = "idle"
    /\ LastLogged(store) + InFlight < MaxSequence
    /\ \A R \in {inner.nodes, inner.databases, inner.tokens.repo} : R.next_id < MaxId
    /\ IsSoftDelete(req) => clock < MaxClock
    /\ CreatesToken(req) => entropy < MaxTokens
    /\ task' = [task EXCEPT ![w] = [Idle EXCEPT
                    !.pc = "sequenced", !.req = req, !.sequence = inner.sequence,
                    !.hash = IF CreatesToken(req) THEN entropy ELSE NONE]]
    /\ entropy' = IF CreatesToken(req) THEN entropy + 1 ELSE entropy
    /\ UNCHANGED <<inner, permit, store, pending, clock>>

\* The loop comes round after a Retry and reads the sequence number again.
ReadSequence(w) ==
    /\ task[w].pc = "retry"
    /\ task' = [task EXCEPT ![w].pc = "sequenced", ![w].sequence = inner.sequence]
    /\ UNCHANGED <<inner, permit, store, pending, clock, entropy>>

\* The composer has run.  An error ends the request; a batch goes on to the
\* permit.  An identifier the composer took stays taken either way.
Composition(w, r) ==
    /\ IF IsOk(r)
       THEN /\ task' = [task EXCEPT ![w].pc = "composed", ![w].batch = r.val.batch]
            /\ inner' = r.val.inner
            /\ clock' = IF DistinctDeletionSeconds /\ IsSoftDelete(task[w].req)
                        THEN clock + 1 ELSE clock
       ELSE /\ task' = [task EXCEPT ![w] = Idle]
            /\ UNCHANGED <<inner, clock>>
    /\ UNCHANGED <<permit, store, pending, entropy>>

ComposeStep(w) ==
    /\ task[w].pc = "sequenced"
    /\ Composition(w, Compose(inner, task[w].req, clock, task[w].hash))

VerifyAlways(w) ==
    /\ task[w].pc = "composed"
    /\ permit.holder = Free
    /\ permit' = [holder |-> w, next |-> inner.sequence + 1]
    /\ task' = [task EXCEPT ![w].pc = "permitted",
                            ![w].batch = Ordered(@, inner.sequence + 1)]
    /\ UNCHANGED <<inner, store, pending, clock, entropy>>

RetryKeepsPermit(w) ==
    /\ task[w].pc = "composed"
    /\ permit.holder = Free
    /\ IF task[w].sequence # inner.sequence
       THEN /\ task' = [task EXCEPT ![w].pc = "retry", ![w].batch = NONE]
            /\ permit' = [permit EXCEPT !.holder = w]
       ELSE /\ permit' = [holder |-> w, next |-> inner.sequence + 1]
            /\ task' = [task EXCEPT ![w].pc = "permitted",
                                    ![w].batch = Ordered(@, inner.sequence + 1)]
    /\ UNCHANGED <<inner, store, pending, clock, entropy>>

\* get_permit_and_verify_catalog_batch: wait for the permit; Retry (and let
\* go of it) if the catalog moved since the batch was composed; else put
\* the next sequence number in the permit and on the batch.
get_permit_and_verify_catalog_batch(w) ==
    /\ task[w].pc = "composed"
    /\ permit.holder = Free
    /\ IF task[w].sequence # inner.sequence
       THEN /\ task' = [task EXCEPT ![w].pc = "retry", ![w].batch = NONE]
            /\ UNCHANGED permit
       ELSE /\ permit' = [holder |-> w, next |-> inner.sequence + 1]
            /\ task' = [task EXCEPT ![w].pc = "permitted",
                                    ![w].batch = Ordered(@, inner.sequence + 1)]
    /\ UNCHANGED <<inner, store, pending, clock, entropy>>

PersistSkipsPut(w) ==
    /\ task[w].pc = "permitted"
    /\ task[w].batch.sequence \notin DOMAIN store.log
    /\ task' = [task EXCEPT ![w].pc = "persisted"]
    /\ UNCHANGED <<inner, permit, store, pending, clock, entropy>>

\* The conditional put of the log file succeeds.
Persist(w) ==
    /\ task[w].pc = "permitted"
    /\ task[w].batch.sequence \notin DOMAIN store.log
    /\ store' = [store EXCEPT !.log = MapPut(@, task[w].batch.sequence, task[w].batch.batch)]
    /\ task' = [task EXCEPT ![w].pc = "persisted"]
    /\ UNCHANGED <<inner, permit, pending, clock, entropy>>

\* The put reports an error: the request fails and the permit is dropped.
\* The file may have been written all the same.
PersistFails(w) ==
    /\ task[w].pc = "permitted"
    /\ task[w].batch.sequence \notin DOMAIN store.log
    /\ \/ UNCHANGED store
       \/ store' = [store EXCEPT
                       !.log = MapPut(@, task[w].batch.sequence, task[w].batch.batch)]
    /\ permit' = Release(permit)
    /\ task' = [task EXCEPT ![w] = Idle]
    /\ UNCHANGED <<inner, pending, clock, entropy>>

\* The log file for this sequence number is already there: the task loses,
\* brings the catalog up to what the store holds and composes again.
CatchUp(w, caught_up) ==
    /\ IsOk(caught_up)
    /\ inner' = caught_up.val
    /\ permit' = Release(permit)
    /\ task' = [task EXCEPT ![w].pc = "retry", ![w].batch = NONE]
    /\ UNCHANGED <<store, pending, clock, entropy>>

PersistConflict(w) ==
    /\ task[w].pc = "permitted"
    /\ task[w].batch.sequence \in DOMAIN store.log
    /\ CatchUp(w, Replay(inner, store.log, LastLogged(store)))

\* apply_ordered_catalog_batch: the batch must be the next one, must apply
\* and must change the catalog; anything else is a panic.
Expect(r) == IF IsOk(r) /\ r.val.updated THEN Ok(r.val.inner) ELSE Panic

apply_ordered_catalog_batch(in, ordered) ==
    IF ordered.sequence # in.sequence + 1 THEN Panic
    ELSE Expect(apply_catalog_batch(in, ordered.batch, ordered.sequence))

\* The logged batch is applied, a checkpoint is handed to the background
\* every CheckpointInterval batches, the permit is dropped.
Applied(w, r) ==
    /\ IsOk(r)
    /\ inner' = r.val
    /\ pending' = IF task[w].batch.sequence % CheckpointInterval = 0
                  THEN pending \cup {r.val} ELSE pending
    /\ permit' = Release(permit)
    /\ task' = [task EXCEPT ![w] = IF CreatesToken(@.req)
                                   THEN [@ EXCEPT !.pc = "applied", !.batch = NONE]
                                   ELSE Idle]
    /\ UNCHANGED <<store, clock, entropy>>

Apply(w) ==
    /\ task[w].pc = "persisted"
    /\ Applied(w, apply_ordered_catalog_batch(inner, task[w].batch))

\* After the update a token request reads the token back by its name, to
\* return it with the plaintext; it expects to find it.  Found or not (a
\* panic of the request), the request is over.
ReturnToken(w) ==
    /\ task[w].pc = "applied"
    /\ task' = [task EXCEPT ![w] = Idle]
    /\ UNCHANGED <<inner, permit, store, pending, clock, entropy>>

\* A background task writes its checkpoint, whichever got there first.
WriteCheckpoint ==
    \E snapshot \in pending :
        /\ store' = [store EXCEPT !.checkpoint = snapshot]
        /\ pending' = pending \ {snapshot}
        /\ UNCHANGED <<inner, permit, task, clock, entropy>>

\* The process dies and is started again: everything in memory is gone and
\* the catalog is what the store holds.
Restart(loaded) ==
    /\ IsOk(loaded)
    /\ inner' = loaded.val
    /\ permit' = [holder |-> Free, next |-> 0]
    /\ pending' = {}
    /\ task' = [w \in Writers |-> Idle]
    /\ UNCHANGED <<store, clock, entropy>>

CrashAndRestart == Restart(Load(store))

Tick ==
    /\ clock < MaxClock
    /\ clock' = clock + 1
    /\ UNCHANGED <<inner, permit, store, pending, task, entropy>>

-----------------------------------------------------------------------------

\* The first start of a server on an empty store: load_or_create_catalog
\* finds nothing, create_internal_db logs and applies the first batch.
InternalDbBatch == db_or_create(NewInnerCatalog, INTERNAL_DB_NAME, NONE, 0).val

Init ==
    /\ store = [EmptyStore EXCEPT !.log = MapPut(@, 1, InternalDbBatch.batch)]
    /\ inner = apply_ordered_catalog_batch(InternalDbBatch.inner,
                                           Ordered(InternalDbBatch.batch, 1)).val
    /\ permit = [holder |-> Free, next |-> 0]
    /\ pending = {}
    /\ task = [w \in Writers |-> Idle]
    /\ clock = 0
    /\ entropy = 0

Next ==
    \/ \E w \in Writers :
          \/ \E req \in Requests : Submit(w, req)
          \/ ReadSequence(w)
          \/ ComposeStep(w)
          \/ get_permit_and_verify_catalog_batch(w)
          \/ Persist(w)
          \/ PersistFails(w)
          \/ PersistConflict(w)
          \/ Apply(w)
          \/ ReturnToken(w)
    \/ WriteCheckpoint
    \/ CrashAndRestart
    \/ Tick

Spec == Init /\ [][Next]_vars

-----------------------------------------------------------------------------
(* Fairness.  A task that can take its next step takes it: the runtime      *)
(* polls every ready future.  The write permit is a tokio Mutex, which      *)
(* hands the lock to waiters in the order they asked, so a task that keeps  *)
(* finding the permit free now and then does get it: strong fairness.       *)
(* Nothing obliges requests to arrive, the clock to tick, a checkpoint to   *)
(* be written or the process to crash.                                      *)

WriterStep(w) ==
    \/ ReadSequence(w)
    \/ ComposeStep(w)
    \/ Persist(w)
    \/ PersistFails(w)
    \/ PersistConflict(w)
    \/ Apply(w)
    \/ ReturnToken(w)

FairSpec ==
    /\ Spec
    /\ \A w \in Writers : WF_vars(WriterStep(w))
    /\ \A w \in Writers : SF_vars(get_permit_and_verify_catalog_batch(w))

-----------------------------------------------------------------------------
(* Properties *)

\* A name is a base name, with one deletion time appended once the resource
\* is soft deleted.
IsName(name, deleted) ==
    /\ Len(name) = IF deleted THEN 2 ELSE 1
    /\ deleted => name[2] \in Nat

\* The shape of the state.  For the catalog it says what
\* SoftDeleteDatabaseLog::update_schema and SoftDeleteTableLog::update_schema
\* keep by renaming only a resource that is not yet deleted: a resource
\* carries a deletion suffix, exactly one, if and only if it is deleted,
\* however often it is soft deleted.
TypeOK ==
    /\ inner.sequence \in 0..MaxSequence
    /\ \A db \in Resources(inner.databases) :
          /\ db.deleted \in BOOLEAN /\ IsName(db.name, db.deleted)
          /\ \A table \in Resources(db.tables) :
                table.deleted \in BOOLEAN /\ IsName(table.name, table.deleted)
    /\ permit.holder \in Writers \cup {Free}
    /\ permit.next \in 0..MaxSequence
    /\ DOMAIN store.log \subseteq 1..MaxSequence
    /\ store.checkpoint # NONE => store.checkpoint.sequence \in 1..MaxSequence
    /\ pending \subseteq {snapshot \in pending : snapshot.sequence \in 1..MaxSequence}
    /\ \A w \in Writers :
          /\ task[w].pc \in {"idle", "retry", "sequenced", "composed",
                             "permitted", "persisted", "applied"}
          /\ task[w].hash \in 0..(entropy - 1) \cup {NONE}
          /\ task[w].pc = "idle" <=> task[w].req = NONE
          /\ task[w].pc \in {"permitted", "persisted"}
                => task[w].batch.sequence \in 1..MaxSequence
    /\ clock \in Nat
    /\ entropy \in 0..MaxTokens

\* Every repository of the catalog, down to the columns and caches of each
\* table and the triggers of each database, has the same identifiers in its store and in its bi-map, each
\* under the name of its resource: what the assert_eq! of
\* Repository::id_exists takes for granted, after any interleaving of
\* creations, soft and hard deletions, failures and restarts.
RepositoriesAgree ==
    /\ IdsAgree(inner.nodes)
    /\ IdsAgree(inner.databases)
    /\ IdsAgree(inner.tokens.repo)
    /\ \A db \in Resources(inner.databases) :
          /\ IdsAgree(db.tables)
          /\ IdsAgree(db.processing_engine_triggers)
          /\ \A table \in Resources(db.tables) :
                /\ IdsAgree(table.columns)
                /\ IdsAgree(table.last_caches)
                /\ IdsAgree(table.distinct_caches)

\* No identifier in use is at or past the cursor of its repository, so
\* get_and_increment_next_id (db_or_create) and the table cursor never hand
\* out an identifier that is taken, also after a restart has rebuilt the
\* cursors from checkpoint and log through Repository::insert.
IdsAreFresh ==
    /\ NextIdIsFresh(inner.nodes)
    /\ NextIdIsFresh(inner.databases)
    /\ NextIdIsFresh(inner.tokens.repo)
    /\ \A db \in Resources(inner.databases) :
          /\ NextIdIsFresh(db.tables)
          /\ NextIdIsFresh(db.processing_engine_triggers)
          /\ \A table \in Resources(db.tables) :
                /\ NextIdIsFresh(table.columns)
                /\ NextIdIsFresh(table.last_caches)
                /\ NextIdIsFresh(table.distinct_caches)

\* The cursors of the nodes, the databases and the tokens are the one thing in
\* memory the log does not determine: the composers move them for batches
\* that are never logged.
WithoutCursor(in) ==
    [in EXCEPT !.nodes.next_id = 0, !.databases.next_id = 0, !.tokens.repo.next_id = 0]

\* The in-memory catalog is, at every moment, what a restart would load
\* from the object store up to the catalog's sequence number (the database
\* cursor aside): apply_ordered_catalog_batch has applied every logged
\* batch up to there, in order, and nothing else has touched the catalog.
SameButCursor(loaded, in) == IsOk(loaded) /\ WithoutCursor(loaded.val) = WithoutCursor(in)

MemoryIsReplayOfLog == SameButCursor(LoadUpTo(store, inner.sequence), inner)

\* A batch that was verified and logged applies: neither the assert_eq! nor
\* one of the two expects of apply_ordered_catalog_batch fails, whatever
\* other tasks did between composing the batch and applying it.
ApplyNeverFails ==
    \A w \in Writers :
        task[w].pc = "persisted" => IsOk(apply_ordered_catalog_batch(inner, task[w].batch))

\* The series key of every table is the start of its sort key, and the sort
\* key of a table that has the time column is the series key and then time:
\* what TableDefinition::new builds and add_columns has to keep, through its
\* sort_key_changed flag, whichever columns arrive in whichever order and
\* however requests and restarts interleave.
SortKeyFollowsSeriesKey ==
    \A db \in Resources(inner.databases) : \A table \in Resources(db.tables) :
        /\ table.series_key_names =
               [i \in DOMAIN table.series_key |->
                   IdToName(table.columns, table.series_key[i])]
        /\ SeqX!ToSet(table.series_key) = index_column_ids(table)
        /\ table.sort_key =
               IF ContainsName(table.columns, TIME_COLUMN_NAME)
               THEN Append(table.series_key_names, TIME_COLUMN_NAME)
               ELSE table.series_key_names

\* The columns of a table of a database, by their identifiers
ColumnsOf(in, database_id, table_id) ==
    GetById(GetById(in.databases, database_id).tables, table_id).columns

\* The columns of a logged batch arrive: when a task's batch has been applied,
\* or replayed by a restart, every column an AddFieldsLog of it names is in
\* the table, under the identifier and the name of the log.  add_fields
\* passes over a field whose identifier the table knows without looking at
\* its name, so this rests on no other batch having taken the identifier
\* between the composition of the batch and its application.
LoggedColumnsArrive ==
    [][\A w \in Writers :
          task[w].pc = "persisted" /\ task'[w].pc = "idle" /\ inner' # inner =>
             \A i \in DOMAIN task[w].batch.batch.ops :
                LET op == task[w].batch.batch.ops[i]
                IN  op.op = "AddFields" =>
                       \A j \in DOMAIN op.field_definitions :
                          IdToName(ColumnsOf(inner', task[w].batch.batch.database_id,
                                             op.table_id),
                                   op.field_definitions[j].id)
                             = op.field_definitions[j].name]_vars

\* The identifiers a logged batch creates: of databases, and of tables
\* with the database they are in
CreatedBy(batch) ==
    IF batch.kind # "Database" THEN {}
    ELSE LET Ops(kind) == {op \in SeqX!ToSet(batch.ops) : op.op = kind}
         IN  {<<op.database_id>> : op \in Ops("CreateDatabase")}
                 \cup {<<batch.database_id, op.table_id>> : op \in Ops("CreateTable")}

\* An identifier is given out once: no two batches of the log create a
\* database, or a table of one database, under the same identifier, though
\* the resource of the first may be hard deleted by then, the cursor that
\* handed it out moved for a batch that was never logged, or rebuilt by a
\* restart from checkpoint and log.  Repository::insert takes a known
\* identifier under a new name without an error, and every record that
\* names the identifier afterwards would reach the later resource.
LoggedIdentifiersAreNew ==
    \A s1, s2 \in DOMAIN store.log :
        s1 < s2 => CreatedBy(store.log[s1]) \cap CreatedBy(store.log[s2]) = {}

\* The hard-delete times that are set, of databases and of tables, each
\* with the identifiers of its resource
HardDeleteTimes(in) ==
    LET Timed(resources, key(_)) ==
            {<<key(r), r.hard_delete_time>> :
                r \in {r \in resources : r.hard_delete_time # NONE}}
    IN  Timed(Resources(in.databases), LAMBDA db : <<db.id>>)
            \cup UNION {Timed(Resources(db.tables), LAMBDA table : <<db.id, table.table_id>>) :
                           db \in Resources(in.databases)}

\* A default deletion never moves a hard-delete time that is set: when the
\* batch of a soft deletion with HardDeletionTime::Default reaches the
\* catalog, applied by its task or replayed by a restart, every database
\* and table that had a hard-delete time has it still.  The deletion is
\* refused as AlreadyDeleted when it is composed, and
\* SoftDeleteDatabaseLog::update_schema overwrites the time whenever it is
\* applied, so this rests on no deletion having been applied between the
\* two (test_database_soft_delete_default_preserves_existing_hard_delete_time,
\* for one task).
DefaultDeletionKeepsHardDeleteTime ==
    [][\A w \in Writers :
          /\ task[w].pc = "persisted"
          /\ IsSoftDelete(task[w].req) /\ task[w].req.hard.kind = "Default"
          /\ inner'.sequence > inner.sequence
          => HardDeleteTimes(inner) \subseteq HardDeleteTimes(inner')]_vars

\* The log files as the sequence of their batches
LogFiles == [sequence \in 1..LastLogged(store) |-> store.log[sequence]]

\* A batch applied to a catalog whose cursors are left out
AppliedWithoutCursor(in, batch, sequence) ==
    WithoutCursor(apply_catalog_batch(in, batch, sequence).val.inner)

AbstractLog ==
    INSTANCE CatalogLog WITH log     <- LogFiles,
                             applied <- inner.sequence,
                             state   <- WithoutCursor(inner),
                             Initial <- WithoutCursor(NewInnerCatalog),
                             Step    <- AppliedWithoutCursor

\* The write path implements the append-only log of module CatalogLog:
\* every step of a task, of a checkpoint, of a failed or conflicting log
\* write and of a restart either leaves log and catalog as they are, or
\* adds one log file after the last (Persist, and PersistFails when the
\* file was written although the put reported an error) while the catalog
\* has applied them all, or brings the catalog to what applying further log
\* files in order gives (Apply, the catch_up of PersistConflict, the load
\* of a restart from checkpoint and log).  No log file is overwritten or
\* removed, and the sequence number never goes back.
ImplementsCatalogLog == AbstractLog!LogSpec

\* Every request comes back: whichever way a task leaves
\* get_permit_and_verify_catalog_batch, the log write or
\* apply_ordered_catalog_batch, the write permit is free again for the
\* tasks that wait for it.
EveryRequestReturns ==
    \A w \in Writers : (task[w].pc # "idle") ~> (task[w].pc = "idle")

\* Authentication (hash_to_info) finds a token for a hash exactly when a
\* token of the catalog has that hash now, and finds that token: the
\* plaintext of a deleted token and the plaintext an operator token had
\* before it was regenerated open nothing, also after a restart.
OnlyCurrentHashesAuthenticate ==
    \A hash \in 0..(entropy - 1) :
        LET found == hash_to_info(inner.tokens, hash)
        IN  /\ found # NONE <=> \E token \in Resources(inner.tokens.repo) : token.hash = hash
            /\ found # NONE => found.hash = hash

\* There are never more databases than CatalogLimits::num_dbs allows,
\* deleted ones and the internal one apart.  db_or_create compares the
\* count with the limit when it composes, before the permit is taken; of
\* two requests that both pass at limit - 1 one is sent back by
\* get_permit_and_verify_catalog_batch and meets the limit the second time.
DatabaseCountWithinLimit == database_count(inner) <= NumDbsLimit

\* A request that created a token finds it when it reads it back: the
\* expect("token info must be present after token creation by name") of
\* create_admin_token, create_named_admin_token_with_permission and
\* create_scoped_token.
TokenPresentAfterCreation ==
    \A w \in Writers :
        task[w].pc = "applied" => ContainsName(inner.tokens.repo, TokenNameOf(task[w].req))

\* The cut-off of a table is the time now less the retention period its
\* database was given (DatabaseSchema::get_retention_period_cutoff_ts_nanos),
\* whatever the period.
RetentionIsThePeriodGiven ==
    \A db \in Resources(inner.databases) : \A table \in Resources(db.tables) :
        db.retention_period # Indefinite =>
            get_retention_period_cutoff_map(inner, clock)[<<db.id, table.table_id>>]
                = clock - db.retention_period

=============================================================================
