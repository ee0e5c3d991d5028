---------------------------- MODULE InnerCatalog ----------------------------
(***************************************************************************)
(* The in-memory catalog value of influxdb3_catalog/src/catalog.rs         *)
(* (InnerCatalog, DatabaseSchema, TableDefinition, TokenRepository,        *)
(* GenerationConfig, NodeDefinition) and the application of a catalog      *)
(* batch to it (apply_catalog_batch and everything it calls).              *)
(*                                                                         *)
(* Everything here is a constant operator: a catalog value in, a result    *)
(* out.  The state machine that calls them is module Catalog.              *)
(*                                                                         *)
(* Data is abstracted to what the catalog's control flow reads:            *)
(*  - a name is a tuple, the base name followed by the deletion-time       *)
(*    suffixes appended to it: <<n>> is "n", <<n, 3>> is "n-<second 3>";   *)
(*  - time is counted in seconds, the granularity of %Y%m%dT%H%M%S;        *)
(*  - a token hash is a value of a small set; created_at, updated_at,      *)
(*    core counts and node modes are left out;                             *)
(*  - a table is the value of module TableDefinition; a trigger is an      *)
(*    identifier, a name, whether it is disabled, and a definition of      *)
(*    which the kind of its trigger specification is read.                 *)
(***************************************************************************)
EXTENDS TableDefinition

CONSTANTS
    INTERNAL_DB_NAME,               \* "_internal"
    DEFAULT_OPERATOR_TOKEN_NAME,    \* "_admin"
    TimeBits                        \* the width of u64 and i64: 64 in the code

\* make_new_name_using_deleted_time: format!("{}-{}", name, time), the time
\* printed to the second.
make_new_name_using_deleted_time(name, deletion_time) == Append(name, deletion_time)

-----------------------------------------------------------------------------
(* Values *)

\* InnerCatalog::new
NewInnerCatalog ==
    [sequence          |-> 0,
     nodes             |-> NewRepository,
     databases         |-> NewRepository,
     tokens            |-> [repo |-> NewRepository, hash_lookup_map |-> EmptyMap],
     generation_config |-> EmptyMap]

\* RetentionPeriod::Indefinite; RetentionPeriod::Duration(d) is d
Indefinite == NONE

\* DatabaseSchema::new
NewDatabaseSchema(id, name) ==
    [id |-> id, name |-> name, tables |-> NewRepository,
     processing_engine_triggers |-> NewRepository,
     retention_period |-> Indefinite, deleted |-> FALSE, hard_delete_time |-> NONE]

\* database_count: the databases that are neither deleted nor internal
database_count(inner) ==
    Cardinality({db \in Resources(inner.databases) :
                    ~db.deleted /\ db.name # INTERNAL_DB_NAME})

-----------------------------------------------------------------------------
(* A database batch.  DatabaseSchema::new_if_updated_from_batch threads a    *)
(* Cow through the ops: `updated` says the Cow has become Owned.             *)

\* DatabaseCatalogOp::CreateDatabase
CreateDatabase(op, cow) ==
    IF op.database_id # cow.schema.id \/ op.database_name # cow.schema.name
    THEN Panic
    ELSE Ok(Owned([cow.schema EXCEPT !.retention_period =
                      IF op.retention_period = NONE THEN Indefinite
                      ELSE op.retention_period]))

\* The table a table op gave, put back into the schema: an error of the op
\* is the error of the batch, a table left Borrowed leaves the schema as it
\* was, and the update can fail only for a table that is not there.
PutTable(cow, table_id, r) ==
    CASE ~IsOk(r)       -> r
      [] ~r.val.updated -> Ok(cow)
      [] OTHER ->
          OwnedIfOk(MapResult(Update(cow.schema.tables, table_id, r.val.schema),
                              LAMBDA tables : [cow.schema EXCEPT !.tables = tables]))

\* insert_table_from_log of the table new_from_op built
InsertTableFromLog(cow, table_id, new_table) ==
    IF ~IsOk(new_table) THEN Panic
    ELSE OwnedIfOk(MapResult(ExpectOk(Insert(cow.schema.tables, table_id, new_table.val)),
                             LAMBDA tables : [cow.schema EXCEPT !.tables = tables]))

\* CreateTableLog::update_schema.  An existing table only takes the fields
\* it does not have yet; a new one is inserted, and the insert is expected
\* to succeed.
CreateTable(op, cow) ==
    IF ContainsId(cow.schema.tables, op.table_id)
    THEN PutTable(cow, op.table_id,
                  add_fields(GetById(cow.schema.tables, op.table_id),
                             op.field_definitions))
    ELSE InsertTableFromLog(cow, op.table_id, new_from_op(op))

\* update_schema of a TableUpdate: the table must exist (deleted or not)
UpdateTable(op, cow) ==
    IF ContainsId(cow.schema.tables, op.table_id)
    THEN PutTable(cow, op.table_id,
                  update_table(op, GetById(cow.schema.tables, op.table_id)))
    ELSE Err("TableNotFound")

SoftDeleteDatabaseRenamesAgain(op, cow) ==
    Ok(Owned([cow.schema EXCEPT
        !.name = make_new_name_using_deleted_time(op.database_name, op.deletion_time),
        !.deleted = TRUE,
        !.hard_delete_time = op.hard_deletion_time]))

\* SoftDeleteDatabaseLog::update_schema: always takes the Cow; renames only
\* the first time; always overwrites the hard-delete time.
SoftDeleteDatabase(op, cow) ==
    Ok(Owned([cow.schema EXCEPT
        !.name = IF cow.schema.deleted THEN @
                 ELSE make_new_name_using_deleted_time(op.database_name, op.deletion_time),
        !.deleted = TRUE,
        !.hard_delete_time = op.hard_deletion_time]))

\* SoftDeleteTableLog::update_schema: an unknown table is not an error and
\* not a change.
SoftDeleteTable(op, cow) ==
    LET tables == cow.schema.tables
        table  == GetById(tables, op.table_id)
        marked == [table EXCEPT
                     !.name = IF table.deleted THEN @
                              ELSE make_new_name_using_deleted_time(op.table_name,
                                                                    op.deletion_time),
                     !.deleted = TRUE,
                     !.hard_delete_time = op.hard_deletion_time]
        upd    == Update(tables, op.table_id, marked)
    IN  CASE ~ContainsId(tables, op.table_id) -> Ok(cow)
          [] ~IsOk(upd) -> Panic
          [] OTHER -> Ok(Owned([cow.schema EXCEPT !.tables = upd.val]))

\* SetRetentionPeriodLog and ClearRetentionPeriodLog
SetRetentionPeriod(op, cow) ==
    Ok(Owned([cow.schema EXCEPT !.retention_period = op.retention_period]))

ClearRetentionPeriod(op, cow) ==
    Ok(Owned([cow.schema EXCEPT !.retention_period = Indefinite]))

-----------------------------------------------------------------------------
(* Processing-engine triggers of a database *)

\* The schema with its triggers replaced, Owned
WithTriggers(cow, triggers) ==
    OwnedIfOk(MapResult(triggers,
        LAMBDA t : [cow.schema EXCEPT !.processing_engine_triggers = t]))

SetDisabledInverted(cow, trigger_name, disabled) ==
    LET trigger == GetByName(cow.schema.processing_engine_triggers, trigger_name)
    IN  CASE trigger = NONE -> Err("ProcessingEngineTriggerNotFound")
          [] trigger.disabled # disabled -> Ok(cow)
          [] OTHER ->
              WithTriggers(cow, ExpectOk(Update(cow.schema.processing_engine_triggers,
                                  trigger.trigger_id,
                                  [trigger EXCEPT !.disabled = disabled])))

\* EnableTrigger and DisableTrigger: the trigger is found by name; one that
\* is in the state asked for leaves the schema Borrowed
SetDisabled(cow, trigger_name, disabled) ==
    LET trigger == GetByName(cow.schema.processing_engine_triggers, trigger_name)
    IN  CASE trigger = NONE -> Err("ProcessingEngineTriggerNotFound")
          [] trigger.disabled = disabled -> Ok(cow)
          [] OTHER ->
              WithTriggers(cow, ExpectOk(Update(cow.schema.processing_engine_triggers,
                                  trigger.trigger_id,
                                  [trigger EXCEPT !.disabled = disabled])))

\* The TriggerDefinition of the log
NewTriggerDefinition(op) ==
    [trigger_id |-> op.trigger_id, name |-> op.trigger_name,
     definition |-> op.definition, disabled |-> op.disabled]

\* TriggerDefinition::update_schema: the same trigger again is no change, a
\* different one of its name an error
CreateTrigger(op, cow) ==
    LET current == GetByName(cow.schema.processing_engine_triggers, op.trigger_name)
    IN  CASE current = NONE ->
              WithTriggers(cow, ExpectOk(Insert(cow.schema.processing_engine_triggers,
                                  op.trigger_id, NewTriggerDefinition(op))))
          [] current = NewTriggerDefinition(op) -> Ok(cow)
          [] OTHER -> Err("ProcessingEngineTriggerExists")

\* DeleteTriggerLog::update_schema: an unknown trigger is no change, a
\* running one is deleted only by force
DeleteTrigger(op, cow) ==
    LET trigger == GetByName(cow.schema.processing_engine_triggers, op.trigger_name)
    IN  CASE trigger = NONE -> Ok(cow)
          [] ~trigger.disabled /\ ~op.force -> Err("ProcessingEngineTriggerRunning")
          [] OTHER ->
              WithTriggers(cow, Ok(Remove(cow.schema.processing_engine_triggers,
                                          trigger.trigger_id)))

\* DatabaseCatalogOp::update_schema
update_schema(op, cow) ==
    CASE op.op = "CreateDatabase"       -> CreateDatabase(op, cow)
      [] op.op = "CreateTable"          -> CreateTable(op, cow)
      [] op.op \in TableUpdateOps       -> UpdateTable(op, cow)
      [] op.op = "SoftDeleteDatabase"   -> SoftDeleteDatabase(op, cow)
      [] op.op = "SoftDeleteTable"      -> SoftDeleteTable(op, cow)
      [] op.op = "CreateTrigger"        -> CreateTrigger(op, cow)
      [] op.op = "DeleteTrigger"        -> DeleteTrigger(op, cow)
      [] op.op = "EnableTrigger"        -> SetDisabled(cow, op.trigger_name, FALSE)
      [] op.op = "DisableTrigger"       -> SetDisabled(cow, op.trigger_name, TRUE)
      [] op.op = "SetRetentionPeriod"   -> SetRetentionPeriod(op, cow)
      [] op.op = "ClearRetentionPeriod" -> ClearRetentionPeriod(op, cow)

\* The ops of a batch in order, stopping at the first error (the `?`).
new_if_updated_from_batch(db_schema, batch) ==
    SeqX!FoldLeft(LAMBDA acc, op : IF IsOk(acc) THEN update_schema(op, acc.val) ELSE acc,
                  Ok(Borrowed(db_schema)), batch.ops)

\* The Cow a batch returns for an unknown database is expected to be Owned
ExpectOwned(r) == IF IsOk(r) /\ ~r.val.updated THEN Panic ELSE r

\* new_from_batch: a batch for an unknown database must change it
new_from_batch(batch) ==
    ExpectOwned(new_if_updated_from_batch(
                    NewDatabaseSchema(batch.database_id, batch.database_name), batch))

-----------------------------------------------------------------------------
(* apply_*_batch: the result value is [inner, updated] *)

Unchanged(inner) == Ok([inner |-> inner, updated |-> FALSE])
Changed(inner)   == Ok([inner |-> inner, updated |-> TRUE])

\* What apply_database_batch does with the schema the ops gave: nothing if
\* they changed nothing, else the update or the insert, expected to succeed
PutDatabase(inner, database_id, r) ==
    LET put == IF ContainsId(inner.databases, database_id)
               THEN Update(inner.databases, database_id, r.val.schema)
               ELSE Insert(inner.databases, database_id, r.val.schema)
    IN  CASE ~IsOk(r)       -> r
          [] ~r.val.updated -> Unchanged(inner)
          [] ~IsOk(put)     -> Panic
          [] OTHER          -> Changed([inner EXCEPT !.databases = put.val])

\* apply_database_batch: update the database the batch names, or create it
apply_database_batch(inner, batch) ==
    PutDatabase(inner, batch.database_id,
                IF ContainsId(inner.databases, batch.database_id)
                THEN new_if_updated_from_batch(GetById(inner.databases, batch.database_id),
                                               batch)
                ELSE new_from_batch(batch))

\* One DeleteOp.  Removing what is not there is not a change.
DeleteDatabase(acc, op) ==
    IF ContainsId(acc.inner.databases, op.db_id)
    THEN Changed([acc.inner EXCEPT !.databases = Remove(@, op.db_id)])
    ELSE Ok(acc)

DeleteTable(acc, op) ==
    LET db  == GetById(acc.inner.databases, op.db_id)
        upd == Update(acc.inner.databases, op.db_id,
                      [db EXCEPT !.tables = Remove(@, op.table_id)])
    IN  CASE db = NONE \/ ~ContainsId(db.tables, op.table_id) -> Ok(acc)
          [] ~IsOk(upd) -> upd
          [] OTHER -> Changed([acc.inner EXCEPT !.databases = upd.val])

\* apply_delete_batch
apply_delete_batch(inner, batch) ==
    SeqX!FoldLeft(LAMBDA r, op :
                     CASE ~IsOk(r) -> r
                       [] op.op = "DeleteDatabase" -> DeleteDatabase(r.val, op)
                       [] op.op = "DeleteTable"    -> DeleteTable(r.val, op),
                  Unchanged(inner), batch.ops)

-----------------------------------------------------------------------------
(* Tokens.  TokenRepository keeps, beside the repository, a bi-map of token  *)
(* identifier and hash; authentication goes through it.                      *)

\* TokenInfo::new and set_permissions
NewTokenInfo(op, permissions) ==
    [id |-> op.token_id, name |-> op.name, hash |-> op.hash,
     permissions |-> permissions, updated_by |-> NONE]

\* hash_to_info: the identifier from the hash, the token from the identifier
hash_to_info(tokens, hash) ==
    LET id == BiGetByRight(tokens.hash_lookup_map, hash)
    IN  IF id = NONE THEN NONE ELSE GetById(tokens.repo, id)

\* add_token: the hash goes into the bi-map before the insert can fail, and
\* an insert that fails leaves it there: the error comes with the tokens as
\* they are then.
add_token(tokens, token_id, token_info) ==
    LET hashed == [tokens EXCEPT !.hash_lookup_map = BiInsert(@, token_id, token_info.hash)]
        ins    == Insert(tokens.repo, token_id, token_info)
    IN  IF IsOk(ins) THEN Ok([hashed EXCEPT !.repo = ins.val])
        ELSE [ins EXCEPT !.val = hashed]

UpdateHashKeepsLookup(tokens, token_id, hash) ==
    LET token_info == GetById(tokens.repo, token_id)
        upd == Update(tokens.repo, token_id,
                      [token_info EXCEPT !.hash = hash, !.updated_by = token_id])
    IN  CASE token_info = NONE -> Err("MissingAdminTokenToUpdate")
          [] ~IsOk(upd) -> upd
          [] OTHER -> Ok([tokens EXCEPT !.repo = upd.val])

\* update_admin_token_hash: the new hash in the token and in the bi-map,
\* where it takes the place of the old one
update_admin_token_hash(tokens, token_id, hash) ==
    LET token_info == GetById(tokens.repo, token_id)
        upd == Update(tokens.repo, token_id,
                      [token_info EXCEPT !.hash = hash, !.updated_by = token_id])
    IN  CASE token_info = NONE -> Err("MissingAdminTokenToUpdate")
          [] ~IsOk(upd) -> upd
          [] OTHER -> Ok([repo |-> upd.val,
                          hash_lookup_map |-> BiInsert(tokens.hash_lookup_map,
                                                       token_id, hash)])

\* delete_token: by name, from the repository and from the bi-map
delete_token(tokens, token_name) ==
    LET token_id == NameToId(tokens.repo, token_name)
    IN  IF token_id = NONE THEN Err("NotFound")
        ELSE Ok([repo |-> Remove(tokens.repo, token_id),
                 hash_lookup_map |-> BiRemoveByLeft(tokens.hash_lookup_map, token_id)])

\* One TokenCatalogOp on the token repository
ApplyTokenOp(tokens, op) ==
    CASE op.op = "CreateAdminToken" ->
            add_token(tokens, op.token_id, NewTokenInfo(op, "Wildcard"))
      [] op.op = "CreateScopedToken" ->
            add_token(tokens, op.token_id, NewTokenInfo(op, op.permissions))
      [] op.op = "RegenerateAdminToken" ->
            update_admin_token_hash(tokens, op.token_id, op.hash)
      [] op.op = "DeleteToken" ->
            delete_token(tokens, op.token_name)

\* A token op that succeeded is a change of the catalog
WithTokens(inner, tk) == IF IsOk(tk) THEN Changed([inner EXCEPT !.tokens = tk.val]) ELSE tk

\* apply_token_batch: every op that succeeds is a change; the first that
\* fails ends the batch.
apply_token_batch(inner, batch) ==
    SeqX!FoldLeft(LAMBDA r, op :
                     IF ~IsOk(r) THEN r
                     ELSE WithTokens(r.val.inner, ApplyTokenOp(r.val.inner.tokens, op)),
                  Unchanged(inner), batch.ops)

-----------------------------------------------------------------------------
(* Nodes.  A node is found by its name (node_id) and stored under the        *)
(* node_catalog_id of the batch.  Its modes and core count are left out.     *)

\* NodeDefinition as RegisterNode builds it
NewNodeDefinition(batch, op) ==
    [name |-> op.node_id, node_catalog_id |-> batch.node_catalog_id,
     instance_id |-> op.instance_id, state |-> "Running"]

RegisterNodeAlwaysInserts(nodes, batch, op) ==
    ExpectOk(Insert(nodes, batch.node_catalog_id, NewNodeDefinition(batch, op)))

\* NodeCatalogOp::RegisterNode: a known node must come back with the
\* instance it was registered with, and is running again; an unknown one
\* is inserted.
RegisterNode(nodes, batch, op) ==
    LET node == GetByName(nodes, op.node_id)
    IN  CASE node = NONE ->
                ExpectOk(Insert(nodes, batch.node_catalog_id, NewNodeDefinition(batch, op)))
          [] node.instance_id # op.instance_id -> Err("InvalidNodeRegistration")
          [] OTHER ->
                ExpectOk(Update(nodes, batch.node_catalog_id, [node EXCEPT !.state = "Running"]))

\* NodeCatalogOp::StopNode: the node of the batch's identifier must exist
StopNode(nodes, batch, op) ==
    LET node == GetById(nodes, batch.node_catalog_id)
    IN  IF node = NONE THEN Panic
        ELSE ExpectOk(Update(nodes, batch.node_catalog_id, [node EXCEPT !.state = "Stopped"]))

\* A node op that succeeded is a change of the catalog
WithNodes(inner, nodes) ==
    IF IsOk(nodes) THEN Changed([inner EXCEPT !.nodes = nodes.val]) ELSE nodes

\* apply_node_batch
apply_node_batch(inner, batch) ==
    SeqX!FoldLeft(LAMBDA r, op :
                     CASE ~IsOk(r) -> r
                       [] op.op = "RegisterNode" ->
                            WithNodes(r.val.inner, RegisterNode(r.val.inner.nodes, batch, op))
                       [] op.op = "StopNode" ->
                            WithNodes(r.val.inner, StopNode(r.val.inner.nodes, batch, op)),
                  Unchanged(inner), batch.ops)

-----------------------------------------------------------------------------
(* Generation durations *)

\* GenerationConfig::set_duration: a level is set once; setting it to what
\* it is changes nothing, to anything else is an error.
set_duration(config, level, duration) ==
    CASE level \notin DOMAIN config -> Ok([config |-> MapPut(config, level, duration),
                                           updated |-> TRUE])
      [] config[level] # duration   -> Err("CannotChangeGenerationDuration")
      [] OTHER                      -> Ok([config |-> config, updated |-> FALSE])

\* `updated |= self.generation_config.set_duration(..)?`
WithDuration(acc, set) ==
    IF IsOk(set)
    THEN Ok([inner   |-> [acc.inner EXCEPT !.generation_config = set.val.config],
             updated |-> acc.updated \/ set.val.updated])
    ELSE set

\* apply_generation_batch
apply_generation_batch(inner, batch) ==
    SeqX!FoldLeft(LAMBDA r, op :
                     IF ~IsOk(r) THEN r
                     ELSE WithDuration(r.val, set_duration(r.val.inner.generation_config,
                                                           op.level, op.duration)),
                  Unchanged(inner), batch.ops)

-----------------------------------------------------------------------------

\* apply_catalog_batch: the batch by kind; the sequence is taken only when
\* the batch changed something.
WithSequence(r, sequence) ==
    IF IsOk(r) /\ r.val.updated
    THEN Changed([r.val.inner EXCEPT !.sequence = sequence])
    ELSE r

apply_catalog_batch(inner, batch, sequence) ==
    WithSequence(CASE batch.kind = "Node"       -> apply_node_batch(inner, batch)
                   [] batch.kind = "Database"   -> apply_database_batch(inner, batch)
                   [] batch.kind = "Token"      -> apply_token_batch(inner, batch)
                   [] batch.kind = "Delete"     -> apply_delete_batch(inner, batch)
                   [] batch.kind = "Generation" -> apply_generation_batch(inner, batch),
                 sequence)

-----------------------------------------------------------------------------
(* Reading the catalog: deletion status and retention.  `now` is the time   *)
(* provider's reading.                                                       *)

\* `as u64` of a wider unsigned number, `as i64` of a u64, and the
\* subtraction of two i64 as a release build does it
AsU64(x) == x % 2^TimeBits
AsI64(x) == IF AsU64(x) >= 2^(TimeBits - 1) THEN AsU64(x) - 2^TimeBits ELSE AsU64(x)
WrappingSub(x, y) == AsI64(x - y)

\* DeletionStatus of a deleted resource: Hard, with the time since, once
\* the hard-delete time has come; Soft before, and without such a time
StatusOfDeleted(resource, now) ==
    IF resource.hard_delete_time # NONE /\ now >= resource.hard_delete_time
    THEN [status |-> "Hard", since |-> now - resource.hard_delete_time]
    ELSE [status |-> "Soft"]

\* Catalog::database_deletion_status: NONE for a database that is there
\* and not deleted
database_deletion_status(inner, db_id, now) ==
    LET db_schema == GetById(inner.databases, db_id)
    IN  CASE db_schema = NONE  -> [status |-> "NotFound"]
          [] db_schema.deleted -> StatusOfDeleted(db_schema, now)
          [] OTHER             -> NONE

\* Catalog::table_deletion_status: the status of the database if it has
\* one, else that of the table
table_deletion_status(inner, db_id, table_id, now) ==
    LET db_status == database_deletion_status(inner, db_id, now)
        table_def == GetById(GetById(inner.databases, db_id).tables, table_id)
    IN  CASE db_status # NONE  -> db_status
          [] table_def = NONE  -> [status |-> "NotFound"]
          [] table_def.deleted -> StatusOfDeleted(table_def, now)
          [] OTHER             -> NONE

\* DatabaseSchema::get_retention_period_cutoff_ts_nanos
get_retention_period_cutoff_ts_nanos(db_schema, now) ==
    IF db_schema.retention_period = Indefinite THEN NONE
    ELSE WrappingSub(now, AsI64(AsU64(db_schema.retention_period)))

\* Catalog::get_retention_period_cutoff_map: the cut-off of every table of
\* every database that has a retention period
get_retention_period_cutoff_map(inner, now) ==
    LET keys == {<<db_schema.id, table_def.table_id>> :
                    <<db_schema, table_def>> \in
                        UNION {{db} \X Resources(db.tables) :
                                 db \in {d \in Resources(inner.databases) :
                                            d.retention_period # Indefinite}}}
    IN  [key \in keys |->
            get_retention_period_cutoff_ts_nanos(GetById(inner.databases, key[1]), now)]

-----------------------------------------------------------------------------
(* Reading the catalog: what it lists.  A Vec the code collects from a map   *)
(* is the set of its elements; the order of a listing is the order of the    *)
(* identifiers and is left out.                                              *)

\* IfNotDeleted::if_not_deleted of an Option: NONE for what is not there
\* and for what is deleted
if_not_deleted(resource) ==
    IF resource # NONE /\ ~resource.deleted THEN resource ELSE NONE

\* Catalog::db_schema and Catalog::db_exists: by name through the name map,
\* by identifier in the repository; neither asks whether it is deleted
db_schema(inner, db_name) == GetByName(inner.databases, db_name)
db_exists(inner, db_id)   == GetById(inner.databases, db_id) # NONE

\* Catalog::db_names: the names of the databases that are not deleted
db_names(inner) == {db.name : db \in {d \in Resources(inner.databases) : ~d.deleted}}

\* Catalog::list_db_schema: every database, the deleted ones too
list_db_schema(inner) == Resources(inner.databases)

\* Catalog::active_triggers: database and name of every trigger that is not
\* disabled, whether its database is deleted or not
active_triggers(inner) ==
    UNION {{<<db.name, trigger.name>> :
               trigger \in {t \in Resources(db.processing_engine_triggers) : ~t.disabled}} :
           db \in Resources(inner.databases)}

\* Catalog::get_tokens
get_tokens(inner) == Resources(inner.tokens.repo)

\* DatabaseSchema::list_last_caches and list_distinct_caches: the caches of
\* the tables that are not deleted
ListCaches(db, caches) ==
    UNION {Resources(table[caches]) : table \in {t \in Resources(db.tables) : ~t.deleted}}
list_last_caches(db)     == ListCaches(db, "last_caches")
list_distinct_caches(db) == ListCaches(db, "distinct_caches")

\* DatabaseSchema::create_new_empty_table: an empty table under the
\* identifier the cursor hands out; the insert is that of the repository
create_new_empty_table(db, table_name) ==
    LET table_def == new_empty(NextIdOf(db.tables), table_name)
    IN  IF ~IsOk(table_def) THEN table_def
        ELSE MapResult(Insert(BumpNextId(db.tables), NextIdOf(db.tables), table_def.val),
                       LAMBDA tables : [db        |-> [db EXCEPT !.tables = tables],
                                        table_def |-> table_def.val])

\* DatabaseSchema::table_names and table_exists: deleted tables included
table_names(db)            == {table.name : table \in Resources(db.tables)}
table_exists(db, table_id) == GetById(db.tables, table_id) # NONE

\* The variants of TriggerSpecificationDefinition as trigger_count_by_type
\* groups them: WAL writes of one table, of all tables, schedules, requests
TriggerGroups ==
    <<{"SingleTableWalWrite"}, {"AllTablesWalWrite"}, {"Schedule", "Every"}, {"RequestPath"}>>

\* DatabaseSchema::trigger_count_by_type: the triggers of each group,
\* disabled ones and those of a deleted database included
trigger_count_by_type(db) ==
    [group \in DOMAIN TriggerGroups |->
        Cardinality({trigger \in Resources(db.processing_engine_triggers) :
                        trigger.definition.trigger \in TriggerGroups[group]})]

\* InnerCatalog::num_triggers: the counts of all databases, added up
num_triggers(inner) ==
    [group \in DOMAIN TriggerGroups |->
        SeqX!MapThenSumSet(LAMBDA db : trigger_count_by_type(db)[group],
                           Resources(inner.databases))]

\* NodeDefinition::is_running
is_running(node) == node.state = "Running"

\* GenerationConfig::duration_for_level
duration_for_level(config, level) ==
    IF level \in DOMAIN config THEN config[level] ELSE NONE

\* Catalog::get_generation_duration and list_generation_durations: what the
\* compactor and the write buffer read of the generation configuration
get_generation_duration(inner, level) == duration_for_level(inner.generation_config, level)
list_generation_durations(inner) ==
    {<<level, inner.generation_config[level]>> : level \in DOMAIN inner.generation_config}

\* TokenProvider::get_token: the token the authorizer finds for a hash
get_token(inner, token_hash) == hash_to_info(inner.tokens, token_hash)

=============================================================================
