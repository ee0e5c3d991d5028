--------------------------- MODULE TableDefinition ---------------------------
(***************************************************************************)
(* A table of the catalog (TableDefinition of                              *)
(* influxdb3_catalog/src/catalog.rs): its columns, its series key and sort *)
(* key, its last and distinct caches, and the table updates of the log     *)
(* (AddFieldsLog, the cache definitions and their deletions).              *)
(*                                                                         *)
(* Everything is a constant operator from a table to a result.  A column   *)
(* type is "Tag", "Timestamp" or the name of a field type; the Arrow       *)
(* schema, which is the columns in the order of their names, is left out;  *)
(* a cache is an identifier, a name and an opaque configuration.           *)
(***************************************************************************)
EXTENDS Repository, Integers, Sequences

SeqX == INSTANCE SequencesExt

CONSTANTS
    TIME_COLUMN_NAME,   \* "time"
    ColumnOrder         \* the column names in the order of a BTreeMap

\* A Cow and whether it has become Owned
Borrowed(schema) == [schema |-> schema, updated |-> FALSE]
Owned(schema)    == [schema |-> schema, updated |-> TRUE]

\* .expect() and assert!(.. .is_ok()) on a result
ExpectOk(r) == IF IsOk(r) THEN r ELSE Panic

\* What is Owned once a step on it has succeeded; and a result's value
\* changed, its error kept
OwnedIfOk(r)    == IF IsOk(r) THEN Ok(Owned(r.val)) ELSE r
MapResult(r, f(_)) == IF IsOk(r) THEN Ok(f(r.val)) ELSE r

-----------------------------------------------------------------------------
(* Columns *)

ColumnDefinition(id, name, data_type, nullable) ==
    [id |-> id, name |-> name, data_type |-> data_type, nullable |-> nullable]

\* The values of a BTreeMap keyed by column name, in its order
Position(name) == SeqX!SelectInSeq(ColumnOrder, LAMBDA n : n = name)
NameBefore(c1, c2) == Position(c1.name) < Position(c2.name)

\* A repository made by inserting the columns in the order of their names,
\* every insert expected to succeed
ColumnsRepository(cols) ==
    SeqX!FoldLeft(LAMBDA R, col : IF IsOk(R) THEN ExpectOk(Insert(R.val, col.id, col)) ELSE R,
                  Ok(NewRepository), SeqX!SetToSortSeq(cols, NameBefore))

\* make_sort_key: the series key, then time if the table has the column
make_sort_key(series_key_names, add_time) ==
    IF add_time THEN Append(series_key_names, TIME_COLUMN_NAME) ELSE series_key_names

\* TableDefinition::new once the columns are in their repository: a series
\* key that names no column is a panic
NewTableWith(table_id, table_name, series_key, cols) ==
    CASE ~IsOk(cols) -> Panic
      [] \E i \in DOMAIN series_key : ~ContainsId(cols.val, series_key[i]) -> Panic
      [] OTHER ->
          Ok([table_id |-> table_id, name |-> table_name, columns |-> cols.val,
              series_key |-> series_key,
              series_key_names |-> [i \in DOMAIN series_key |->
                                       IdToName(cols.val, series_key[i])],
              sort_key |-> make_sort_key([i \in DOMAIN series_key |->
                                             IdToName(cols.val, series_key[i])],
                                         ContainsName(cols.val, TIME_COLUMN_NAME)),
              last_caches |-> NewRepository, distinct_caches |-> NewRepository,
              deleted |-> FALSE, hard_delete_time |-> NONE])

\* TableDefinition::new.  Of two columns of one name the later one stays;
\* only a timestamp is not nullable.
NewTableDefinition(table_id, table_name, columns, series_key) ==
    NewTableWith(table_id, table_name, series_key,
        ColumnsRepository(
            {ColumnDefinition(columns[i].id, columns[i].name, columns[i].data_type,
                              columns[i].data_type # "Timestamp") :
                i \in {i \in DOMAIN columns :
                         \A j \in DOMAIN columns :
                            j > i => columns[j].name # columns[i].name}}))

\* TableDefinition::new_from_op: the table of a CreateTableLog
new_from_op(op) ==
    NewTableDefinition(op.table_id, op.table_name, op.field_definitions, op.key)

AddColumnTagsOnly(acc, c) ==
    LET joins == c.data_type = "Tag" /\ c.id \notin SeqX!ToSet(acc.series_key)
    IN  [cols   |-> acc.cols \cup {ColumnDefinition(c.id, c.name, c.data_type,
                                                    c.name # TIME_COLUMN_NAME)},
         exists |-> acc.exists \/ \E d \in acc.cols : d.name = c.name,
         series_key       |-> IF joins THEN Append(acc.series_key, c.id)
                              ELSE acc.series_key,
         series_key_names |-> IF joins THEN Append(acc.series_key_names, c.name)
                              ELSE acc.series_key_names,
         sort_key_changed |-> acc.sort_key_changed \/ joins]

\* One turn of the loop of add_columns: the column joins the map (a name
\* that is there already fails the assert; only "time" is not nullable), a
\* new tag joins the series key, a new tag or timestamp asks for a new sort
\* key.
AddColumn(acc, c) ==
    LET joins == c.data_type = "Tag" /\ c.id \notin SeqX!ToSet(acc.series_key)
    IN  [cols   |-> acc.cols \cup {ColumnDefinition(c.id, c.name, c.data_type,
                                                    c.name # TIME_COLUMN_NAME)},
         exists |-> acc.exists \/ \E d \in acc.cols : d.name = c.name,
         series_key       |-> IF joins THEN Append(acc.series_key, c.id)
                              ELSE acc.series_key,
         series_key_names |-> IF joins THEN Append(acc.series_key_names, c.name)
                              ELSE acc.series_key_names,
         sort_key_changed |-> \/ acc.sort_key_changed
                              \/ /\ c.data_type \in {"Tag", "Timestamp"}
                                 /\ c.id \notin SeqX!ToSet(acc.series_key)]

\* add_columns after its loop: the repository is built anew from the map,
\* the sort key only if the loop asked for it
Rebuilt(table, done, new_columns) ==
    IF done.exists \/ ~IsOk(new_columns) THEN Panic
    ELSE Ok([table EXCEPT
                !.columns = new_columns.val,
                !.series_key = done.series_key,
                !.series_key_names = done.series_key_names,
                !.sort_key = IF done.sort_key_changed
                             THEN make_sort_key(done.series_key_names,
                                     ContainsName(new_columns.val, TIME_COLUMN_NAME))
                             ELSE @])

AfterLoop(table, done) == Rebuilt(table, done, ColumnsRepository(done.cols))

\* TableDefinition::add_columns
add_columns(table, columns) ==
    AfterLoop(table,
              SeqX!FoldLeft(AddColumn,
                            [cols |-> Resources(table.columns), exists |-> FALSE,
                             series_key |-> table.series_key,
                             series_key_names |-> table.series_key_names,
                             sort_key_changed |-> FALSE],
                            columns))


\* TableDefinition::add_fields (and check_and_add_new_fields): a field
\* whose identifier is known must have the type on record and is otherwise
\* passed over; the others are added, if there are any.
add_fields(table, fields) ==
    CASE \E i \in DOMAIN fields :
            /\ ContainsId(table.columns, fields[i].id)
            /\ GetById(table.columns, fields[i].id).data_type # fields[i].data_type
            -> Err("FieldTypeMismatch")
      [] \A i \in DOMAIN fields : ContainsId(table.columns, fields[i].id)
            -> Ok(Borrowed(table))
      [] OTHER ->
            OwnedIfOk(add_columns(table,
                        SelectSeq(fields, LAMBDA f : ~ContainsId(table.columns, f.id))))

\* TableDefinition::new_empty: a table without columns, expected to be one
new_empty(table_id, table_name) ==
    ExpectOk(NewTableDefinition(table_id, table_name, <<>>, <<>>))

\* TableDefinition::column_exists
column_exists(table, column) == ContainsName(table.columns, column)

\* TableDefinition::add_column: the column is added under the identifier
\* the cursor hands out, which is returned with the table
add_column(table, column_name, column_type) ==
    MapResult(add_columns([table EXCEPT !.columns = BumpNextId(@)],
                          <<[id |-> NextIdOf(table.columns), name |-> column_name,
                             data_type |-> column_type]>>),
              LAMBDA added : [table |-> added, col_id |-> NextIdOf(table.columns)])

\* index_column_ids and num_tag_columns
index_column_ids(table) ==
    {id \in DOMAIN table.columns.repo : table.columns.repo[id].data_type = "Tag"}

-----------------------------------------------------------------------------
(* Caches.  `caches` is "last_caches" or "distinct_caches". *)

\* LastCacheDefinition and DistinctCacheDefinition as table updates: the
\* insert, with its error
CreateCache(caches, op, table) ==
    OwnedIfOk(MapResult(Insert(table[caches], op.id,
                               [id |-> op.id, name |-> op.name,
                                table_id |-> op.table_id, config |-> op.config]),
                        LAMBDA inserted : [table EXCEPT ![caches] = inserted]))

\* DeleteLastCacheLog and DeleteDistinctCacheLog: the table is taken and the
\* cache removed, there or not
DeleteCache(caches, op, table) ==
    Ok(Owned([table EXCEPT ![caches] = Remove(@, op.id)]))

\* TableUpdate::update_table of the op
update_table(op, table) ==
    CASE op.op = "AddFields"           -> add_fields(table, op.field_definitions)
      [] op.op = "CreateLastCache"     -> CreateCache("last_caches", op, table)
      [] op.op = "DeleteLastCache"     -> DeleteCache("last_caches", op, table)
      [] op.op = "CreateDistinctCache" -> CreateCache("distinct_caches", op, table)
      [] op.op = "DeleteDistinctCache" -> DeleteCache("distinct_caches", op, table)

TableUpdateOps ==
    {"AddFields", "CreateLastCache", "DeleteLastCache",
     "CreateDistinctCache", "DeleteDistinctCache"}

=============================================================================
