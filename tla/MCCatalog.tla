----------------------------- MODULE MCCatalog -----------------------------
(***************************************************************************)
(* Catalog for TLC: one database name and one table name besides the       *)
(* internal database, five column names, and the requests on them.         *)
(***************************************************************************)
EXTENDS Catalog, TLC

CONSTANTS a, t, n, internal, admin, f1, tag1, tag2, tag3, time

\* No action tells one writer from another.
WriterSymmetry == Permutations(Writers)

MCInternalDbName == <<internal>>
MCOperatorTokenName == <<admin>>

\* The column names as a BTreeMap orders them
MCColumnOrder == <<f1, tag1, tag2, tag3, time>>

Column(name, data_type) == [name |-> name, data_type |-> data_type]

\* The columns of the first write to the table "t"
MCColumns == <<Column(tag1, "Tag"), Column(time, "Timestamp")>>

Default == [kind |-> "Default"]
Never   == [kind |-> "Never"]

\* The database "a" gets identifier 1 or later; identifier 0 is _internal.
MCRequests ==
    {[kind |-> "create_database", name |-> <<a>>],
     [kind |-> "soft_delete_database", name |-> <<a>>, hard |-> Default],
     [kind |-> "soft_delete_database", name |-> <<a, 0>>, hard |-> Never],
     [kind |-> "soft_delete_database", name |-> <<a, 0>>, hard |-> Default],
     [kind |-> "create_table", db |-> <<a>>, name |-> <<t>>, columns |-> MCColumns],
     [kind |-> "soft_delete_table", db |-> <<a>>, name |-> <<t>>, hard |-> Never]}
    \cup {[kind |-> "set_retention_period", db |-> <<a>>, retention_period |-> p] :
              p \in {1}}
    \cup {[kind |-> "hard_delete_database", db_id |-> id] : id \in 1..2}
    \cup {[kind |-> "hard_delete_table", db_id |-> id, table_id |-> 0] : id \in 1..2}

\* The requests of a server that starts and stops under the node name "n".
MCNodeRequests ==
    {[kind |-> "register_node", node_id |-> <<n>>],
     [kind |-> "update_node_state_stopped", node_id |-> <<n>>]}

\* The requests on tokens.
MCTokenRequests ==
    {[kind |-> "create_admin_token", regenerate |-> r] : r \in BOOLEAN}
    \cup {[kind |-> "create_named_admin_token_with_permission", name |-> <<a>>],
          [kind |-> "create_scoped_token", name |-> <<t>>, permissions |-> "read"],
          [kind |-> "delete_token", name |-> <<a>>],
          [kind |-> "delete_token", name |-> <<admin>>]}

\* A database with a table, given a retention period, and the table deleted
MCRetentionRequests ==
    {[kind |-> "create_database", name |-> <<a>>],
     [kind |-> "create_table", db |-> <<a>>, name |-> <<t>>, columns |-> MCColumns],
     [kind |-> "soft_delete_table", db |-> <<a>>, name |-> <<t>>, hard |-> Never]}
    \cup {[kind |-> "set_retention_period", db |-> <<a>>, retention_period |-> p] :
              p \in {1, 2^TimeBits - 1}}

\* The requests on the database alone, for the run on deleted names.
MCDatabaseRequests == {req \in MCRequests : "name" \in DOMAIN req \/ req.kind = "hard_delete_database"}

-----------------------------------------------------------------------------
(* The run on the schema starts where a server is after its first writes:  *)
(* the database "a" and its table "t", with a field and a tag and no time  *)
(* column yet, each created by its request.                                *)

MCSchemaSetup ==
    <<[kind |-> "create_database", name |-> <<a>>],
      [kind |-> "create_table", db |-> <<a>>, name |-> <<t>>,
       columns |-> <<Column(f1, "String"), Column(tag1, "Tag")>>]>>

\* A composed batch, logged and applied
Committed(st, r) ==
    [inner |-> apply_ordered_catalog_batch(
                   r.inner, Ordered(r.batch, r.inner.sequence + 1)).val,
     log   |-> MapPut(st.log, r.inner.sequence + 1, r.batch)]

MCSchemaStart ==
    SeqX!FoldLeft(LAMBDA st, req : Committed(st, Compose(st.inner, req, 0, NONE).val),
                  Committed([log |-> EmptyMap], InternalDbBatch),
                  MCSchemaSetup)

MCSchemaInit ==
    /\ store = [EmptyStore EXCEPT !.log = MCSchemaStart.log]
    /\ inner = MCSchemaStart.inner
    /\ permit = [holder |-> Free, next |-> 0]
    /\ pending = {}
    /\ task = [w \in Writers |-> Idle]
    /\ clock = 0
    /\ entropy = 0

MCSchemaSpec == MCSchemaInit /\ [][Next]_vars

\* Writes that bring columns, the requests on caches and triggers, and
\* what a server is given when it is set up: the duration of a generation
\* and the operator token
MCSchemaRequests ==
    {[kind |-> "add_columns", db |-> <<a>>, table |-> <<t>>, columns |-> columns] :
        columns \in {<<Column(time, "Timestamp")>>,
                     <<Column(tag2, "Tag"), Column(f1, "String")>>,
                     <<Column(tag3, "Tag"), Column(time, "Timestamp")>>,
                     <<Column(f1, "Int")>>}}
    \cup {[kind |-> "create_cache", db |-> <<a>>, table |-> <<t>>, caches |-> "last_caches",
           name |-> a, config |-> 1],
          [kind |-> "delete_cache", db |-> <<a>>, table |-> <<t>>, caches |-> "last_caches",
           name |-> a],
          [kind |-> "create_cache", db |-> <<a>>, table |-> <<t>>,
           caches |-> "distinct_caches", name |-> a, config |-> 1],
          [kind |-> "create_trigger", db |-> <<a>>, name |-> a,
           definition |-> [plugin_filename |-> 1, trigger |-> "Every"], disabled |-> FALSE]}
    \cup {[kind |-> "set_trigger_disabled", db |-> <<a>>, name |-> a, disabled |-> d] :
             d \in BOOLEAN}
    \cup {[kind |-> "delete_trigger", db |-> <<a>>, name |-> a, force |-> force] :
             force \in BOOLEAN}
    \cup {[kind |-> "set_gen_duration", level |-> 1, duration |-> d] : d \in 1..2}
    \cup {[kind |-> "create_admin_token", regenerate |-> FALSE]}

=============================================================================
