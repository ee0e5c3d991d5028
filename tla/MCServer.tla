------------------------------ MODULE MCServer ------------------------------
(***************************************************************************)
(* Server for TLC: two connections, and clients that run the commands of   *)
(* module Cli or send requests of their own to create databases, tables    *)
(* and caches, to write and to query, with no token, with a token a client *)
(* was sent or with one that was never issued.                             *)
(***************************************************************************)
EXTENDS Server, Cli, TLC

CONSTANTS a, t, internal, admin, tag1, time

MCInternalDbName    == <<internal>>
MCOperatorTokenName == <<admin>>
MCColumnOrder       == <<tag1, time>>

\* No action tells one connection from another.
ConnectionSymmetry == Permutations(Writers)

WithLines(req, lp) == [req EXCEPT !.body = [NoBody EXCEPT !.wire = 1, !.lp = lp]]

\* The database names: "db", "d b" and, for the v1 write, "db/rp"
Db      == <<"alnum", "alnum">>
Spaced  == <<"alnum", "other", "alnum">>
DbRp    == <<"alnum", "slash", "alnum">>

\* NamespaceName::new is code of the crate data_types: it takes a name of 1
\* to 64 characters, each a letter, a digit, '_', '-' or '/'.
MCIsNamespaceName(name) ==
    /\ Len(name) \in 1..64
    /\ \A i \in DOMAIN name : name[i] \in {"alnum", "underscore", "hyphen", "slash"}

\* A line of the table "t" with a tag and a time
Lines ==
    [table |-> t, invalid_lines |-> FALSE, limit_hit |-> FALSE,
     columns |-> <<[name |-> tag1, data_type |-> "Tag"],
                   [name |-> time, data_type |-> "Timestamp"]>>]

\* The arguments of `influxdb3 create token --admin ...` and of
\* `influxdb3 create token ...`
AdminMatches(args) ==
    [defined |-> ScopedArguments, args |-> <<>>,
     subcommand |-> [defined |-> AdminArguments, args |-> Given(args), subcommand |-> NONE]]

Matches(args) == [defined |-> ScopedArguments, args |-> Given(args), subcommand |-> NONE]

\* What the user types when asked: "yes", or nothing
Typed == {<<"yes", "newline">>, <<"newline">>}

\* --permissions db:*:read,write as clap hands it on, cut at the comma
ReadWrite == <<<<"db", <<"star">>, <<"read">>>>, <<"db", <<"star">>, <<"write">>>>>>

\* The same as its documentation writes it: the second piece has one part
AsDocumented == <<<<"db", <<"star">>, <<"read">>>>, <<<<"write">>>>>>

\* `influxdb3 create token`: anyone asks for the operator token and for a
\* new one; who holds a token creates an admin token and a token with
\* permissions, also without --admin.
CreateTokenCommands(anyone, holders) ==
    {CreateToken(AdminMatches([token |-> NONE]), typed) : typed \in Typed}
    \cup {CreateToken(AdminMatches([token |-> token, regenerate |-> TRUE]), typed) :
             token \in anyone, typed \in Typed}
    \cup {CreateToken(matches, <<>>) :
             matches \in UNION {{AdminMatches([token |-> token, name |-> a]),
                                 AdminMatches([token |-> token, name |-> a, regenerate |-> TRUE]),
                                 Matches([token |-> token, name |-> a]),
                                 Matches([token |-> token, permissions |-> ReadWrite]),
                                 Matches([token |-> token, name |-> t, permissions |-> ReadWrite]),
                                 Matches([token |-> token, name |-> t,
                                          permissions |-> AsDocumented])} :
                                token \in holders}}

\* `influxdb3 delete`: who holds a token deletes tokens; anyone deletes the
\* database "db" for good at a time they name.
DeleteCommands(anyone, holders) ==
    {command([cmd |-> [kind |-> "Token", token_name |-> name, auth_token |-> token]],
             typed) : token \in holders, name \in {a, admin}, typed \in Typed}
    \cup {command([cmd |-> [kind |-> "Database", database_name |-> Db,
                            hard_delete |-> [lowercase |-> "1970", rfc3339 |-> 0],
                            auth_token |-> token]], typed) :
             token \in anyone, typed \in Typed}

\* What clients send without the command line: the delete of the operator
\* token, which `influxdb3 delete token` keeps to itself
TokenRequests(holders) ==
    {Request("DELETE", API_V3_CONFIGURE_TOKEN, Bearer(token), [token_name |-> admin]) :
        token \in holders}

Authorization(token) == IF token = NONE THEN NONE ELSE Bearer(token)

\* A request to create a database by the v3 API
CreateDatabaseRequest(token, db) ==
    WithJson(Request("POST", API_V3_CONFIGURE_DATABASE, Authorization(token), NONE),
             [db |-> db])

\* What clients send to create databases, by the v3 API and by a v1 write
\* with its token, if it has one, in the query string
DatabaseRequests(anyone, names, v1_names) ==
    {CreateDatabaseRequest(token, db) : token \in anyone, db \in names}
    \cup {WithLines(Request("POST", API_LEGACY_WRITE, NONE,
                            Given([db |-> db, p |-> token])), Lines) :
             token \in anyone, db \in v1_names}

\* What clients without a token send about tables: the table "t" of the
\* database "db" with a tag, and a last cache of the table "t" of "db/rp",
\* which is there once a v1 write has brought it
TableRequests ==
    {WithJson(Request("POST", API_V3_CONFIGURE_TABLE, NONE, NONE),
              [db |-> Db, table |-> t, tags |-> <<tag1>>, fields |-> <<>>]),
     WithJson(Request("POST", API_V3_CONFIGURE_LAST_CACHE, NONE, NONE),
              [db |-> DbRp, table |-> t, name |-> a])}

\* Requests no handler takes to the catalog: the health of the server, a
\* preflight, and queries.  In SQL: in JSON with a token a client was sent,
\* as a table with one that was never issued, and with none in CSV and as
\* a parquet file.  In InfluxQL, with none: SHOW DATABASES of no database
\* in JSON lines, and a SELECT from another database than the request
\* names.
OtherRequests(holders) ==
    {Request("GET", API_V3_HEALTH, NONE, NONE),
     Request("OPTIONS", API_V3_WRITE, NONE, NONE),
     Request("GET", API_V3_QUERY_SQL, Bearer(Forged), [db |-> Db, q |-> 1, format |-> "pretty"]),
     Request("GET", API_V3_QUERY_INFLUXQL, NONE,
             [q |-> <<Statement("show_databases", NONE)>>, format |-> "jsonl"]),
     Request("GET", API_V3_QUERY_INFLUXQL, NONE,
             [db |-> Db, q |-> <<Statement("select", Spaced)>>])}
    \cup {Request("GET", API_V3_QUERY_SQL, Bearer(token), [db |-> Db, q |-> 1]) :
             token \in holders}
    \cup {Request("GET", API_V3_QUERY_SQL, NONE, [db |-> Db, q |-> 1, format |-> format]) :
             format \in {"csv", "parquet"}}

\* The streams behind the answers to queries: up to three batches of no
\* row, of one and of two, one that no writer takes, and a failure
MCQueryStreams ==
    LET polls == {Batch(0, TRUE), Batch(1, TRUE), Batch(2, TRUE), Batch(1, FALSE), Failed}
    IN  UNION {[1..n -> polls] : n \in 0..3}

Holders(tokens) == tokens \ {Forged}
Anyone(tokens)  == {NONE} \cup Holders(tokens)

RequestsOf(anyone, holders) ==
    Sent(CreateTokenCommands(anyone, holders) \cup DeleteCommands(anyone, holders))
        \cup TokenRequests(holders)
        \cup DatabaseRequests(anyone, {Db}, {DbRp})
        \cup DatabaseRequests({NONE}, {Spaced}, {Spaced})
        \cup TableRequests
        \cup OtherRequests(holders)

MCHttpRequests(tokens) == RequestsOf(Anyone(tokens), Holders(tokens))

MCPathsWithoutAuthz == {API_V3_HEALTH}

=============================================================================
