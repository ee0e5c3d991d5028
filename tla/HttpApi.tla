------------------------------ MODULE HttpApi ------------------------------
(***************************************************************************)
(* The HTTP API of influxdb3_server/src/http.rs, as far as it is functions *)
(* of a request: the check of a database name, the Authorization header,   *)
(* the reading of query string and body, the routing table, what every     *)
(* handler asks of the catalog, and the status code of every error.        *)
(* Module Server runs these against the catalog.                           *)
(*                                                                         *)
(* A request is a record                                                   *)
(*    method         "GET", "POST", "PUT", "DELETE" or "OPTIONS"           *)
(*    path           the segments of the path                              *)
(*    authorization  the Authorization header, or NONE                     *)
(*    content_type   the Content-Type header, or NONE                      *)
(*    query          the parameters of the query string, or NONE           *)
(*    body           what the client sends as body                         *)
(* A header is a record with `visible` (HeaderValue::to_str succeeds) and  *)
(* what the handler reads from its text.  A string whose characters are    *)
(* looked at is the sequence of the classes of its grapheme clusters.      *)
(***************************************************************************)
EXTENDS InnerCatalog

LOCAL SeqH == INSTANCE SequencesExt
LOCAL SetH == INSTANCE FiniteSetsExt

CONSTANTS
    max_request_bytes,          \* HttpApi::max_request_bytes
    IsNamespaceName(_)          \* the names NamespaceName::new of data_types takes

\* An Error of the API: its variant and, where the answer depends on it, what
\* the variant holds
Error(variant, of) == [variant |-> variant, of |-> of]

\* A handler ends with an error that holds nothing the answer depends on
Fail(variant) == Err(variant)

-----------------------------------------------------------------------------
(* Database names *)

\* What validate_db_name tells apart in a grapheme cluster: an ASCII letter
\* or digit, '_', '-', '/', '*', another single byte, more than one byte.
Graphemes == {"alnum", "underscore", "hyphen", "slash", "star", "other", "wide"}

V1_NAMESPACE_RP_SEPARATOR == "slash"

NameStart == [is_first_char |-> TRUE, rp_seperator_found |-> FALSE, last_char |-> NONE]

ScanWithoutCharCheck(scan, grapheme, accept_rp) ==
    CASE grapheme = "wide" -> Err("InvalidChar")
      [] scan.is_first_char ->
            IF grapheme # "alnum" THEN Err("InvalidStartChar")
            ELSE Ok([scan EXCEPT !.is_first_char = FALSE, !.last_char = grapheme])
      [] accept_rp /\ grapheme = V1_NAMESPACE_RP_SEPARATOR ->
            IF scan.rp_seperator_found THEN Err("InvalidRetentionPolicy")
            ELSE Ok([scan EXCEPT !.rp_seperator_found = TRUE, !.last_char = grapheme])
      [] OTHER -> Ok([scan EXCEPT !.last_char = grapheme])

\* One turn of the loop of validate_db_name
Scan(scan, grapheme, accept_rp) ==
    CASE grapheme = "wide" -> Err("InvalidChar")
      [] scan.is_first_char ->
            IF grapheme # "alnum" THEN Err("InvalidStartChar")
            ELSE Ok([scan EXCEPT !.is_first_char = FALSE, !.last_char = grapheme])
      [] accept_rp /\ grapheme = V1_NAMESPACE_RP_SEPARATOR ->
            IF scan.rp_seperator_found THEN Err("InvalidRetentionPolicy")
            ELSE Ok([scan EXCEPT !.rp_seperator_found = TRUE, !.last_char = grapheme])
      [] ~accept_rp /\ grapheme \notin {"alnum", "underscore", "hyphen"} ->
            Err("InvalidChar")
      [] OTHER -> Ok([scan EXCEPT !.last_char = grapheme])

\* After the loop: a name that ends in the separator has no policy
Scanned(scan) ==
    CASE ~IsOk(scan) -> scan
      [] scan.val.last_char = V1_NAMESPACE_RP_SEPARATOR -> Err("InvalidRetentionPolicy")
      [] OTHER -> Ok(NONE)

validate_db_name(name, accept_rp) ==
    IF name = <<>> THEN Err("Empty")
    ELSE Scanned(SeqH!FoldLeft(LAMBDA scan, grapheme :
                                   IF IsOk(scan) THEN Scan(scan.val, grapheme, accept_rp)
                                   ELSE scan,
                               Ok(NameStart), name))

-----------------------------------------------------------------------------
(* The Authorization header *)

\* The token of a Basic header: base64 of user:token, with no ':' in user.
\* `fields` are the pieces of the decoded text between its colons.
token_part_as_bytes(token) ==
    CASE ~token.base64 \/ ~token.utf8 -> Err("MalformedRequest")
      [] Len(token.fields) # 2 -> Err("MalformedRequest")
      [] OTHER -> Ok(token.fields[2])

\* `parts` are the pieces of the header between its spaces: the scheme and
\* the token, and nothing more.
validate_auth_header(header) ==
    CASE ~header.visible -> Err("ToStr")
      [] header.parts[1] \notin {"Bearer", "Token", "Basic"} -> Err("MalformedRequest")
      [] Len(header.parts) # 2 -> Err("MalformedRequest")
      [] header.parts[1] = "Basic" -> token_part_as_bytes(header.parts[2])
      [] OTHER -> Ok(header.parts[2])

API_LEGACY_WRITE == <<"write">>
API_V1_QUERY     == <<"query">>

\* The v1 API may pass the token as the query parameter `p`; a query string
\* that does not parse has none.
extract_v1_auth_token(req) ==
    IF /\ req.path \in {API_V1_QUERY, API_LEGACY_WRITE}
       /\ req.query # NONE
       /\ "p" \in DOMAIN req.query
    THEN req.query.p ELSE NONE

\* The token authenticate_request hands to the authorizer: the `p` of a v1
\* request, else the token of the Authorization header, else none.
AuthToken(req) ==
    CASE extract_v1_auth_token(req) # NONE -> Ok(extract_v1_auth_token(req))
      [] req.authorization = NONE -> Ok(NONE)
      [] OTHER -> validate_auth_header(req.authorization)

-----------------------------------------------------------------------------
(* Query string and body *)

\* A Content-Type that parses as a mime type application/json or
\* application/...+json
json_content_type(req) ==
    /\ req.content_type # NONE
    /\ req.content_type.visible
    /\ req.content_type.mime # NONE
    /\ req.content_type.mime.type = "application"
    /\ "json" \in {req.content_type.mime.subtype, req.content_type.mime.suffix}

\* read_body.  A body is a record: `encoding` the Content-Encoding or NONE,
\* `hangup` the client going away before the limit is reached, `wire` the
\* bytes sent, `gzip` whether they inflate, `plain` the bytes they inflate
\* to, `utf8` and `fields` what the bytes hold.
read_body(req) ==
    LET body == req.body
    IN  CASE body.encoding \notin {NONE, "identity", "gzip"} -> Fail("InvalidContentEncoding")
          [] body.hangup -> Fail("ClientHangup")
          [] body.wire > max_request_bytes -> Fail("RequestSizeExceeded")
          [] body.encoding # "gzip" -> Ok(body)
          [] ~body.gzip -> Fail("InvalidGzip")
          [] SetH!Min({body.plain, max_request_bytes + 1}) > max_request_bytes ->
                Fail("RequestSizeExceeded")
          [] OTHER -> Ok(body)

\* serde: the parameters a request type requires are there
Deserialized(params, required, error) ==
    IF params # NONE /\ required \subseteq DOMAIN params THEN Ok(params) ELSE Fail(error)

read_body_json(req, required) ==
    CASE ~json_content_type(req) -> Fail("InvalidContentType")
      [] ~IsOk(read_body(req)) -> read_body(req)
      [] OTHER -> Deserialized(read_body(req).val.fields, required, "SerdeJson")

\* serde_urlencoded::from_str(req.uri().query().unwrap_or(""))
from_query(req, required) ==
    Deserialized(IF req.query = NONE THEN <<>> ELSE req.query, required, "SerdeUrlDecoding")

\* The parameters from the query string if there is one, else from the body
from_query_or_body(req, required) ==
    IF req.query # NONE THEN from_query(req, required) ELSE read_body_json(req, required)

-----------------------------------------------------------------------------
(* Errors and their status codes *)

\* impl IntoResponse for CatalogError
CatalogErrorStatus(err) ==
    CASE err = "NotFound" -> 404
      [] err \in {"AlreadyExists", "AlreadyDeleted"} -> 409
      [] err \in {"InvalidConfiguration", "InvalidDistinctCacheColumnType",
                  "InvalidLastCacheKeyColumnType", "InvalidColumnType"} -> 400
      [] err \in {"TooManyColumns", "TooManyTables", "TooManyDbs", "TooManyTagColumns"} -> 422
      [] OTHER -> 500

\* The variants of Error that are a bad request, whatever they hold
BadRequests ==
    {"WriteBuffer::DatabaseExists", "WriteBuffer::ParseError", "WriteBuffer::EmptyWrite",
     "WriteBuffer::ColumnDoesNotExist", "DbName", "SerdeJson", "InvalidContentEncoding",
     "SerdeUrlDecoding", "ParsingHumanTime", "MissingQueryParams", "MissingQueryV1Params",
     "MissingWriteParams", "MissingDeleteDatabaseParams", "ParsingTimestamp",
     "TimestampOutOfRange"}

NotFounds ==
    {"WriteBuffer::DatabaseNotFound", "WriteBuffer::TableNotFound", "Query::DatabaseNotFound"}

CacheErrorStatus(err) ==
    CASE err \in {"CacheDoesNotExist", "CacheNotFound"} -> 404
      [] err = "Unexpected" -> 500
      [] OTHER -> 400

\* impl IntoResponse for Error: the first arm that matches
ErrorStatus(error) ==
    CASE error = Error("Catalog", "CannotDeleteOperatorToken") -> 405
      [] error = Error("Catalog", "TokenNameAlreadyExists") -> 409
      [] error.variant \in {"Catalog", "WriteBuffer::CatalogUpdateError"} ->
            CatalogErrorStatus(error.of)
      [] error.variant \in {"Query::MethodNotImplemented", "UnsupportedMethod"} -> 405
      [] error.variant \in NotFounds -> 404
      [] error.variant \in {"WriteBuffer::LastCacheError", "WriteBuffer::DistinctCacheError"} ->
            CacheErrorStatus(error.of)
      [] error.variant = "PartialLpWrite" -> IF error.of.limit_hit THEN 422 ELSE 400
      [] error.variant \in BadRequests -> 400
      [] error.variant = "InvalidContentType" -> 415
      [] OTHER -> 500

\* authenticate: the answer to a request that is not let in
AuthenticationStatus(err) ==
    CASE err = "Unauthenticated"  -> 401
      [] err = "MalformedRequest" -> 400
      [] err = "Forbidden"        -> 403
      [] err = "ToStr"            -> 500

\* legacy_write_error_to_response, for parameters that do not make a write
LegacyWriteErrorStatus == 400

-----------------------------------------------------------------------------
(* What a handler decides.  Err(error), or a plan: the request it hands to  *)
(* the catalog (`call`), or the component that answers in its place         *)
(* (`elsewhere`) and the errors that component may return; the status of    *)
(* success; the catalog errors the handler answers as success (`absorbs`),  *)
(* and the variant under which the others reach ErrorStatus (`wraps`); the  *)
(* format of the answer to a query (`format`).                              *)

Plan(call, status) ==
    Ok([call |-> call, elsewhere |-> NONE, may_fail |-> {}, status |-> status,
        absorbs |-> {}, wraps |-> "Catalog", format |-> NONE])

Answer(status) == Plan(NONE, status)

Elsewhere(component, may_fail, status) ==
    Ok([Answer(status).val EXCEPT !.elsewhere = component, !.may_fail = may_fail])

Absorbing(plan, errors) == Ok([plan.val EXCEPT !.absorbs = errors])

\* An optional parameter
Optional(params, field, default) ==
    IF field \in DOMAIN params THEN params[field] ELSE default

\* The `?` of a handler: an error ends it, a value goes on to the rest
AndThen(result, rest(_)) == IF IsOk(result) THEN rest(result.val) ELSE result

\* validate_db_name(..)?, as a step of a handler
DbNameChecked(name, accept_rp) ==
    IF IsOk(validate_db_name(name, accept_rp)) THEN Ok(name)
    ELSE Fail("DbName")

\* A name of the request as the catalog knows names
Named(name) == <<name>>

-----------------------------------------------------------------------------
(* The handlers.  Each takes the request, and the catalog and the time where *)
(* it reads them.                                                            *)

CreateTokenHandler(call) == Plan(call, 201)

create_admin_token_handler == CreateTokenHandler([kind |-> "create_admin_token", regenerate |-> FALSE])

regenerate_admin_token == CreateTokenHandler([kind |-> "create_admin_token", regenerate |-> TRUE])

create_named_admin_token(req) ==
    AndThen(read_body_json(req, {"token_name"}), LAMBDA token_request :
        CreateTokenHandler([kind |-> "create_named_admin_token_with_permission",
                            name |-> Named(token_request.token_name)]))

\* The bits of the actions of a permission
ActionBits(resource_type) ==
    IF resource_type = "db" THEN [read |-> 1, write |-> 2, create |-> 4]
    ELSE [read |-> 1, write |-> 2, create |-> 4, delete |-> 8]

Wildcard == "Wildcard"

\* One turn of the loop of create_scoped_token: a permission of the request
\* as the catalog keeps it.  A database is named by its identifier, looked
\* up now.
PermissionOf(in, perm_req) ==
    LET names == SeqH!ToSet(perm_req.resource_names)
        ids   == {NameToId(in.databases, Named(db_name)) : db_name \in names}
    IN  CASE perm_req.resource_type \notin {"db", "token"} -> Fail("InvalidContentType")
          [] <<"star">> \notin names /\ perm_req.resource_type = "db" /\ NONE \in ids ->
                Fail("MissingDb")
          [] "*" \notin perm_req.actions
                /\ ~(perm_req.actions \subseteq DOMAIN ActionBits(perm_req.resource_type)) ->
                Fail("InvalidContentType")
          [] OTHER ->
                Ok([resource_type |-> perm_req.resource_type,
                    resource_identifier |->
                        IF <<"star">> \in names \/ perm_req.resource_type = "token"
                        THEN Wildcard ELSE ids,
                    actions |->
                        IF "*" \in perm_req.actions THEN Wildcard
                        ELSE SetH!MapThenSumSet(
                                 LAMBDA action : ActionBits(perm_req.resource_type)[action],
                                 perm_req.actions)])

\* The permissions in the order of the request, or the error of the first
\* that has one
PermissionsOf(in, permissions) ==
    SeqH!FoldLeft(LAMBDA sofar, perm_req :
                      AndThen(sofar, LAMBDA done :
                          AndThen(PermissionOf(in, perm_req), LAMBDA permission :
                              Ok(Append(done, permission)))),
                  Ok(<<>>), permissions)

create_scoped_token_handler(req, in) ==
    AndThen(read_body_json(req, {"token_name", "permissions"}), LAMBDA request :
        AndThen(PermissionsOf(in, request.permissions), LAMBDA permissions :
            CreateTokenHandler([kind |-> "create_scoped_token",
                                name |-> Named(request.token_name),
                                permissions |-> permissions])))

delete_token_handler(req) ==
    AndThen(from_query(req, {"token_name"}), LAMBDA delete_req :
        Plan([kind |-> "delete_token", name |-> Named(delete_req.token_name)], 200))

create_database_handler(req) ==
    AndThen(read_body_json(req, {"db"}), LAMBDA args :
        AndThen(DbNameChecked(args.db, FALSE), LAMBDA db :
            Plan([kind |-> "create_database", name |-> Named(db),
                  retention_period |-> Optional(args, "retention_period", NONE)], 200)))

SetRetention(db, retention_period, status) ==
    Plan([kind |-> "set_retention_period", db |-> Named(db),
          retention_period |-> retention_period], status)

update_database(req) ==
    AndThen(read_body_json(req, {"db"}), LAMBDA update_req :
        SetRetention(update_req.db, Optional(update_req, "retention_period", NONE), 200))

\* `duration` is what the text of the parameter parses to as a humantime
\* duration, NONE if it does not
set_retention_period_for_database(req) ==
    AndThen(from_query(req, {"db", "duration"}), LAMBDA create_req :
        IF create_req.duration = NONE THEN Fail("ParsingHumanTime")
        ELSE SetRetention(create_req.db, create_req.duration, 204))

clear_retention_period_for_database(req) ==
    AndThen(from_query(req, {"db"}), LAMBDA delete_req : SetRetention(delete_req.db, NONE, 204))

\* The hard_delete_at of a delete request as the catalog takes it: a time
\* that has passed becomes Now.  A Timestamp holds `at`, the time its text
\* parses to as RFC 3339, NONE if it does not.
HardDeleteTimeOf(delete_req, now) ==
    LET hard_delete_at == Optional(delete_req, "hard_delete_at", [kind |-> "Default"])
    IN  CASE hard_delete_at.kind # "Timestamp" -> Ok(hard_delete_at)
          [] hard_delete_at.at = NONE -> Fail("ParsingTimestamp")
          [] hard_delete_at.at < now -> Ok([kind |-> "Now"])
          [] OTHER -> Ok(hard_delete_at)

delete_database(req, now) ==
    AndThen(from_query(req, {"db"}), LAMBDA delete_req :
        AndThen(HardDeleteTimeOf(delete_req, now), LAMBDA hard_delete_time :
            Plan([kind |-> "soft_delete_database", name |-> Named(delete_req.db),
                  hard |-> hard_delete_time], 200)))

create_table_handler(req) ==
    AndThen(read_body_json(req, {"db", "table", "tags", "fields"}), LAMBDA args :
        AndThen(DbNameChecked(args.db, FALSE), LAMBDA db :
            Plan([kind |-> "create_table", db |-> Named(db), name |-> Named(args.table),
                  columns |-> [i \in DOMAIN args.tags |->
                                  [name |-> args.tags[i], data_type |-> "Tag"]]
                              \o [i \in DOMAIN args.fields |->
                                  [name |-> args.fields[i].name,
                                   data_type |-> args.fields[i].type]]], 200)))

delete_table(req, now) ==
    AndThen(from_query(req, {"db", "table"}), LAMBDA delete_req :
        AndThen(HardDeleteTimeOf(delete_req, now), LAMBDA hard_delete_time :
            Plan([kind |-> "soft_delete_table", db |-> Named(delete_req.db),
                  name |-> Named(delete_req.table), hard |-> hard_delete_time], 200)))

\* The two kinds of cache differ in the repository of the table that holds
\* them.  A cache without a name is named after its table by the catalog.
configure_cache_create(req, caches) ==
    AndThen(read_body_json(req, {"db", "table"}), LAMBDA args :
        Plan([kind |-> "create_cache", db |-> Named(args.db), table |-> Named(args.table),
              caches |-> caches, name |-> Optional(args, "name", [of |-> args.table]),
              config |-> Optional(args, "config", NONE)], 201))

configure_cache_delete(req, caches) ==
    AndThen(from_query_or_body(req, {"db", "table", "name"}), LAMBDA args :
        Plan([kind |-> "delete_cache", db |-> Named(args.db), table |-> Named(args.table),
              caches |-> caches, name |-> args.name], 200))

\* `plugin_filename` is what validate_plugin_filename makes of the name in
\* the request, NONE if it refuses it; `trigger_specification` is the
\* variant of TriggerSpecificationDefinition the text stands for
configure_processing_engine_trigger(req) ==
    AndThen(from_query_or_body(req, {"db", "plugin_filename", "trigger_name",
                                     "trigger_specification", "disabled"}), LAMBDA args :
        IF args.plugin_filename = NONE THEN Fail("ProcessingEngine")
        ELSE Plan([kind |-> "create_trigger", db |-> Named(args.db),
                   name |-> args.trigger_name, disabled |-> args.disabled,
                   definition |-> [plugin_filename |-> args.plugin_filename,
                                   trigger |-> args.trigger_specification]],
                  200))

delete_processing_engine_trigger(req) ==
    AndThen(from_query_or_body(req, {"db", "trigger_name", "force"}), LAMBDA args :
        Plan([kind |-> "delete_trigger", db |-> Named(args.db), name |-> args.trigger_name,
              force |-> args.force], 200))

\* disable_processing_engine_trigger and enable_processing_engine_trigger: a
\* trigger that is already so is answered as done
SetTriggerDisabled(req, disabled) ==
    AndThen(from_query(req, {"db", "trigger_name"}), LAMBDA args :
        Absorbing(Plan([kind |-> "set_trigger_disabled", db |-> Named(args.db),
                        name |-> args.trigger_name, disabled |-> disabled], 200),
                  {IF disabled THEN "TriggerAlreadyDisabled" ELSE "TriggerAlreadyEnabled"}))

\* The statuses with which the components behind the API may fail
EngineFailures == {ErrorStatus(Error("ProcessingEngine", NONE))}
QueryFailures ==
    {ErrorStatus(Error(variant, NONE)) :
        variant \in {"Query", "Query::DatabaseNotFound", "Query::MethodNotImplemented"}}

\* install_plugin_environment_packages and ..._requirements
install_plugin_environment(req, what) ==
    AndThen(from_query_or_body(req, {what}), LAMBDA args :
        Elsewhere("processing_engine", EngineFailures, 200))

\* test_processing_engine_wal_plugin and ..._schedule_plugin
test_processing_engine_plugin(req) ==
    AndThen(read_body_json(req, {}), LAMBDA request :
        Elsewhere("processing_engine", EngineFailures, 200))

\* A trigger that is not there is 404, like a path that is not
processing_engine_request_plugin(req) ==
    AndThen(read_body(req), LAMBDA body :
        Elsewhere("processing_engine", EngineFailures \cup {404}, 200))

\* QueryFormat, as requests name its values
QueryFormats == {"pretty", "parquet", "csv", "json", "jsonl"}

\* A query whose answer is the stream of a method of the executor, in a
\* format
Query(method, format) ==
    Ok([Elsewhere(<<"query_executor", method>>, QueryFailures, 200).val
            EXCEPT !.format = format])

\* QueryRequest: `q` is required, and `db` where the handler requires it;
\* the format is one of the formats, and that of the Accept header, Json
\* without one, if the request names none
QueryRequest(params, required, error) ==
    IF /\ IsOk(Deserialized(params, required, error))
       /\ Optional(params, "format", "json") \in QueryFormats
    THEN Ok([database  |-> Optional(params, "db", NONE),
             query_str |-> params.q,
             format    |-> Optional(params, "format", "json")])
    ELSE Fail(error)

\* extract_query_request: the parameters of a GET are in the query string,
\* those of a POST in the body
extract_query_request(req, required) ==
    CASE req.method = "GET" /\ req.query = NONE -> Fail("MissingQueryParams")
      [] req.method = "GET" -> QueryRequest(req.query, required, "SerdeUrlDecoding")
      [] req.method = "POST" ->
            AndThen(read_body(req), LAMBDA body :
                QueryRequest(body.fields, required, "SerdeJson"))
      [] OTHER -> Fail("UnsupportedMethod")

\* query_sql
query_sql(req) ==
    AndThen(extract_query_request(req, {"db", "q"}), LAMBDA request :
        Query("query_sql", request.format))

\* A query string of InfluxQL is the statements it parses to, each the kind
\* of statement it is and the database it names, or NONE if it does not
\* parse.
Statement(kind, dbrp) == [kind |-> kind, dbrp |-> dbrp]

parse_statements(query_str) ==
    IF query_str = NONE THEN Fail("InfluxqlRewrite") ELSE Ok(query_str)

\* The database of a query: that of the request or that of the statement,
\* and if both name one, the same
ResolvedDatabase(database, dbrp) ==
    CASE database = NONE -> Ok(dbrp)
      [] dbrp \in {NONE, database} -> Ok(database)
      [] OTHER -> Fail("InfluxqlDatabaseMismatch")

\* query_influxql_inner: one statement, its database, and the method of the
\* executor that answers it; only SHOW DATABASES and SHOW RETENTION
\* POLICIES do without a database
query_influxql_inner(database, query_str) ==
    AndThen(parse_statements(query_str), LAMBDA statements :
        IF Len(statements) # 1 THEN Fail("InfluxqlSingleStatement")
        ELSE AndThen(ResolvedDatabase(database, statements[1].dbrp), LAMBDA db :
                CASE statements[1].kind = "show_databases" -> Ok("show_databases")
                  [] statements[1].kind = "show_retention_policies" ->
                        Ok("show_retention_policies")
                  [] db = NONE -> Fail("InfluxqlNoDatabase")
                  [] OTHER -> Ok("query_influxql")))

\* query_influxql
query_influxql(req) ==
    AndThen(extract_query_request(req, {"q"}), LAMBDA request :
        AndThen(query_influxql_inner(request.database, request.query_str), LAMBDA method :
            Query(method, request.format)))

\* The v1 query answers in a format of its own
v1_query(req) ==
    AndThen(extract_query_request(req, {"q"}), LAMBDA request :
        AndThen(query_influxql_inner(request.database, request.query_str), LAMBDA method :
            Elsewhere(<<"query_executor", method>>, QueryFailures, 200)))

show_databases(req) ==
    AndThen(from_query(req, {"format"}), LAMBDA request :
        IF request.format \in QueryFormats THEN Query("show_databases", request.format)
        ELSE Fail("SerdeUrlDecoding"))

\* write_lp_inner.  The name is validated twice: by validate_db_name, and
\* once the body is read by NamespaceName::new, whose error is none of the
\* bad requests of ErrorStatus.  The write buffer parses the lines (`lp` of
\* the body, NONE if they are no line protocol) and brings their database,
\* table and columns to the catalog; lines it had to leave out make the
\* answer an error although the others are written.
write_lp_inner(params, req, accept_rp) ==
    AndThen(DbNameChecked(params.db, accept_rp), LAMBDA db :
        AndThen(read_body(req), LAMBDA body :
            CASE ~body.utf8 -> Fail("NonUtf8Body")
              [] ~IsNamespaceName(db) -> Fail("InvalidNamespaceName")
              [] body.lp = NONE -> Fail("WriteBuffer::ParseError")
              [] OTHER ->
                    Ok([call |-> [kind |-> "write_lp", db |-> Named(db),
                                  table |-> Named(body.lp.table),
                                  columns |-> body.lp.columns],
                        elsewhere |-> NONE, may_fail |-> {},
                        status |-> IF body.lp.invalid_lines
                                   THEN ErrorStatus(Error("PartialLpWrite", body.lp))
                                   ELSE 204,
                        absorbs |-> {"NothingToCommit"},
                        wraps |-> "WriteBuffer::CatalogUpdateError", format |-> NONE])))

write_lp(req) ==
    IF req.query = NONE THEN Fail("MissingWriteParams")
    ELSE AndThen(from_query(req, {"db"}), LAMBDA params : write_lp_inner(params, req, FALSE))

\* The v1 and v2 writes: parameters that do not make a write are answered
\* by legacy_write_error_to_response
legacy_write(req, accept_rp) ==
    IF ~IsOk(from_query(req, {"db"})) THEN Answer(LegacyWriteErrorStatus)
    ELSE write_lp_inner(req.query, req, accept_rp)

-----------------------------------------------------------------------------
(* Routing.  A path is the sequence of its segments, so that one path       *)
(* starts with another when that is a prefix of it.                         *)

API_V3                 == <<"api", "v3">>
API_V3_CONFIGURE       == API_V3 \o <<"configure">>
API_V2_WRITE           == <<"api", "v2", "write">>
API_V3_WRITE           == API_V3 \o <<"write_lp">>
API_V3_QUERY_SQL       == API_V3 \o <<"query_sql">>
API_V3_QUERY_INFLUXQL  == API_V3 \o <<"query_influxql">>
API_V3_HEALTH          == <<"health">>
API_V1_HEALTH          == <<"api", "v1", "health">>
API_PING               == <<"ping">>
API_METRICS            == <<"metrics">>
API_V3_ENGINE          == API_V3 \o <<"engine">>
API_V3_CONFIGURE_TOKEN == API_V3_CONFIGURE \o <<"token">>
API_V3_CONFIGURE_ADMIN_TOKEN            == API_V3_CONFIGURE_TOKEN \o <<"admin">>
API_V3_CONFIGURE_ADMIN_TOKEN_REGENERATE == API_V3_CONFIGURE_ADMIN_TOKEN \o <<"regenerate">>
API_V3_CONFIGURE_NAMED_ADMIN_TOKEN      == API_V3_CONFIGURE_TOKEN \o <<"named_admin">>
API_V3_CONFIGURE_DISTINCT_CACHE == API_V3_CONFIGURE \o <<"distinct_cache">>
API_V3_CONFIGURE_LAST_CACHE     == API_V3_CONFIGURE \o <<"last_cache">>
API_V3_CONFIGURE_PROCESSING_ENGINE_TRIGGER ==
    API_V3_CONFIGURE \o <<"processing_engine_trigger">>
API_V3_CONFIGURE_PROCESSING_ENGINE_DISABLE ==
    API_V3_CONFIGURE_PROCESSING_ENGINE_TRIGGER \o <<"disable">>
API_V3_CONFIGURE_PROCESSING_ENGINE_ENABLE ==
    API_V3_CONFIGURE_PROCESSING_ENGINE_TRIGGER \o <<"enable">>
API_V3_CONFIGURE_PLUGIN_INSTALL_PACKAGES ==
    API_V3_CONFIGURE \o <<"plugin_environment", "install_packages">>
API_V3_CONFIGURE_PLUGIN_INSTALL_REQUIREMENTS ==
    API_V3_CONFIGURE \o <<"plugin_environment", "install_requirements">>
API_V3_CONFIGURE_DATABASE == API_V3_CONFIGURE \o <<"database">>
API_V3_CONFIGURE_DATABASE_RETENTION_PERIOD ==
    API_V3_CONFIGURE_DATABASE \o <<"retention_period">>
API_V3_CONFIGURE_TABLE   == API_V3_CONFIGURE \o <<"table">>
API_V3_TEST_WAL_ROUTE    == API_V3 \o <<"plugin_test", "wal">>
API_V3_TEST_PLUGIN_ROUTE == API_V3 \o <<"plugin_test", "schedule">>

Route(methods, path, handler) == [methods |-> methods, path |-> path, handler |-> handler]

\* The arms of the match of route_request that name one path
Routes ==
    {Route({"DELETE"}, API_V3_CONFIGURE_TOKEN, "delete_token"),
     Route({"POST"}, API_V3_CONFIGURE_ADMIN_TOKEN, "create_admin_token"),
     Route({"POST"}, API_V3_CONFIGURE_ADMIN_TOKEN_REGENERATE, "regenerate_admin_token"),
     Route({"POST"}, API_V3_CONFIGURE_NAMED_ADMIN_TOKEN, "create_named_admin_token"),
     Route({"POST"}, API_V3_CONFIGURE_TOKEN, "create_scoped_token"),
     Route({"POST"}, API_LEGACY_WRITE, "write_v1"),
     Route({"POST"}, API_V2_WRITE, "write_v2"),
     Route({"POST"}, API_V3_WRITE, "write_lp"),
     Route({"GET", "POST"}, API_V3_QUERY_SQL, "query_sql"),
     Route({"GET", "POST"}, API_V3_QUERY_INFLUXQL, "query_influxql"),
     Route({"GET", "POST"}, API_V1_QUERY, "v1_query"),
     Route({"GET"}, API_V3_HEALTH, "health"),
     Route({"GET"}, API_V1_HEALTH, "health"),
     Route({"GET", "POST"}, API_PING, "ping"),
     Route({"GET"}, API_METRICS, "handle_metrics"),
     Route({"POST"}, API_V3_CONFIGURE_DISTINCT_CACHE, "configure_distinct_cache_create"),
     Route({"DELETE"}, API_V3_CONFIGURE_DISTINCT_CACHE, "configure_distinct_cache_delete"),
     Route({"POST"}, API_V3_CONFIGURE_LAST_CACHE, "configure_last_cache_create"),
     Route({"DELETE"}, API_V3_CONFIGURE_LAST_CACHE, "configure_last_cache_delete"),
     Route({"POST"}, API_V3_CONFIGURE_PROCESSING_ENGINE_DISABLE,
           "disable_processing_engine_trigger"),
     Route({"POST"}, API_V3_CONFIGURE_PROCESSING_ENGINE_ENABLE,
           "enable_processing_engine_trigger"),
     Route({"POST"}, API_V3_CONFIGURE_PROCESSING_ENGINE_TRIGGER,
           "configure_processing_engine_trigger"),
     Route({"DELETE"}, API_V3_CONFIGURE_PROCESSING_ENGINE_TRIGGER,
           "delete_processing_engine_trigger"),
     Route({"POST"}, API_V3_CONFIGURE_PLUGIN_INSTALL_PACKAGES,
           "install_plugin_environment_packages"),
     Route({"POST"}, API_V3_CONFIGURE_PLUGIN_INSTALL_REQUIREMENTS,
           "install_plugin_environment_requirements"),
     Route({"GET"}, API_V3_CONFIGURE_DATABASE, "show_databases"),
     Route({"POST"}, API_V3_CONFIGURE_DATABASE, "create_database"),
     Route({"PUT"}, API_V3_CONFIGURE_DATABASE, "update_database"),
     Route({"DELETE"}, API_V3_CONFIGURE_DATABASE, "delete_database"),
     Route({"POST"}, API_V3_CONFIGURE_TABLE, "create_table"),
     Route({"DELETE"}, API_V3_CONFIGURE_TABLE, "delete_table"),
     Route({"POST"}, API_V3_TEST_WAL_ROUTE, "test_processing_engine_wal_plugin"),
     Route({"POST"}, API_V3_TEST_PLUGIN_ROUTE, "test_processing_engine_schedule_plugin"),
     Route({"POST"}, API_V3_CONFIGURE_DATABASE_RETENTION_PERIOD,
           "set_retention_period_for_database"),
     Route({"DELETE"}, API_V3_CONFIGURE_DATABASE_RETENTION_PERIOD,
           "clear_retention_period_for_database")}

\* The arm of the match a request takes: the route of its method and path,
\* else the processing engine for what is under its path, else none
Matched(req) ==
    LET named == {route \in Routes : req.method \in route.methods /\ req.path = route.path}
    IN  CASE named # {} -> (CHOOSE route \in named : TRUE).handler
          [] req.method \in {"GET", "POST"} /\ SeqH!IsStrictPrefix(API_V3_ENGINE, req.path) ->
                "processing_engine_request_plugin"
          [] OTHER -> "not found"

\* What the handler of an arm decides
Handled(handler, req, in, now) ==
    CASE handler = "delete_token"             -> delete_token_handler(req)
      [] handler = "create_admin_token"       -> create_admin_token_handler
      [] handler = "regenerate_admin_token"   -> regenerate_admin_token
      [] handler = "create_named_admin_token" -> create_named_admin_token(req)
      [] handler = "create_scoped_token"      -> create_scoped_token_handler(req, in)
      [] handler = "write_v1"                 -> legacy_write(req, TRUE)
      [] handler = "write_v2"                 -> legacy_write(req, FALSE)
      [] handler = "write_lp"                 -> write_lp(req)
      [] handler = "query_sql"                -> query_sql(req)
      [] handler = "query_influxql"           -> query_influxql(req)
      [] handler = "v1_query"                 -> v1_query(req)
      [] handler \in {"health", "ping", "handle_metrics"} -> Answer(200)
      [] handler = "processing_engine_request_plugin" -> processing_engine_request_plugin(req)
      [] handler = "configure_distinct_cache_create" ->
            configure_cache_create(req, "distinct_caches")
      [] handler = "configure_distinct_cache_delete" ->
            configure_cache_delete(req, "distinct_caches")
      [] handler = "configure_last_cache_create" -> configure_cache_create(req, "last_caches")
      [] handler = "configure_last_cache_delete" -> configure_cache_delete(req, "last_caches")
      [] handler = "disable_processing_engine_trigger" -> SetTriggerDisabled(req, TRUE)
      [] handler = "enable_processing_engine_trigger"  -> SetTriggerDisabled(req, FALSE)
      [] handler = "configure_processing_engine_trigger" ->
            configure_processing_engine_trigger(req)
      [] handler = "delete_processing_engine_trigger" -> delete_processing_engine_trigger(req)
      [] handler = "install_plugin_environment_packages" ->
            install_plugin_environment(req, "packages")
      [] handler = "install_plugin_environment_requirements" ->
            install_plugin_environment(req, "requirements_location")
      [] handler = "show_databases"  -> show_databases(req)
      [] handler = "create_database" -> create_database_handler(req)
      [] handler = "update_database" -> update_database(req)
      [] handler = "delete_database" -> delete_database(req, now)
      [] handler = "create_table"    -> create_table_handler(req)
      [] handler = "delete_table"    -> delete_table(req, now)
      [] handler \in {"test_processing_engine_wal_plugin",
                      "test_processing_engine_schedule_plugin"} ->
            test_processing_engine_plugin(req)
      [] handler = "set_retention_period_for_database" ->
            set_retention_period_for_database(req)
      [] handler = "clear_retention_period_for_database" ->
            clear_retention_period_for_database(req)
      [] handler = "not found" -> Answer(404)

\* Where route_request answers before any handler: the preflight of a
\* browser, and the token endpoints of a server started without auth.
\* NONE: the request goes on.
AnsweredAtOnce(req, started_without_auth) ==
    CASE req.method = "OPTIONS" -> 204
      [] started_without_auth /\ SeqH!IsPrefix(API_V3_CONFIGURE_TOKEN, req.path) -> 405
      [] OTHER -> NONE

ExemptByPrefix(req, paths_without_authz) ==
    \/ SeqH!IsPrefix(API_V3_CONFIGURE_ADMIN_TOKEN, req.path)
    \/ req.path \in paths_without_authz

\* The requests route_request lets in without authentication: the creation
\* of the operator token, and the paths the server was started to leave open
Exempt(req, paths_without_authz) ==
    \/ req.path = API_V3_CONFIGURE_ADMIN_TOKEN
    \/ req.path \in paths_without_authz

=============================================================================
