-------------------------------- MODULE Cli --------------------------------
(***************************************************************************)
(* The command line of influxdb3/src/commands: `create token` and          *)
(* `delete`.  A command is a function of its arguments and of the line the *)
(* user types when asked to confirm; what it yields is the call of the     *)
(* client library it makes, or nothing, or an error.  Module MCServer      *)
(* sends the requests of these calls to the server.                        *)
(*                                                                         *)
(* The arguments as clap matched them are a record                         *)
(*    defined     the arguments the command declares                       *)
(*    args        the arguments given, with their values                   *)
(*    subcommand  the same of the subcommand `--admin`, or NONE            *)
(* A text whose content is looked at is a record of what the code reads    *)
(* from it; a line of input is the sequence of its words and blanks.       *)
(***************************************************************************)
EXTENDS HttpApi

LOCAL SeqC == INSTANCE SequencesExt
LOCAL SetC == INSTANCE FiniteSetsExt
LOCAL INSTANCE TLC

-----------------------------------------------------------------------------
(* Confirmation *)

Blanks == {"space", "newline"}

\* str::trim: the line without the blanks at its ends
Trim(line) ==
    LET inked == {i \in DOMAIN line : line[i] \notin Blanks}
    IN  IF inked = {} THEN <<>> ELSE SubSeq(line, SetC!Min(inked), SetC!Max(inked))

\* read_line and the comparison of every command that asks
Confirmed(confirmation) == Trim(confirmation) = <<"yes">>

-----------------------------------------------------------------------------
(* The calls of the commands *)

Call(name, params) == Ok([call |-> name, params |-> params])

\* The command ends well and has sent nothing
Nothing == Ok(NONE)

-----------------------------------------------------------------------------
(* create token *)

\* The fields of the configurations, read from the arguments given.  A flag
\* the command does not declare has no value: the parser panics in a debug
\* build and reports the argument as missing in a release build.
InfluxDb3ServerConfig(args) == [auth_token |-> Optional(args, "token", NONE)]

CreateAdminTokenConfig(matches) ==
    IF "regenerate" \notin matches.defined THEN Err("MissingRequiredArgument")
    ELSE Ok([regenerate |-> Optional(matches.args, "regenerate", FALSE),
             name       |-> Optional(matches.args, "name", NONE),
             expiry     |-> Optional(matches.args, "expiry", NONE),
             host       |-> InfluxDb3ServerConfig(matches.args)])

CreateScopedTokenConfig(matches) ==
    Ok([name        |-> Optional(matches.args, "name", NONE),
        permissions |-> Optional(matches.args, "permissions", <<>>),
        expiry      |-> Optional(matches.args, "expiry", NONE),
        host        |-> InfluxDb3ServerConfig(matches.args)])

CreateTokenConfig(admin_config, scoped_config) ==
    [admin_config |-> admin_config, scoped_config |-> scoped_config]

AdminOnly(admin_config) ==
    AndThen(admin_config, LAMBDA config : Ok(CreateTokenConfig(config, NONE)))

\* The arguments of `create token` and of its subcommand `--admin`, as
\* CommandFactory::command declares them
AdminArguments  == {"regenerate", "name", "expiry", "host", "token", "tls-ca", "format"}
ScopedArguments == {"name", "permissions", "expiry", "host", "token", "tls-ca", "format"}

from_arg_matches(matches) ==
    LET given == DOMAIN matches.args
    IN  CASE matches.subcommand # NONE ->
                IF "name" \in DOMAIN matches.subcommand.args
                      /\ Optional(matches.subcommand.args, "regenerate", FALSE)
                THEN Err("ArgumentConflict")
                ELSE AdminOnly(CreateAdminTokenConfig(matches.subcommand))
          [] {"name", "permissions"} \subseteq given ->
                AndThen(CreateScopedTokenConfig(matches), LAMBDA config :
                    Ok(CreateTokenConfig(NONE, config)))
          [] "name" \in given -> AdminOnly(CreateAdminTokenConfig(matches))
          [] OTHER -> Err("MissingRequiredArgument")

get_connection_settings(config) ==
    CASE config.admin_config # NONE  -> Ok(config.admin_config.host)
      [] config.scoped_config # NONE -> Ok(config.scoped_config.host)
      [] OTHER -> Err("cannot find server config")

handle_admin_token_creation(config, confirmation) ==
    CASE ~config.regenerate -> Call("api_v3_configure_create_admin_token", <<>>)
      [] Confirmed(confirmation) -> Call("api_v3_configure_regenerate_admin_token", <<>>)
      [] OTHER -> Err("Cannot regenerate token without confirmation")

handle_named_admin_token_creation(config) ==
    Call("api_v3_configure_create_named_admin_token",
         [token_name |-> config.name, expiry_secs |-> config.expiry])

\* One turn of the loop of handle_scoped_token_creation.  A permission is
\* the sequence of its parts between ':', and its last part the sequence of
\* the actions between ','.
PermissionRequest(perm_str) ==
    IF Len(perm_str) # 3 THEN Err("Invalid permission format")
    ELSE Ok([resource_type  |-> perm_str[1],
             resource_names |-> <<perm_str[2]>>,
             actions        |-> SeqC!ToSet(perm_str[3])])

handle_scoped_token_creation(config) ==
    LET parsed == [i \in DOMAIN config.permissions |-> PermissionRequest(config.permissions[i])]
        failed == {i \in DOMAIN parsed : ~IsOk(parsed[i])}
    IN  CASE failed # {} -> parsed[SetC!Min(failed)]
          [] config.name = NONE -> Err("Token name is required for scoped tokens")
          [] OTHER ->
                Call("api_v3_configure_create_scoped_token",
                     [token_name  |-> config.name,
                      permissions |-> [i \in DOMAIN parsed |-> parsed[i].val],
                      expiry_secs |-> config.expiry])

handle_token_creation_with_config(config, confirmation) ==
    CASE config.admin_config # NONE /\ config.admin_config.name # NONE ->
                handle_named_admin_token_creation(config.admin_config)
      [] config.admin_config # NONE ->
                handle_admin_token_creation(config.admin_config, confirmation)
      [] config.scoped_config # NONE -> handle_scoped_token_creation(config.scoped_config)
      [] OTHER -> Err("cannot create token")

\* `influxdb3 create token`: the call it makes, by a client that sends the
\* token of the connection settings
CreateToken(matches, confirmation) ==
    AndThen(from_arg_matches(matches), LAMBDA config :
        AndThen(get_connection_settings(config), LAMBDA host :
            AndThen(handle_token_creation_with_config(config, confirmation), LAMBDA call :
                Ok([client |-> [auth_token |-> host.auth_token], call |-> call]))))

-----------------------------------------------------------------------------
(* delete *)

\* The subcommands and the arguments of each, beside the server and the
\* token (`auth_token`, NONE if none is given)
SubCommand ==
    [Database      |-> {"database_name", "hard_delete"},
     LastCache     |-> {"database_name", "table", "cache_name"},
     DistinctCache |-> {"database_name", "table", "cache_name"},
     Table         |-> {"database_name", "table_name", "hard_delete"},
     Trigger       |-> {"database_name", "trigger_name", "force"},
     Token         |-> {"token_name"}]

IsSubCommand(cmd) ==
    /\ cmd.kind \in DOMAIN SubCommand
    /\ DOMAIN cmd = {"kind", "auth_token"} \cup SubCommand[cmd.kind]

\* A client is the token it sends, if it was given one
get_client(config) == [auth_token |-> config.cmd.auth_token]

\* The value of --hard-delete is a record: `lowercase` what to_lowercase
\* makes of it, `rfc3339` the time it reads as, or NONE.  What is not a
\* keyword is sent as it was typed.
parse_hard_delete_time(value) ==
    CASE value = NONE -> NONE
      [] value.lowercase = "never"   -> [kind |-> "Never"]
      [] value.lowercase = "now"     -> [kind |-> "Now"]
      [] value.lowercase = "default" -> [kind |-> "Default"]
      [] OTHER -> [kind |-> "Timestamp", at |-> value.rfc3339]

\* The delete of a database or a table, with the time of its hard deletion
\* if one was given
DeleteCall(name, params, hard_delete) ==
    IF parse_hard_delete_time(hard_delete) = NONE THEN Call(name, params)
    ELSE Call(name \o "_with_hard_delete",
              params @@ [hard_delete_at |-> parse_hard_delete_time(hard_delete)])

\* The call of `influxdb3 delete`.  A database, a table and a token are
\* deleted after a "yes"; a cache and a trigger are deleted at once; the
\* operator token is never asked for.
Deletion(cmd, confirmation) ==
    CASE cmd.kind = "Database" ->
            IF ~Confirmed(confirmation) THEN Nothing
            ELSE DeleteCall("api_v3_configure_db_delete",
                            [db |-> cmd.database_name], cmd.hard_delete)
      [] cmd.kind = "Table" ->
            IF ~Confirmed(confirmation) THEN Nothing
            ELSE DeleteCall("api_v3_configure_table_delete",
                            [db |-> cmd.database_name, table |-> cmd.table_name],
                            cmd.hard_delete)
      [] cmd.kind = "LastCache" ->
            Call("api_v3_configure_last_cache_delete",
                 [db |-> cmd.database_name, table |-> cmd.table, name |-> cmd.cache_name])
      [] cmd.kind = "DistinctCache" ->
            Call("api_v3_configure_distinct_cache_delete",
                 [db |-> cmd.database_name, table |-> cmd.table, name |-> cmd.cache_name])
      [] cmd.kind = "Trigger" ->
            Call("api_v3_configure_processing_engine_trigger_delete",
                 [db |-> cmd.database_name, trigger_name |-> cmd.trigger_name,
                  force |-> cmd.force])
      [] cmd.kind = "Token" ->
            IF Named(cmd.token_name) = DEFAULT_OPERATOR_TOKEN_NAME \/ ~Confirmed(confirmation)
            THEN Nothing
            ELSE Call("api_v3_configure_token_delete", [token_name |-> cmd.token_name])

\* `influxdb3 delete`
command(config, confirmation) ==
    IF ~IsSubCommand(config.cmd) THEN Err("Usage")
    ELSE AndThen(Deletion(config.cmd, confirmation), LAMBDA call :
             Ok([client |-> get_client(config), call |-> call]))

-----------------------------------------------------------------------------
(* The client library (influxdb3_client) and what it sends for a call *)

Bearer(token) == [visible |-> TRUE, parts |-> <<"Bearer", token>>]

ApplicationJson ==
    [visible |-> TRUE, mime |-> [type |-> "application", subtype |-> "json", suffix |-> NONE]]

NoBody ==
    [encoding |-> NONE, hangup |-> FALSE, wire |-> 0, gzip |-> FALSE, plain |-> 0,
     utf8 |-> TRUE, fields |-> NONE, lp |-> NONE]

Request(method, path, authorization, query) ==
    [method |-> method, path |-> path, authorization |-> authorization,
     content_type |-> NONE, query |-> query, body |-> NoBody]

WithJson(req, fields) ==
    [req EXCEPT !.content_type = ApplicationJson,
                !.body = [NoBody EXCEPT !.wire = 1, !.fields = fields]]

\* The parameters that have a value
Given(params) == [field \in {f \in DOMAIN params : params[f] # NONE} |-> params[field]]

\* Method, path and place of the parameters of every call of the commands
Endpoints ==
    [api_v3_configure_create_admin_token |->
        [method |-> "POST", path |-> API_V3_CONFIGURE_ADMIN_TOKEN, in |-> "none"],
     api_v3_configure_regenerate_admin_token |->
        [method |-> "POST", path |-> API_V3_CONFIGURE_ADMIN_TOKEN_REGENERATE, in |-> "none"],
     api_v3_configure_create_named_admin_token |->
        [method |-> "POST", path |-> API_V3_CONFIGURE_NAMED_ADMIN_TOKEN, in |-> "body"],
     api_v3_configure_create_scoped_token |->
        [method |-> "POST", path |-> API_V3_CONFIGURE_TOKEN, in |-> "body"],
     api_v3_configure_token_delete |->
        [method |-> "DELETE", path |-> API_V3_CONFIGURE_TOKEN, in |-> "query"],
     api_v3_configure_db_delete |->
        [method |-> "DELETE", path |-> API_V3_CONFIGURE_DATABASE, in |-> "query"],
     api_v3_configure_db_delete_with_hard_delete |->
        [method |-> "DELETE", path |-> API_V3_CONFIGURE_DATABASE, in |-> "query"],
     api_v3_configure_table_delete |->
        [method |-> "DELETE", path |-> API_V3_CONFIGURE_TABLE, in |-> "query"],
     api_v3_configure_table_delete_with_hard_delete |->
        [method |-> "DELETE", path |-> API_V3_CONFIGURE_TABLE, in |-> "query"],
     api_v3_configure_last_cache_delete |->
        [method |-> "DELETE", path |-> API_V3_CONFIGURE_LAST_CACHE, in |-> "query"],
     api_v3_configure_distinct_cache_delete |->
        [method |-> "DELETE", path |-> API_V3_CONFIGURE_DISTINCT_CACHE, in |-> "query"],
     api_v3_configure_processing_engine_trigger_delete |->
        [method |-> "DELETE", path |-> API_V3_CONFIGURE_PROCESSING_ENGINE_TRIGGER,
         in |-> "query"]]

\* The request of a call, with the token of the client as Bearer
RequestOf(client, call) ==
    LET endpoint == Endpoints[call.call]
        auth     == IF client.auth_token = NONE THEN NONE ELSE Bearer(client.auth_token)
        bare     == Request(endpoint.method, endpoint.path, auth, NONE)
    IN  CASE endpoint.in = "none"  -> bare
          [] endpoint.in = "query" -> [bare EXCEPT !.query = Given(call.params)]
          [] endpoint.in = "body"  -> WithJson(bare, Given(call.params))

\* What the commands send: the requests of those that end with a call
Sent(outcomes) ==
    {RequestOf(outcome.val.client, outcome.val.call) :
        outcome \in {o \in outcomes : IsOk(o) /\ o.val.call # NONE}}

=============================================================================
