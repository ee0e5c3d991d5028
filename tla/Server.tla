------------------------------- MODULE Server -------------------------------
(***************************************************************************)
(* The server: route_request of influxdb3_server/src/http.rs in front of   *)
(* the catalog.  Every connection is a task of the process.  Its request   *)
(* is answered at once, or authenticated against the tokens of the catalog *)
(* as they are then, and handed to its handler; the handler answers, or    *)
(* asks another component, or takes the request through the catalog write  *)
(* path of module Catalog, whose steps interleave with those of the other  *)
(* connections, and answers with what comes back.  The answer to a query   *)
(* is the stream of the executor in a body of module QueryBody.  A crash   *)
(* drops every connection; the server that comes up may have been started  *)
(* with or without authentication.                                         *)
(***************************************************************************)
EXTENDS Catalog, QueryBody

CONSTANTS
    HttpRequests(_),        \* the requests a client sends, given the tokens it may hold
    AuthModes,              \* the values of --without-auth the server is started with
    paths_without_authz     \* the paths the server is started to leave open

VARIABLES
    conn,                   \* per connection: its request and how far it got
    started_without_auth,   \* the server runs without authentication
    handed                  \* the tokens sent to clients, and to whom

server_vars == <<conn, started_without_auth, handed>>
all_vars    == <<vars, server_vars>>

\* A connection: `pc` is "idle" until route_request has let a request in,
\* "routed" until its handler has decided, "waiting" while the catalog has
\* the request, and "idle" again once it is answered; `authenticated` says
\* that a token was asked for and found.
Quiet == [pc |-> "idle", req |-> NONE, authenticated |-> FALSE, plan |-> NONE]

\* No answer: the connection is closed
Reset == 0

\* What a client may be answered with
Answers == {Reset} \cup 100..599

\* The answer leaves the server, and the connection is free for the next
\* request.
Respond(c, status) ==
    /\ status \in Answers
    /\ conn' = [conn EXCEPT ![c] = Quiet]

\* A token nobody was handed
Forged == -1

\* The tokens a client may present
Presentable == {h.token : h \in handed} \cup {Forged}

-----------------------------------------------------------------------------
(* route_request *)

\* AuthProvider::authenticate of the server's authorizer: without
\* authentication every request is let in; with it, the token must be the
\* plaintext of a token of the catalog (the catalog keeps its hash).
Authenticates(token) ==
    \/ started_without_auth
    \/ token # NONE /\ get_token(inner, token) # NONE

\* authenticate_request and authenticate: NONE if the request is let in,
\* else the status it is turned away with
Authentication(req) ==
    CASE ~IsOk(AuthToken(req)) -> AuthenticationStatus(AuthToken(req).err)
      [] ~Authenticates(AuthToken(req).val) -> AuthenticationStatus("Unauthenticated")
      [] OTHER -> NONE

\* The request is answered, or let in for its handler.
Routed(c, req, exempt) ==
    /\ CASE AnsweredAtOnce(req, started_without_auth) # NONE ->
                Respond(c, AnsweredAtOnce(req, started_without_auth))
         [] ~exempt /\ Authentication(req) # NONE -> Respond(c, Authentication(req))
         [] OTHER -> conn' = [conn EXCEPT ![c] = [Quiet EXCEPT
                                  !.pc = "routed", !.req = req, !.authenticated = ~exempt]]
    /\ UNCHANGED <<vars, started_without_auth, handed>>

\* A client sends a request on a connection that is free.
route_request(c) ==
    /\ conn[c].pc = "idle"
    /\ \E req \in HttpRequests(Presentable) : Routed(c, req, Exempt(req, paths_without_authz))

-----------------------------------------------------------------------------
(* The handler, up to its call of the catalog *)

PlanOf(c) == Handled(Matched(conn[c].req), conn[c].req, inner, clock)

\* The handler refuses the request, or answers it by itself.
HandlerAnswers(c) ==
    /\ conn[c].pc = "routed"
    /\ \/ ~IsOk(PlanOf(c)) /\ Respond(c, ErrorStatus(Error(PlanOf(c).err, NONE)))
       \/ /\ IsOk(PlanOf(c))
          /\ PlanOf(c).val.call = NONE /\ PlanOf(c).val.elsewhere = NONE
          /\ Respond(c, PlanOf(c).val.status)
    /\ UNCHANGED <<vars, started_without_auth, handed>>

\* What the component a handler asks may answer with: its failures, and
\* the status of success or, of a query, the status that the stream it
\* returns is answered with
Outcomes(plan) ==
    plan.may_fail \cup (IF plan.format = NONE THEN {plan.status}
                        ELSE QueryStatuses[plan.format])

\* The handler asks the query executor or the processing engine, and
\* answers with what comes back.
HandlerAsksElsewhere(c) ==
    /\ conn[c].pc = "routed"
    /\ IsOk(PlanOf(c))
    /\ PlanOf(c).val.elsewhere # NONE
    /\ \E status \in Outcomes(PlanOf(c).val) : Respond(c, status)
    /\ UNCHANGED <<vars, started_without_auth, handed>>

\* The handler calls the catalog and waits for it.
HandlerCallsCatalog(c) ==
    /\ conn[c].pc = "routed"
    /\ IsOk(PlanOf(c))
    /\ PlanOf(c).val.call # NONE
    /\ Submit(c, PlanOf(c).val.call)
    /\ conn' = [conn EXCEPT ![c].pc = "waiting", ![c].req = NONE,
                            ![c].plan = [status  |-> PlanOf(c).val.status,
                                         absorbs |-> PlanOf(c).val.absorbs,
                                         wraps   |-> PlanOf(c).val.wraps]]
    /\ UNCHANGED <<started_without_auth, handed>>

-----------------------------------------------------------------------------
(* The catalog's steps, and what the connection answers when they end the   *)
(* request                                                                  *)

\* The status of a catalog error under the plan of the handler
StatusOf(plan, err) ==
    IF err \in plan.absorbs THEN plan.status ELSE ErrorStatus(Error(plan.wraps, err))

Quietly(CatalogStep) == CatalogStep /\ UNCHANGED server_vars

\* The composer has run: its error is the answer.
Composes(c, result) ==
    /\ ComposeStep(c)
    /\ IF IsOk(result) THEN UNCHANGED conn
       ELSE Respond(c, StatusOf(conn[c].plan, result.err))
    /\ UNCHANGED <<started_without_auth, handed>>

ServerCompose(c) ==
    /\ task[c].pc = "sequenced"
    /\ Composes(c, Compose(inner, task[c].req, clock, task[c].hash))

\* The object store fails the write of the log file.
ServerPersistFails(c) ==
    /\ PersistFails(c)
    /\ Respond(c, StatusOf(conn[c].plan, "ObjectStore"))
    /\ UNCHANGED <<started_without_auth, handed>>

\* The batch is applied: the update is done, and so is the request unless
\* it has a token to return.
ServerApply(c) ==
    /\ Apply(c)
    /\ IF CreatesToken(task[c].req) THEN UNCHANGED conn
       ELSE Respond(c, conn[c].plan.status)
    /\ UNCHANGED <<started_without_auth, handed>>

\* The token is read back by its name and sent with its plaintext; the
\* request panics, and its connection is closed, if it is not there.
ServerReturnToken(c) ==
    /\ ReturnToken(c)
    /\ IF ContainsName(inner.tokens.repo, TokenNameOf(task[c].req))
       THEN /\ Respond(c, conn[c].plan.status)
            /\ handed' = handed \cup {[token |-> task[c].hash,
                                       authenticated |-> conn[c].authenticated]}
       ELSE /\ Respond(c, Reset)
            /\ UNCHANGED handed
    /\ UNCHANGED started_without_auth

\* The process dies with the requests it has, and is started again, with or
\* without authentication.
ServerCrashAndRestart ==
    /\ CrashAndRestart
    /\ conn' = [c \in Writers |-> Quiet]
    /\ started_without_auth' \in AuthModes
    /\ UNCHANGED handed

-----------------------------------------------------------------------------

ServerInit ==
    /\ Init
    /\ conn = [c \in Writers |-> Quiet]
    /\ started_without_auth \in AuthModes
    /\ handed = {}

ServerNext ==
    \/ \E c \in Writers :
          \/ route_request(c)
          \/ HandlerAnswers(c)
          \/ HandlerAsksElsewhere(c)
          \/ HandlerCallsCatalog(c)
          \/ Quietly(ReadSequence(c))
          \/ ServerCompose(c)
          \/ Quietly(get_permit_and_verify_catalog_batch(c))
          \/ Quietly(Persist(c))
          \/ ServerPersistFails(c)
          \/ Quietly(PersistConflict(c))
          \/ ServerApply(c)
          \/ ServerReturnToken(c)
    \/ Quietly(WriteCheckpoint)
    \/ ServerCrashAndRestart
    \/ Quietly(Tick)

ServerSpec == ServerInit /\ [][ServerNext]_all_vars

-----------------------------------------------------------------------------
(* Properties *)

\* The rule for a database name as validate_db_name documents it: not
\* empty, an ASCII letter or digit first, then letters, digits, '_' and '-',
\* and where a retention policy may follow, one '/' that is not the last
\* character.
IsValidDbName(name, accept_rp) ==
    /\ name # <<>>
    /\ name[1] = "alnum"
    /\ \A i \in 2..Len(name) :
          \/ name[i] \in {"alnum", "underscore", "hyphen"}
          \/ accept_rp /\ name[i] = V1_NAMESPACE_RP_SEPARATOR
    /\ Cardinality({i \in DOMAIN name : name[i] = V1_NAMESPACE_RP_SEPARATOR}) <= 1
    /\ name[Len(name)] # V1_NAMESPACE_RP_SEPARATOR

\* Every database of the catalog but the internal one has a name that the
\* documented rule allows, whichever endpoint created it: create_database,
\* or a write that creates its database on the way (write_lp_inner calls
\* validate_db_name and NamespaceName::new before the write buffer's
\* db_or_create).
DatabaseNamesAreValid ==
    \A db \in Resources(inner.databases) :
        db.name # INTERNAL_DB_NAME => IsValidDbName(db.name[1], TRUE)

\* A client that presents no token is sent a token at most once: the
\* operator token of a catalog that has none.  route_request lets only
\* create_admin_token in without authentication, and of two such requests
\* that race through the write path one loses at the log and finds the
\* token of the other when it composes again.
OperatorTokenHandedOutOnce ==
    Cardinality({h \in handed : ~h.authenticated}) <= 1

\* What a client is sent as the body of a query is the rows of the stream
\* the executor returns, well formed: the whole of them if the stream is
\* read to its end, and the beginning of them if it fails, whatever the
\* stream, however its rows come in batches and whichever batches are
\* empty.  This is about the state of JsonFuture and the first_poll of
\* CsvFuture in record_batch_stream_to_body, which are kept across the
\* polls of a body and decide what goes around the rows.
BodyIsWellFormed ==
    \A c \in Writers :
        (/\ conn[c].pc = "routed"
         /\ IsOk(PlanOf(c))
         /\ PlanOf(c).val.format \in Streamed) =>
            PlanOf(c).val.format \in WellFormedFormats

=============================================================================
