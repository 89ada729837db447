---------------------------- MODULE HttpRequests ----------------------------
(***************************************************************************)
(* What the HTTP server decides about a request before it touches a        *)
(* session: the routes of the two frameworks, the chain of middlewares and *)
(* the checks of headers and bodies                                        *)
(* (crates/rust-mcp-sdk/src/mcp_http, crates/rust-mcp-axum/src and         *)
(* crates/rust-mcp-actix/src).                                             *)
(*                                                                         *)
(* A request q is a record of what the checks tell apart: its path and     *)
(* method, whether host and origin are listed, the kind of its token, the  *)
(* media types it accepts, its headers and the kind of its body.  A server *)
(* s is a record of the options that matter here.                          *)
(***************************************************************************)
EXTENDS Naturals, Sequences, SequencesExt

\* An answer: its status, whether it carries the CORS header, and whether it
\* is an McpHttpError on its way to the framework.
Response(status) == [status |-> status, cors |-> FALSE, err |-> FALSE]

\* The request goes on: nothing has answered it yet.
Passed == Response(0)

-----------------------------------------------------------------------------
(* Options: the fields of AxumServerOptions and ActixServerOptions the checks *)
(* depend on.                                                                *)

AxumOptions(s) ==
    /\ s.framework = "axum"
    /\ s.host \in {"named", "wildcard", "unresolved"}
    /\ s.ssl \in {"off", "good", "unset", "missing", "broken"}
    /\ {s.health, s.auth, s.json, s.sse} \subseteq BOOLEAN
    /\ s.cors = "off"

\* The same for actix.
ActixOptions(s) == AxumOptions([s EXCEPT !.framework = "axum"]) /\ s.framework = "actix"

\* A program that mounts McpHttpHandler itself may add a CORS middleware.
OwnOptions(s) ==
    /\ s.framework = "own" /\ s.ssl = "off" /\ s.host # "unresolved"
    /\ s.cors \in {"off", "any", "echo", "list"}

\* DnsRebindingOptions.
DnsOptions(s) ==
    /\ s.dns \in BOOLEAN
    /\ {s.hosts, s.origins} \subseteq {"unset", "empty", "listed"}

\* AxumServerOptions::validate: with SSL both paths are given and are files.
Validates(s) == s.ssl \in {"off", "good", "broken"}

\* ActixServerOptions::validate only wants the paths; the files are read when
\* the server binds.
ActixValidates(s) == s.ssl # "unset"

\* resolve_server_address.
Resolves(s) ==
    /\ IF s.framework = "actix" THEN ActixValidates(s) ELSE Validates(s)
    /\ s.host # "unresolved"

\* start_ssl and load_rustls_config read certificate and key.
Serves(s) == Resolves(s) /\ s.ssl \in {"off", "good"}

-----------------------------------------------------------------------------
(* Routes.                                                                   *)

\* The methods a path has routes for: axum mounts the OAuth endpoints of the
\* auth provider, actix passes no provider to its handler.  Both mount the SSE
\* endpoints whatever sse_support says.
Mounted(s) ==
    [mcp      |-> {"GET", "POST", "DELETE"},
     sse      |-> {"GET"},
     messages |-> {"POST"},
     health   |-> IF s.health THEN {"GET"} ELSE {},
     oauth    |-> IF s.auth /\ s.framework = "axum"
                  THEN {"GET", "POST", "DELETE", "OPTIONS"} ELSE {},
     other    |-> {}]

\* The framework's own answers: 404, 405, and 413 for a body above the limit
\* or 400 for one that is not UTF-8.
Route(s, q) ==
    IF s.framework = "own" THEN Passed
    ELSE IF Mounted(s)[q.path] = {} THEN Response(404)
    ELSE IF q.method \notin Mounted(s)[q.path] THEN Response(405)
    ELSE IF q.body = "large" THEN Response(413)
    ELSE IF q.body = "binary" THEN Response(400)
    ELSE Passed

\* What the frameworks make of an McpHttpError.
ErrorStatus(s, error) ==
    IF s.framework = "axum" THEN 500
    ELSE CASE error = "SessionIdMissing" -> 400
           [] error = "SessionIdInvalid" -> 404
           [] error = "TransportError"   -> 502
           [] OTHER                      -> 500

\* The error on its way through the chain.
HttpError(s, error) == [status |-> ErrorStatus(s, error), cors |-> FALSE, err |-> TRUE]

-----------------------------------------------------------------------------
(* Middlewares.                                                              *)

\* resolve_dns_middleware: the hosts are the configured ones, or the bind
\* address unless that is a wildcard.
ChecksHost(s) == s.hosts = "listed" \/ (s.hosts = "unset" /\ s.host # "wildcard")

\* A protector is made of what is configured, also of empty lists.
Protects(s) == s.dns /\ (s.hosts # "unset" \/ s.host # "wildcard" \/ s.origins # "unset")

\* protect_dns_rebinding: an empty list checks nothing, a missing header is
\* refused.
Rebinds(s, q) ==
    \/ ChecksHost(s) /\ q.host # "listed"
    \/ s.origins = "listed" /\ q.origin # "listed"


\* AuthMiddleware::validate and its error_response: the header's form, the
\* provider's verdict, the expiry (a token without one is refused), and the
\* required scopes, if the token has scopes.
Validate(q) ==
    CASE q.token \in {"none", "malformed", "unverified", "expired", "endless"} -> Response(401)
      [] q.token \in {"narrow", "forbidden"} -> Response(403)
      [] q.token = "unavailable" -> Response(400)
      [] OTHER                   -> Passed

\* resolve_allowed_origin.
AllowedOrigin(s, q) == s.cors # "list" \/ q.origin = "listed"

\* The OPTIONS branch of CorsMiddleware::handle.
Preflight(s, q) ==
    IF q.origin = "none"
    THEN IF s.cors = "any" THEN [Response(204) EXCEPT !.cors = TRUE] ELSE Response(400)
    ELSE IF ~ AllowedOrigin(s, q) THEN Response(403)
    ELSE IF q.asks.method \notin {"none", "GET", "POST", "OPTIONS"} THEN Response(405)
    ELSE IF ~ q.asks.headers THEN Response(400)
    ELSE [Response(204) EXCEPT !.cors = TRUE]

\* CorsMiddleware::handle for the other methods: an error of the inner
\* handler is returned as it is.
WithCors(s, q, next) ==
    IF next.err \/ q.origin = "none" \/ ~ AllowedOrigin(s, q) THEN next
    ELSE [next EXCEPT !.cors = TRUE]

\* Middleware::handle around the answer of the rest of the chain.
Around(mw, s, q, next) ==
    CASE mw = "dns"  -> IF Rebinds(s, q) THEN Response(403) ELSE next
      [] mw = "auth" -> IF Validate(q) # Passed THEN Validate(q) ELSE next
      [] mw = "cors" -> IF q.method = "OPTIONS" THEN Preflight(s, q) ELSE WithCors(s, q, next)

\* The middlewares in the order the servers add them; add_middleware appends.
Middlewares(s) ==
    (IF Protects(s) THEN <<"dns">> ELSE <<>>)
    \o (IF s.auth THEN <<"auth">> ELSE <<>>)
    \o (IF s.cors # "off" THEN <<"cors">> ELSE <<>>)

\* compose: the first middleware is the outermost.
Compose(mws, s, q, inner) ==
    FoldRight(LAMBDA mw, next : Around(mw, s, q, next), mws, inner)

\* The chain of an endpoint: health checks and OAuth endpoints have none.
Chain(s, q) == IF q.path \in {"health", "oauth"} THEN <<>> ELSE Middlewares(s)

-----------------------------------------------------------------------------
(* The checks of McpHttpHandler.                                             *)

\* parse_session_id_header: absent, or a short printable id.
Header(h) == IF h = "malformed" THEN Response(400) ELSE Passed

Versioned(q) == IF q.version = "unknown" THEN Response(400) ELSE Passed

\* The first check that answers.
FirstOf(checks) ==
    LET failing == SelectSeq(checks, LAMBDA c : c # Passed)
    IN  IF failing = <<>> THEN Passed ELSE Head(failing)

\* valid_initialize_method: one initialize request, or a batch with at most
\* one of them.
ValidInitialize(body) == body \in {"initialize", "batch", "empty"}

\* contains_request and is_result; an empty batch holds only results.
ContainsRequest(body) == body \in {"initialize", "call", "batch"}

IsResult(body) == body \in {"result", "empty"}

\* The payload is JSON, and a message of the protocol.
IsJson(body) == body # "garbage"

IsMessage(body) == body \notin {"garbage", "odd"}

CheckPost(q) ==
    FirstOf(<<IF {"json", "sse"} \subseteq q.accept THEN Passed ELSE Response(406),
              IF q.json THEN Passed ELSE Response(415),
              Versioned(q), Header(q.session),
              IF q.session = "none" /\ ~ ValidInitialize(q.body) THEN Response(400) ELSE Passed>>)

CheckGet(q) ==
    FirstOf(<<IF "sse" \in q.accept THEN Passed ELSE Response(406),
              Versioned(q), Header(q.session), Header(q.last),
              IF q.session = "none" THEN Response(400) ELSE Passed>>)

CheckDelete(q) ==
    FirstOf(<<Versioned(q), Header(q.session),
              IF q.session = "none" THEN Response(400) ELSE Passed>>)

\* The handler of a request that has passed the chain, up to the session.
Check(s, q) ==
    CASE q.path = "health"   -> Response(200)
      [] q.path = "oauth"    -> Response(200)
      [] q.path = "sse"      -> Passed
      [] q.path = "messages" -> IF q.session = "none" THEN HttpError(s, "SessionIdMissing")
                                ELSE Passed
      [] q.method = "POST"   -> CheckPost(q)
      [] q.method = "GET"    -> CheckGet(q)
      [] q.method = "DELETE" -> CheckDelete(q)
      [] OTHER               -> Response(405)

=============================================================================
