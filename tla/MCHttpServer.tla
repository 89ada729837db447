---------------------------- MODULE MCHttpServer ----------------------------
(***************************************************************************)
(* Model-checking instances of HttpServer: servers, each with the requests  *)
(* that bring out its interesting cases.                                   *)
(***************************************************************************)
EXTENDS HttpServer, TLC

CONSTANTS r1, r2, r3

MCReqs == {r1, r2, r3}

\* Options and requests are variations of plain ones.
Plain == [framework |-> "axum", host |-> "named", ssl |-> "off", sse |-> TRUE, health |-> TRUE,
          dns |-> TRUE, hosts |-> "unset", origins |-> "unset", auth |-> FALSE, cors |-> "off",
          json |-> FALSE, idle |-> FALSE, asks |-> FALSE, polls |-> FALSE, notes |-> FALSE,
          stops |-> FALSE, strays |-> FALSE]

Request == [path |-> "mcp", method |-> "POST", host |-> "listed", origin |-> "none",
            token |-> "none", accept |-> {"json", "sse"}, json |-> TRUE, version |-> "none",
            session |-> "given", last |-> "none", body |-> "call",
            asks |-> [method |-> "POST", headers |-> TRUE]]

Server(options, first, second, third) ==
    options @@ [menu |-> (r1 :> first @@ r2 :> second @@ r3 :> third)]

With(body) == [Request EXCEPT !.body = body]
Start == [With("initialize") EXCEPT !.session = "none"]
Batch == [With("batch") EXCEPT !.session = "none"]
Get == [Request EXCEPT !.method = "GET", !.body = "none"]
Delete == [Get EXCEPT !.method = "DELETE"]
Sse == [Get EXCEPT !.path = "sse", !.session = "none"]
Messages(body) == [With(body) EXCEPT !.path = "messages"]
Token(q, token) == [q EXCEPT !.token = token]
Origin(q, origin) == [q EXCEPT !.origin = origin]

\* Streamable HTTP: calls, streams and a DELETE race on one session.
Streamable ==
    Server(Plain, {Start}, {Get, With("call"), With("odd")}, {Delete, Get, Token(With("note"), "ok1")})

\* The server notifies and asks its client, which answers on a POST.
Asking ==
    Server([Plain EXCEPT !.asks = TRUE, !.polls = TRUE], {Start}, {Get}, {With("result")})

\* JSON responses.
Json ==
    Server([Plain EXCEPT !.json = TRUE, !.notes = TRUE], {Start},
           {With("call"), With("odd")}, {With("note")})

JsonAsking ==
    Server([Plain EXCEPT !.json = TRUE, !.asks = TRUE], {Start}, {Get}, {With("result")})

\* The SSE transport on actix, with a store for one session.
OldSse ==
    Server([Plain EXCEPT !.framework = "actix", !.idle = TRUE],
           {Sse}, {Messages("call"), Sse}, {Messages("note"), Start})

SseAsking ==
    Server([Plain EXCEPT !.framework = "actix", !.asks = TRUE], {Sse}, {Messages("result")}, {})

\* Servers that are stopped.
Stopped(framework) ==
    Server([Plain EXCEPT !.framework = framework, !.stops = TRUE], {Sse, Batch}, {Get}, {})

\* Servers that do not start.
Misfit(framework, ssl) ==
    Server([Plain EXCEPT !.framework = framework, !.ssl = ssl], {Start}, {}, {})

\* A server without the old transport.
NoSse == Server([Plain EXCEPT !.sse = FALSE], {Sse}, {}, {})

\* Requests that are turned away, on the way or by the session store.
Refusing ==
    Server([Plain EXCEPT !.strays = TRUE, !.auth = TRUE],
           {Token(q, "ok1") : q \in
              {Start, [Start EXCEPT !.host = "other"], [Start EXCEPT !.json = FALSE],
               [Start EXCEPT !.path = "oauth"], [Start EXCEPT !.path = "other"],
               [Get EXCEPT !.path = "health"], [Get EXCEPT !.method = "PATCH"]}},
           {Token(q, "ok1") : q \in
              {Get, Request, Delete, Messages("call"), With("garbage"), With("large"),
               [Get EXCEPT !.accept = {"json"}], [Get EXCEPT !.last = "malformed"],
               [Delete EXCEPT !.session = "none"], [Messages("call") EXCEPT !.session = "none"]}},
           {})

\* Authentication and CORS in front of a handler mounted by the program itself.
Guarded ==
    Server([Plain EXCEPT !.framework = "own", !.host = "wildcard", !.origins = "listed",
                         !.auth = TRUE, !.cors = "list"],
           {Origin(Token(Start, t), "listed") : t \in {"ok1", "expired", "narrow", "unavailable"}}
             \union {Token(Start, "ok1")},
           {Origin(Token(Request, t), "listed") : t \in {"ok1", "ok2", "none"}}
             \union {[Origin(Token(Request, "ok1"), "listed") EXCEPT !.method = "OPTIONS"],
                     [Origin(Token(Request, "ok1"), "listed") EXCEPT !.method = "PUT"]},
           {Origin(Token(Get, t), "listed") : t \in {"ok1", "ok2"}}
             \union {Origin(Token(Get, "ok2"), "other")})

\* CORS in front of everything, for any origin.
Shared ==
    Server([Plain EXCEPT !.framework = "own", !.dns = FALSE, !.cors = "any"],
           {Origin(Start, "other"), [Start EXCEPT !.method = "OPTIONS"]},
           {Origin(Get, "other"), [Request EXCEPT !.version = "unknown"],
            [Origin(Request, "other") EXCEPT !.method = "OPTIONS", !.asks.method = "DELETE"]},
           {Origin(Delete, "other"), [Origin(Request, "other") EXCEPT !.session = "malformed"],
            [Origin(Request, "other") EXCEPT !.method = "OPTIONS", !.asks.headers = FALSE]})

MCConfs == {Streamable, Asking, Json, OldSse, SseAsking, Stopped("axum"), Stopped("actix"),
            Refusing, Guarded, Shared, JsonAsking, NoSse}
           \union {Misfit(f, ssl) : f \in {"axum", "actix"}, ssl \in {"unset", "missing", "broken"}}

=============================================================================
