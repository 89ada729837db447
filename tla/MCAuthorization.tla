-------------------------- MODULE MCAuthorization --------------------------
(***************************************************************************)
(* AuthScenario and TokenVerifier for TLC: a client that gets a token, or  *)
(* a server that verifies tokens.                                          *)
(***************************************************************************)
EXTENDS AuthScenario, TokenVerifier

VARIABLE part    \* the side that runs

-----------------------------------------------------------------------------
(* The client's settings.                                                    *)

\* What an authorization server offers.
As(path, reg, cimd, methods, code) ==
    [path |-> path, reg |-> reg, cimd |-> cimd, methods |-> methods, code |-> code]

\* The MCP server is its own authorization server, found at its second URL.
OwnNet(ops, life, refresh, rotate) ==
    [up |-> {Url("mcp", "oidc", "prepend")},
     prm |-> [servers |-> <<>>, scopes |-> {}],
     challenge |-> <<>>,
     needs |-> {"call"},
     as |-> [h \in {"mcp"} |-> As("path", TRUE, FALSE, {}, TRUE)],
     life |-> life, refresh |-> refresh, rotate |-> rotate, ops |-> ops]

\* The MCP server names two authorization servers in its challenge.
NamedNet(ops, explicit, methods) ==
    [up |-> {Url("mcp", "prm", IF explicit THEN "other" ELSE "root"),
             Url("as1", "oidc", "root"), Url("as2", "oauth", "append")},
     prm |-> [servers |-> <<"as1", "as2">>, scopes |-> {"read"}],
     challenge |-> <<[name |-> "error", value |-> {"invalid_token"}]>>
                   \o IF explicit
                        THEN <<[name |-> "scope", value |-> {}],
                               [name |-> "scope", value |-> {"init"}],
                               [name |-> "resource_metadata",
                                value |-> {Url("mcp", "prm", "other")}]>>
                        ELSE <<>>,
     needs |-> {"call"},
     as |-> [h \in {"as1", "as2"} |->
               IF h = "as1" THEN As("none", FALSE, TRUE, methods, TRUE)
                            ELSE As("opaque", TRUE, FALSE, methods, TRUE)],
     life |-> 0, refresh |-> TRUE, rotate |-> TRUE, ops |-> ops]

\* Nothing is found.
NoNet(ops) == [OwnNet(ops, 0, FALSE, FALSE) EXCEPT !.up = {}]

Cfg(path, metadata, client, secret, cimd, redirect) ==
    [server |-> Site("mcp", path), metadata |-> metadata, client |-> client,
     secret |-> secret, cimd |-> cimd, scope |-> {"read"}, redirect |-> redirect]

Bound(calls, time, lost) == [calls |-> calls, time |-> time, faults |-> lost]

\* Tokens that expire and refresh tokens that are used up.
Expiring ==
    {[net |-> OwnNet({"get_token"}, 3, TRUE, TRUE), bound |-> Bound(3, 3, 0),
      cfg |-> Cfg("path", "mcp", TRUE, TRUE, FALSE, FALSE)]}

\* Every client registers anew for every exchange, and requests are lost.
Registering ==
    {[net |-> OwnNet({"get_token", "authorize", "register"}, 0, TRUE, FALSE),
      bound |-> Bound(2, 0, 1),
      cfg |-> Cfg("path", NoHost, FALSE, FALSE, FALSE, TRUE)]}

\* The authorization servers are found through the challenge.
Naming ==
    {[net |-> NamedNet({"authenticate", "discover", "authorize"}, explicit, methods),
      bound |-> Bound(2, 0, 1),
      cfg |-> Cfg("none", NoHost, FALSE, FALSE, TRUE, FALSE)] :
       explicit \in BOOLEAN, methods \in {{"post"}, {"none"}}}

\* There is nothing to find.
Nothing ==
    {[net |-> NoNet({"discover"}), bound |-> Bound(1, 0, 0),
      cfg |-> Cfg(path, NoHost, FALSE, FALSE, FALSE, FALSE)] : path \in {"none", "path", "opaque"}}

\* The conformance scenarios: the code flow and client credentials.
Scenarios ==
    {[net |-> [NamedNet({}, explicit, {}) EXCEPT !.as["as1"].code = code,
                                                 !.as["as1"].cimd = cimd],
      bound |-> Bound(0, 0, 1),
      cfg |-> Cfg("none", NoHost, client, client, TRUE, TRUE)] :
       explicit \in BOOLEAN, code \in BOOLEAN, cimd \in BOOLEAN, client \in BOOLEAN}
    \cup {[net |-> [NoNet({}) EXCEPT !.up = up], bound |-> Bound(0, 0, 0),
           cfg |-> Cfg("path", NoHost, TRUE, TRUE, TRUE, TRUE)] :
            up \in {{}, {Url("mcp", "oauth", "prepend")}}}

MCSettings == Scenarios \cup Expiring \cup Registering \cup Naming \cup Nothing

-----------------------------------------------------------------------------
(* The server's deployments.                                                 *)

Server(port, path) == AbsUrl("mcp", port, path)

Issuer == AbsUrl("idp", DefaultPort, <<"realm">>)

Options(server, scopes, credentials, audience, disable) ==
    [base |-> Issuer, server |-> server, scopes |-> scopes, credentials |-> credentials,
     audience |-> audience, disable |-> disable, name |-> {"name"}, doc |-> None]

\* A token for the server: signed with key, known to introspection by its jti if
\* echo holds.
Token(key, jti, echo, exp, server) ==
    [alg |-> TRUE, kid |-> {key}, key |-> key, jti |-> jti, echo |-> echo, exp |-> exp,
     aud |-> {<<server>>}, iss |-> {Issuer}, scopes |-> {{"openid"}}]

Limits(calls, time, losses, rotations, revocations) ==
    [calls |-> calls, time |-> time, losses |-> losses, rotations |-> rotations,
     revocations |-> revocations]

Deployment(kind, o, strategies, doc, tokens, first, capacity, limits) ==
    [kind |-> kind, o |-> o, strategies |-> strategies, doc |-> doc, tokens |-> tokens,
     published |-> first, capacity |-> capacity, bound |-> limits]

Home == Server(DefaultPort, <<"mcp">>)

\* A discovery document; the empty one lacks its issuer.
Document ==
    [issuer |-> Issuer, authorization_endpoint |-> RelUrl(<<"auth">>),
     token_endpoint |-> RelUrl(<<"token">>), jwks_uri |-> RelUrl(<<"jwks">>)]

Absolute == [f \in DOMAIN Document |-> AbsUrl("idp", DefaultPort, <<f>>)]

NoJwks == [f \in DOMAIN Document \ {"jwks_uri"} |-> Document[f]]

Capacity == 1000

Two == [a |-> Token("k1", {"ja"}, TRUE, {9}, Home), b |-> Token("k2", None, TRUE, {9}, Home)]

One == [a |-> Token("k1", {"ja"}, TRUE, {9}, Home)]

\* Keys rotate under a verifier that only knows keys.
Rotating ==
    {Deployment("keycloak", Options(Home, None, FALSE, None, FALSE), {}, <<>>, Two, {"k1"},
                Capacity, Limits(3, 5, 0, 1, 0))}

\* Tokens are revoked under verifiers that also ask the server.
Revoking ==
    {Deployment("keycloak", Options(Home, None, TRUE, None, FALSE), {}, <<>>, One, {"k1"},
                Capacity, Limits(3, 4, 1, 0, 1)),
     Deployment("workos", Options(Home, None, FALSE, None, FALSE), {}, <<>>, One, {"k1"},
                Capacity, Limits(2, 4, 0, 0, 1))}

\* Three tokens compete for a small cache; one is not introspected by its jti.
Three == [a |-> Token("k1", {"ja"}, TRUE, {9}, Home), b |-> Token("k1", {"jb"}, FALSE, {9}, Home),
          c |-> Token("k1", None, TRUE, {9}, Home)]

Crowded ==
    {Deployment("remote", Options(Home, None, FALSE, None, TRUE), {"jwks", "introspection"},
                Absolute, Three, {"k1"}, capacity, Limits(3, 2, 0, 0, 0)) : capacity \in {0, 2}}

\* Tokens that are refused, or admitted at the edge of their life.
Odd ==
    [plain  |-> Token("k1", None, TRUE, {1}, Home),
     alg    |-> [Token("k1", None, TRUE, {9}, Home) EXCEPT !.alg = FALSE],
     nokid  |-> [Token("k1", None, TRUE, {9}, Home) EXCEPT !.kid = None],
     forged |-> [Token("k2", None, TRUE, {9}, Home) EXCEPT !.kid = {"k1"}],
     other  |-> Token("k1", None, TRUE, {9}, Issuer),
     iss    |-> [Token("k1", None, TRUE, {9}, Home) EXCEPT !.iss = {Home}],
     noexp  |-> Token("k1", None, TRUE, None, Home),
     narrow |-> [Token("k1", None, TRUE, {9}, Home) EXCEPT !.scopes = {{"email"}}]]

Strict ==
    {Deployment("remote", Options(Home, {{"openid"}}, FALSE, {<<Home>>}, FALSE), strategies,
                Absolute, Odd, {"k1"}, 1, Limits(1, 3, 1, 0, 0)) :
       strategies \in {{}, {"jwks"}, {"introspection"}, {"userinfo"}, {"jwks", "userinfo"}}}

\* Servers with and without port and trailing slash, and broken configurations.
Sited ==
    {Deployment(kind, Options(Server(port, path), {{"openid"}}, FALSE, None, FALSE), {"jwks"},
                doc, One, {"k1"}, Capacity, Limits(0, 0, 1, 0, 0)) :
       kind \in {"keycloak", "workos", "scalekit", "remote"}, port \in {DefaultPort, 3000},
       path \in {<<"">>, <<"mcp">>, <<"mcp", "">>}, doc \in {Document, Absolute, NoJwks, <<>>}}
    \cup {Deployment(kind, [Options(BadUrl, None, FALSE, None, FALSE) EXCEPT !.base = base],
                     {"jwks"}, Document, One, {"k1"}, Capacity, Limits(0, 0, 0, 0, 0)) :
            kind \in {"keycloak", "workos", "scalekit", "remote"}, base \in {Issuer, BadUrl}}

MCDeployments == Rotating \cup Revoking \cup Crowded \cup Strict \cup Sited

-----------------------------------------------------------------------------
(* Both sides.                                                               *)

AuthorizationInit ==
    /\ SuiteInit /\ VerifierInit
    /\ \/ part = "client" /\ deployment \in Rotating
       \/ part = "server" /\ net = NoNet({"discover"}) /\ cfg.server.path = "none"

AuthorizationNext ==
    \/ part = "client" /\ SuiteNext /\ UNCHANGED <<part, verifierVars>>
    \/ part = "server" /\ VerifierNext /\ UNCHANGED <<part, allVars>>

AuthorizationSpec ==
    AuthorizationInit /\ [][AuthorizationNext]_<<part, allVars, verifierVars>>

=============================================================================
