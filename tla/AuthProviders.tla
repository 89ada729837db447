--------------------------- MODULE AuthProviders ---------------------------
(***************************************************************************)
(* The authorization half of a server, without its token verifier: how     *)
(* AuthMetadataBuilder turns its fields into the two metadata documents,   *)
(* what each provider configures, and what it answers at its endpoints.    *)
(*                                                                         *)
(*   rust-mcp-sdk/src/auth/{metadata,auth_provider}.rs, auth/spec/         *)
(*   discovery.rs, auth/auth_provider/remote_auth_provider.rs              *)
(*   rust-mcp-extra/src/auth_provider/{keycloak,work_os,scalekit}.rs       *)
(*                                                                         *)
(* An Option is the set of its values, a Result that may fail as well: {}  *)
(* is None or the error. A URL is its origin and the segments of its path, *)
(* as the url crate keeps them: "/" is <<"">> and "/mcp/" is <<"mcp","">>. *)
(***************************************************************************)
EXTENDS Naturals, Sequences, SequencesExt

None == {}

DefaultPort == 0

AbsUrl(host, port, path) == [form |-> "abs", host |-> host, port |-> port, path |-> path]

\* A path below a base URL, and a string that parses as no URL.
RelUrl(path) == [AbsUrl("-", DefaultPort, path) EXCEPT !.form = "rel"]

BadUrl == [AbsUrl("-", DefaultPort, <<"">>) EXCEPT !.form = "bad"]

TrailingSlash(path) == path # <<>> /\ Last(path) = ""

\* trim_end_matches('/') of a URL or a path.
TrimPath(path) == IF TrailingSlash(path) THEN Front(path) ELSE path

\* join_url: an empty last segment is replaced, empty segments are dropped.
JoinUrl(base, segments) ==
    [base EXCEPT !.path = TrimPath(@) \o SelectSeq(segments, LAMBDA s : s # "")]

-----------------------------------------------------------------------------
\* parse_url_field: the URL, or {} when it is missing or does not parse.
ParseUrlField(value, base) ==
    {v \in value : v.form = "abs"}
      \cup {JoinUrl(b, v.path) : v \in {w \in value : w.form = "rel"}, b \in base}

\* parse_optional_url_field: the Option, or {} when it does not parse.
ParseOptionalUrlField(value, base) ==
    IF value = None THEN {None}
    ELSE {u \in {ParseUrlField(value, base)} : u # None}

IssuerRelative == {"registration_endpoint", "revocation_endpoint",
                   "introspection_endpoint", "jwks_uri"}

OptionalUrls == IssuerRelative \cup {"service_documentation", "resource_policy_uri"}

Lists == {"scopes_supported", "response_types_supported", "grant_types_supported",
          "token_endpoint_auth_methods_supported", "code_challenge_methods_supported"}

\* AuthMetadataBuilder: every field is an Option.
Fields == {"issuer", "authorization_endpoint", "token_endpoint", "resource",
           "authorization_servers", "required_scopes", "resource_name"}
            \cup OptionalUrls \cup Lists

\* with_defaults and new.
WithDefaults(resource) ==
    [f \in Fields |->
       CASE f = "response_types_supported" -> {{"code"}}
         [] f = "code_challenge_methods_supported" -> {{"S256"}}
         [] f = "token_endpoint_auth_methods_supported" -> {{"client_secret_post"}}
         [] f = "grant_types_supported" -> {{"authorization_code", "refresh_token"}}
         [] f = "resource" -> {resource}
         [] OTHER -> None]

\* from_discovery_url: the fields of the document, of which only the issuer
\* must be there. The issuer is also the authorization server.
FromDiscoveryUrl(doc, resource, scopes) ==
    {[f \in Fields |->
        CASE f = "required_scopes" -> {scopes}
          [] f = "resource" -> {resource}
          [] f = "authorization_servers" -> {<<i>>}
          [] f \in DOMAIN doc /\ f # "resource_name" -> {doc[f]}
          [] OTHER -> None] : i \in {doc[f] : f \in DOMAIN doc \cap {"issuer"}}}

\* The setters of the builder.
With(builder, field, value) == [builder EXCEPT ![field] = {value}]

\* A setter that is called only if the option is given.
WithOption(builder, field, option) ==
    IF option = None THEN builder ELSE [builder EXCEPT ![field] = option]

\* The servers named by the protected resource: at least one, all absolute.
ParseServers(servers) ==
    {s \in servers : s # <<>> /\ \A i \in DOMAIN s : s[i].form = "abs"}

\* The fields of AuthorizationServerMetadata.
ServerFields == {"issuer", "authorization_endpoint", "token_endpoint"}
                  \cup IssuerRelative \cup Lists

\* AuthorizationServerMetadata::new, or read by from_discovery_url: three URLs are
\* mandatory, and every URL is absolute.
AuthorizationServerMetadata(doc) ==
    {[f \in ServerFields |-> IF f \in DOMAIN d THEN {d[f]} ELSE None] :
       d \in {x \in {doc} :
               /\ {"issuer", "authorization_endpoint", "token_endpoint"} \subseteq DOMAIN x
               /\ \A f \in DOMAIN x \ Lists : x[f].form = "abs"}}

\* OauthProtectedResourceMetadata::new: the resource and its servers.
OauthProtectedResourceMetadata(resource, servers, scopes) ==
    {[resource |-> r, authorization_servers |-> s, jwks_uri |-> None,
      scopes_supported |-> scopes, resource_name |-> None] :
       r \in {u \in {resource} : u.form = "abs"}, s \in {x \in {servers} : \A i \in DOMAIN x : x[i].form = "abs"}}

\* build: both documents, or {} if a mandatory field is missing or any URL does
\* not parse. Endpoints may be relative to the issuer, nothing else may.
Build(builder) ==
    LET issuer == ParseUrlField(builder["issuer"], None)
        required(f) == ParseUrlField(builder[f], issuer)
        optional(f) == ParseOptionalUrlField(
                         builder[f], IF f \in IssuerRelative THEN issuer ELSE None)
        server == [f \in ServerFields |->
                     CASE f \in IssuerRelative -> UNION optional(f)
                       [] f \in Lists -> builder[f]
                       [] OTHER -> required(f)]
    IN {[as |-> server,
         prm |-> [resource |-> r, authorization_servers |-> s,
                  jwks_uri |-> server["jwks_uri"],
                  scopes_supported |-> builder["required_scopes"],
                  resource_name |-> builder["resource_name"]]] :
          r \in {u \in ParseUrlField(builder["resource"], None) :
                   /\ issuer # None
                   /\ server["authorization_endpoint"] # None
                   /\ server["token_endpoint"] # None
                   /\ \A f \in OptionalUrls : optional(f) # None},
          s \in ParseServers(builder["authorization_servers"])}

-----------------------------------------------------------------------------
WellKnown(doc) == <<".well-known", doc>>

\* Faulty variant: the root path keeps its slash.
Mut_ProtectedResourceMetadataPath(path) == WellKnown("oauth-protected-resource") \o path

\* create_protected_resource_metadata_url; OauthMetadata::endpoints agrees.
ProtectedResourceMetadataPath(path) ==
    WellKnown("oauth-protected-resource") \o (IF path = <<"">> THEN <<>> ELSE path)

\* url_base: scheme and host, without the port.
UrlBase(url) == [url EXCEPT !.port = DefaultPort, !.path = <<"">>]

\* create_discovery_endpoints and the first half of RemoteAuthProvider::new: the
\* endpoints served and the URL announced in challenges.
CreateDiscoveryEndpoints(server) ==
    {[map |-> [p \in {WellKnown("oauth-authorization-server"),
                      ProtectedResourceMetadataPath(s.path)} |->
                 IF p = WellKnown("oauth-authorization-server") THEN "as" ELSE "prm"],
      url |-> [UrlBase(s) EXCEPT !.path = ProtectedResourceMetadataPath(s.path)]] :
        s \in {u \in {server} : u.form = "abs"}}

\* resolve_audience: the resource itself unless told otherwise.
ResolveAudience(disable, explicit, resource) ==
    CASE disable -> None
      [] ~disable /\ explicit # None -> explicit
      [] OTHER -> {<<resource>>}

\* A provider: its documents, its endpoints, the strategies of its verifier with
\* what they validate, and the scopes its middleware requires.
Provider(endpoints, documents, strategies, audience, issuer, required) ==
    [map |-> endpoints.map, url |-> endpoints.url, as |-> documents.as,
     prm |-> documents.prm, strategies |-> strategies, audience |-> audience,
     issuer |-> {[u EXCEPT !.path = TrimPath(@)] : u \in issuer},
     required |-> required]

\* What the two fixed providers set on a builder of their own.
OwnBuilder(o, auth, token, jwks, introspect, register, supported) ==
    LET b1 == With(WithDefaults(o.server), "issuer", o.base)
        b2 == With(With(b1, "authorization_servers", <<o.base>>),
                   "authorization_endpoint", RelUrl(auth))
        b3 == With(With(b2, "introspection_endpoint", RelUrl(introspect)),
                   "registration_endpoint", RelUrl(register))
        b4 == With(With(b3, "token_endpoint", RelUrl(token)), "jwks_uri", RelUrl(jwks))
        b5 == With(b4, "scopes_supported",
                   IF o.scopes = None THEN supported ELSE UNION o.scopes)
    IN WithOption(WithOption(WithOption(b5, "required_scopes", o.scopes),
                             "resource_name", o.name),
                  "service_documentation", o.doc)

\* KeycloakAuthProvider::new: introspection with credentials, else UserInfo if
\* openid is required. The required scopes are published, not required.
KeycloakAuthProvider(o) ==
    LET oidc(s) == <<"protocol", "openid-connect", s>>
        builder == With(OwnBuilder(o, oidc("auth"), oidc("token"), oidc("certs"),
                                   oidc("introspect"), oidc("register"),
                                   {"openid", "mcp:tools"}),
                        "revocation_endpoint", RelUrl(oidc("revoke")))
        other == CASE o.credentials -> {"introspection"}
                   [] ~o.credentials /\ \E s \in o.scopes : "openid" \in s -> {"userinfo"}
                   [] OTHER -> {}
    IN {Provider(e, d, {"jwks"} \cup other,
                 ResolveAudience(o.disable, o.audience, o.server), {o.base}, None) :
          e \in CreateDiscoveryEndpoints(o.server), d \in Build(builder)}

\* WorkOsAuthProvider::new: JWKs and UserInfo.
WorkOsAuthProvider(o) ==
    LET builder == OwnBuilder(o, <<"oauth2", "authorize">>, <<"oauth2", "token">>,
                              <<"oauth2", "jwks">>, <<"oauth2", "introspection">>,
                              <<"oauth2", "register">>, {"openid", "email"})
    IN {Provider(e, d, {"jwks", "userinfo"},
                 ResolveAudience(o.disable, o.audience, o.server), {o.base}, None) :
          e \in CreateDiscoveryEndpoints(o.server), d \in Build(builder)}

\* ScalekitAuthProvider::new once its discovery document has arrived: JWKs only,
\* and an error if the document names none.
ScalekitAuthProvider(o, doc) ==
    LET filled(b) ==
            WithOption(WithOption(With(b, "authorization_servers",
                                       <<JoinUrl(o.base, <<"resources", "id">>)>>),
                                  "resource_name", o.name),
                       "service_documentation", o.doc)
    IN {Provider(e, d, {"jwks"},
                 ResolveAudience(o.disable, o.audience, o.server), {o.base}, None) :
          e \in CreateDiscoveryEndpoints(o.server),
          d \in {x \in UNION {Build(filled(b)) :
                              b \in FromDiscoveryUrl(doc, o.server, UNION o.scopes)} :
                   x.as["jwks_uri"] # None}}

\* with_remote_metadata_url, once the document has arrived, and new with any
\* verifier: the only provider that requires scopes of a token.
RemoteAuthProvider(o, doc, strategies) ==
    {Provider(e, [as |-> a, prm |-> d], strategies, o.audience, {o.base}, o.scopes) :
       a \in AuthorizationServerMetadata(doc),
       d \in OauthProtectedResourceMetadata(o.server, <<o.base>>, o.scopes),
       e \in CreateDiscoveryEndpoints(o.server)}

-----------------------------------------------------------------------------
\* endpoint_type: looked up by the path alone.
EndpointType(provider, path) ==
    IF path \in DOMAIN provider.map THEN {provider.map[path]} ELSE None

\* validate_allowed_methods of the two metadata documents.
AllowedMethods == {"GET", "HEAD", "OPTIONS"}

\* handle_request: the status, and the document that is served.
HandleRequest(provider, method, path) ==
    CASE EndpointType(provider, path) = None -> [status |-> 404, doc |-> None]
      [] EndpointType(provider, path) # None /\ method \notin AllowedMethods ->
           [status |-> 405, doc |-> None]
      [] EndpointType(provider, path) # None /\ method = "OPTIONS" ->
           [status |-> 204, doc |-> None]
      [] OTHER -> [status |-> 200, doc |-> EndpointType(provider, path)]
=============================================================================
