--------------------------- MODULE AuthDiscovery ---------------------------
(***************************************************************************)
(* The pure half of the OAuth client: where authorization-server metadata  *)
(* and protected-resource metadata are looked for, how a scope is chosen   *)
(* and how a WWW-Authenticate challenge is read.                           *)
(*                                                                         *)
(*   auth/client_auth/{discovery,scope,www_authenticate,token,pkce}.rs     *)
(*   conformance-client/src/bin/client/auth/discovery.rs                   *)
(*                                                                         *)
(* A URL is the host it names and the well-known form it takes; a site is  *)
(* a configured base URL, of which only the shape of the path matters. A   *)
(* scope string is the set of its words, {} for an absent or blank one. A  *)
(* network is the record [up: the URLs that serve a document, prm: the     *)
(* protected-resource document, challenge: the parameters of the           *)
(* WWW-Authenticate header, as: what each authorization server offers].    *)
(***************************************************************************)
EXTENDS Naturals, Sequences, SequencesExt

NoHost == "-"

\* A base URL: its host and whether it has a path or does not parse at all.
Site(h, path) == [host |-> h, path |-> path]

\* A well-known URL of host h.
Url(h, doc, style) == [host |-> h, doc |-> doc, style |-> style]

\* The metadata of host h, which is all a successful fetch of url yields.
SiteOf(net, h) == Site(h, net.as[h].path)

-----------------------------------------------------------------------------
\* metadata_url_fallbacks: the URLs tried, in this order.
MetadataUrlFallbacks(site) ==
    CASE site.path = "opaque" -> <<Url(site.host, "oauth", "append")>>
      [] site.path = "path"   -> <<Url(site.host, "oauth", "prepend"),
                                   Url(site.host, "oidc", "prepend"),
                                   Url(site.host, "oidc", "append")>>
      [] OTHER                -> <<Url(site.host, "oauth", "root"),
                                   Url(site.host, "oidc", "root")>>

\* prm_url_candidates: the URL of the challenge first, then the well-known ones.
PrmUrlCandidates(site, explicit) ==
    SetToSeq(explicit)
      \o CASE site.path = "opaque" -> <<>>
           [] site.path = "path"   -> <<Url(site.host, "prm", "prepend"),
                                        Url(site.host, "prm", "root")>>
           [] OTHER                -> <<Url(site.host, "prm", "root")>>

\* try_fetch_metadata / fetch_protected_resource_metadata in a loop over urls:
\* the host of the first URL that answers with a document, or NoHost.
FirstUp(urls, up) ==
    LET hit == SelectSeq(urls, LAMBDA u : u \in up)
    IN IF hit = <<>> THEN NoHost ELSE Head(hit).host

\* discover_protected_resource_metadata finds a document.
FindsPrm(site, explicit, up) == FirstUp(PrmUrlCandidates(site, explicit), up) # NoHost

\* Every URL tried for the authorization servers the document names, in order.
ServerUrls(net) ==
    FlattenSeq([i \in DOMAIN net.prm.servers |->
                  MetadataUrlFallbacks(SiteOf(net, net.prm.servers[i]))])

\* discover_oauth_server_info: the protected-resource document first, the
\* server itself as a fallback. The authorization server found, or NoHost.
DiscoverOauthServerInfo(net, site, explicit, up) ==
    LET named == IF FindsPrm(site, explicit, up)
                   THEN FirstUp(ServerUrls(net), up) ELSE NoHost
    IN IF named # NoHost THEN named ELSE FirstUp(MetadataUrlFallbacks(site), up)

-----------------------------------------------------------------------------
\* The parameters of the WWW-Authenticate header with which h answers a request
\* without a token: only the MCP server protects anything.
Challenge(net, h) == IF h = "mcp" THEN net.challenge ELSE <<>>

\* parse_www_authenticate_param: the first non-empty value of the parameter.
ParseWwwAuthenticateParam(header, name) ==
    LET hits == SelectSeq(header, LAMBDA p : p.name = name /\ p.value # {})
    IN IF hits = <<>> THEN {} ELSE Head(hits).value

\* select_scope: the challenge, then the document, then the configuration.
SelectScope(challenged, supported, configured) ==
    CASE challenged # {} -> challenged
      [] challenged = {} /\ supported # {} -> supported
      [] OTHER -> configured

\* Faulty variant: the challenge replaces what was granted before.
Mut_UnionScopes(prior, challenged) == IF challenged = {} THEN prior ELSE challenged

\* union_scopes: the words of both, once each.
UnionScopes(prior, challenged) == prior \cup challenged

\* compute_code_challenge of the verifier v; SHA-256 keeps verifiers apart.
CodeChallenge(v) == <<"S256", v>>

\* generate_pkce_params: a verifier v never used before and its challenge.
PkceParams(v) == [verifier |-> v, challenge |-> CodeChallenge(v)]

\* TokenResponse::expires_at_secs, from the clock at the moment it is called;
\* 0 stands for a token without expires_in.
ExpiresAt(life, clock) == IF life = 0 THEN 0 ELSE clock + life

\* Faulty variant: no margin before the expiry.
Mut_IsExpired(exp, clock, margin) == exp # 0 /\ exp <= clock

\* CachedToken::is_expired and TokenResponse::is_expired, margin seconds early.
IsExpired(exp, clock, margin) == exp # 0 /\ exp <= clock + margin
=============================================================================
