--------------------------- MODULE TokenVerifier ---------------------------
(***************************************************************************)
(* GenericOauthTokenVerifier behind an auth provider, and the middleware   *)
(* that asks it: concurrent requests verify bearer tokens against a cached *)
(* key set and a cache of recent remote verifications, while the           *)
(* authorization server rotates its keys and revokes tokens.               *)
(*                                                                         *)
(*   rust-mcp-extra/src/token_verifier/{generic_token_verifier,jwt_cache}  *)
(*   rust-mcp-sdk/src/auth/{auth_info,spec/jwk,spec/audience}.rs           *)
(*   rust-mcp-sdk/src/mcp_http/middleware/auth_middleware.rs               *)
(*                                                                         *)
(* A token is a record of its header and claims, of the key that signed    *)
(* it and of the claims an introspection response repeats. The code run    *)
(* between two awaits takes no time; a request to the authorization server *)
(* takes at most HttpTimeout.                                              *)
(***************************************************************************)
EXTENDS AuthProviders, AuthDiscovery, FiniteSets

CONSTANTS Requests,      \* HTTP requests verifying a token concurrently
          Deployments,   \* providers with their tokens and bounds
          Refresh,       \* JWKS_REFRESH_TIME
          Interval,      \* REMOTE_VERIFICATION_INTERVAL
          Leeway,        \* leeway of the expiry check of jsonwebtoken
          HttpTimeout    \* total timeout of the shared HTTP client

VARIABLES deployment,    \* the element of Deployments that runs
          provider,      \* the provider under construction, then its Result
          keySet,        \* json_web_key_set: Option of the keys and their time
          jwtCache,      \* JwtCache: time of each key and insertion order
          verification,  \* progress of each request
          published,     \* keys the authorization server publishes
          retired,       \* when each key was withdrawn, Never if it was not
          revoked,       \* when each token was revoked, Never if it was not
          clock,
          spent          \* calls, losses, rotations and revocations so far

verifierVars == <<deployment, provider, keySet, jwtCache, verification,
                  published, retired, revoked, clock, spent>>

Never == 1000

NoAnswer == [keys |-> {}, active |-> FALSE]

Unasked == [pc |-> "idle", token |-> "-", at |-> 0, answer |-> NoAnswer, info |-> None]

Tok(t) == deployment.tokens[t]

Keys == UNION {{Tok(t).key} : t \in DOMAIN deployment.tokens}

Verifier == CHOOSE p \in provider.result : TRUE

\* Requests that wait for an answer of the authorization server, made or not.
Waiting == {r \in Requests : verification[r].pc \in {"fetch", "keys", "remote", "answer"}}

PCs == {"idle", "start", "fetch", "keys", "again", "local", "remote", "answer",
        "verified", "admitted", "refused"}

VerifierTypeOK ==
    /\ deployment \in Deployments
    /\ provider.st \in {"new", "waiting", "up", "error", "panicked"}
    /\ (provider.st = "up") <=> (provider.result # None)
    /\ Cardinality(keySet) <= 1
    /\ \A k \in keySet : k.at <= clock /\ k.keys \subseteq Keys
    /\ \A r \in Requests :
         /\ verification[r].pc \in PCs
         /\ verification[r].at <= clock
         /\ (verification[r].pc # "idle") => verification[r].token \in DOMAIN deployment.tokens
         /\ (verification[r].pc \in {"local", "verified", "admitted"}) => verification[r].info # None
    /\ published \subseteq Keys
    /\ clock \in 0..deployment.bound.time

VerifierInit ==
    /\ deployment \in Deployments
    /\ provider = [st |-> "new", result |-> None]
    /\ keySet = None
    /\ jwtCache = [map |-> <<>>, order |-> <<>>]
    /\ verification = [r \in Requests |-> Unasked]
    /\ published = deployment.published
    /\ retired = [k \in Keys |-> Never]
    /\ revoked = [t \in DOMAIN deployment.tokens |-> Never]
    /\ clock = 0
    /\ spent = [calls |-> 0, losses |-> 0, rotations |-> 0, revocations |-> 0]

-----------------------------------------------------------------------------
(* Construction of the provider.                                             *)

\* The Result of a constructor.
Built(result) == [st |-> IF result = None THEN "error" ELSE "up", result |-> result]

\* A provider that needs no document is constructed at once; the others fetch
\* the discovery document of their authorization server.
Construct ==
    /\ provider.st = "new"
    /\ provider' = CASE deployment.kind = "keycloak" -> Built(KeycloakAuthProvider(deployment.o))
                     [] deployment.kind = "workos" -> Built(WorkOsAuthProvider(deployment.o))
                     [] OTHER -> [provider EXCEPT !.st = "waiting"]
    /\ UNCHANGED <<deployment, keySet, jwtCache, verification, published, retired,
                   revoked, clock, spent>>

\* ScalekitAuthProvider::new and with_remote_metadata_url with their document.
DiscoveryArrives ==
    /\ provider.st = "waiting"
    /\ provider' = Built(IF deployment.kind = "scalekit"
                           THEN ScalekitAuthProvider(deployment.o, deployment.doc)
                           ELSE RemoteAuthProvider(deployment.o, deployment.doc,
                                                   deployment.strategies))
    /\ UNCHANGED <<deployment, keySet, jwtCache, verification, published, retired,
                   revoked, clock, spent>>

\* The request fails or times out: with_remote_metadata_url returns the error,
\* ScalekitAuthProvider::new unwraps it.
DiscoveryFails ==
    /\ provider.st = "waiting"
    /\ spent.losses < deployment.bound.losses
    /\ provider' = [provider EXCEPT !.st = IF deployment.kind = "scalekit"
                                             THEN "panicked" ELSE "error"]
    /\ spent' = [spent EXCEPT !.losses = @ + 1]
    /\ UNCHANGED <<deployment, keySet, jwtCache, verification, published, retired,
                   revoked, clock>>

-----------------------------------------------------------------------------
(* The caches.                                                               *)

\* is_recent.
IsRecent(id) ==
    id \in DOMAIN jwtCache.map /\ clock - jwtCache.map[id] <= Interval

\* remove_expired.
RemoveExpired(c) ==
    LET kept == {k \in DOMAIN c.map : clock - c.map[k] <= Interval}
    IN [map |-> Restrict(c.map, kept),
        order |-> SelectSeq(c.order, LAMBDA k : k \in kept)]

\* The eviction of record: the oldest entry goes if the cache is full.
Evict(c) ==
    IF Cardinality(DOMAIN c.map) >= deployment.capacity /\ c.order # <<>>
      THEN [map |-> Restrict(c.map, DOMAIN c.map \ {Head(c.order)}), order |-> Tail(c.order)]
      ELSE c

\* record: a known entry is refreshed where it is, a new one is queued.
Record(c, id) ==
    LET live == RemoveExpired(c)
        room == Evict(live)
    IN IF id \in DOMAIN live.map
         THEN [live EXCEPT !.map = (id :> clock) @@ @]
         ELSE [map |-> (id :> clock) @@ room.map, order |-> Append(room.order, id)]

\* Whether new made a cache: JWKs and another strategy.
Caches == "jwks" \in Verifier.strategies /\ Verifier.strategies # {"jwks"}

\* Faulty variant: the keys are used one moment longer.
Mut_FreshKeys == \E k \in keySet : clock - k.at <= Refresh

\* The age of the key set is below the refresh time.
FreshKeys == \E k \in keySet : clock - k.at < Refresh

-----------------------------------------------------------------------------
(* The verdicts.                                                             *)

\* JsonWebKeySet::verify: algorithm, kid, key, signature, expiry, audience and
\* issuer. Validating audience or issuer replaces the claims jsonwebtoken
\* requires, of which the expiry is the only one by default.
JwksVerify(t, keys) ==
    /\ Tok(t).alg
    /\ Tok(t).kid \subseteq keys
    /\ Tok(t).kid = {Tok(t).key}
    /\ \A e \in Tok(t).exp : clock <= e + Leeway
    /\ \A a \in Verifier.audience :
         \E b \in Tok(t).aud : ToSet(a) \cap ToSet(b) # {}
    /\ Verifier.issuer \subseteq Tok(t).iss
    /\ (Verifier.audience = None /\ Verifier.issuer = None) => Tok(t).exp # None

\* from_token_data: the jti identifies the token, or the token itself.
FromTokenData(t) ==
    [id |-> IF Tok(t).jti = None THEN {t} ELSE Tok(t).jti,
     exp |-> Tok(t).exp, scopes |-> Tok(t).scopes]

\* verify_introspection once the response is there: audience and issuer must be
\* the configured ones exactly.
IntrospectionAccepts(t, answer) ==
    /\ answer.active
    /\ Verifier.audience \subseteq Tok(t).aud
    /\ Verifier.issuer \subseteq Tok(t).iss

\* from_introspection_response: the jti of the response, which need not have one.
FromIntrospectionResponse(t) ==
    [id |-> IF Tok(t).echo /\ Tok(t).jti # None THEN Tok(t).jti ELSE {t},
     exp |-> Tok(t).exp, scopes |-> Tok(t).scopes]

\* verify_user_info on its own: identified by the kid, without expiry or scopes.
FromUserInfo(t) ==
    [id |-> IF Tok(t).kid = None THEN {t} ELSE Tok(t).kid, exp |-> None, scopes |-> None]

\* AuthMiddleware::validate after verify_token.
Admits(info) ==
    /\ info.exp # None /\ \A e \in info.exp : clock < e
    /\ \A req \in Verifier.required, has \in info.scopes : req \subseteq has

-----------------------------------------------------------------------------
(* verify_token, from one await to the next.                                 *)

Stage(r, pc) == verification[r].pc = pc

Stays == <<deployment, provider, published, retired, revoked, clock>>

Ends(r, pc) ==
    verification' = [verification EXCEPT ![r].pc = pc, ![r].at = 0, ![r].answer = NoAnswer]

\* A verdict with the information about the token.
Informs(r, pc, info) ==
    verification' = [verification EXCEPT ![r] = [@ EXCEPT !.pc = pc, !.at = 0,
                                                 !.answer = NoAnswer, !.info = {info}]]

\* A request to the authorization server is sent.
Sends(r, pc) == verification' = [verification EXCEPT ![r].pc = pc, ![r].at = clock]

\* Whether the local verification succeeds or ends the request.
Locally(r, keys) ==
    IF JwksVerify(verification[r].token, keys)
      THEN Informs(r, "local", FromTokenData(verification[r].token))
      ELSE Ends(r, "refused")

\* A request with a bearer token reaches the middleware.
Arrive(r, t) ==
    /\ provider.st = "up" /\ Stage(r, "idle")
    /\ spent.calls < deployment.bound.calls
    /\ verification' = [verification EXCEPT ![r] = [Unasked EXCEPT !.pc = "start", !.token = t]]
    /\ spent' = [spent EXCEPT !.calls = @ + 1]
    /\ UNCHANGED <<Stays, keySet, jwtCache>>

\* verify_token: with JWKs, fresh keys are used at once and others are fetched;
\* without, introspection is preferred to UserInfo.
VerifyToken(r) ==
    /\ Stage(r, "start")
    /\ CASE "jwks" \in Verifier.strategies /\ FreshKeys ->
               Locally(r, UNION {k.keys : k \in keySet})
         [] "jwks" \in Verifier.strategies /\ ~FreshKeys -> Sends(r, "fetch")
         [] "jwks" \notin Verifier.strategies /\ Verifier.strategies # {} -> Sends(r, "remote")
         [] OTHER -> Ends(r, "refused")
    /\ UNCHANGED <<Stays, keySet, jwtCache, spent>>

\* The authorization server answers with the keys it publishes now.
AnswerKeys(r) ==
    /\ Stage(r, "fetch")
    /\ verification' = [verification EXCEPT ![r].pc = "keys", ![r].answer.keys = published]
    /\ UNCHANGED <<Stays, keySet, jwtCache, spent>>

\* populate_jwks: the write carries the time of the write.
PopulateJwks(r) ==
    /\ Stage(r, "keys")
    /\ keySet' = {[at |-> clock, keys |-> verification[r].answer.keys]}
    /\ Ends(r, "again")
    /\ UNCHANGED <<Stays, jwtCache, spent>>

\* The second half of verify_jwks: with the keys that are there now, which
\* another request may have written.
VerifyAgain(r) ==
    /\ Stage(r, "again")
    /\ Locally(r, UNION {k.keys : k \in keySet})
    /\ UNCHANGED <<Stays, keySet, jwtCache, spent>>

\* After the local verification: done without a cache or with a recent entry.
CheckRecent(r) ==
    /\ Stage(r, "local")
    /\ IF ~Caches \/ \E i \in verification[r].info : IsRecent(i.id)
         THEN Ends(r, "verified") ELSE Sends(r, "remote")
    /\ UNCHANGED <<Stays, keySet, jwtCache, spent>>

\* Introspection or UserInfo answers what is true of the token now.
AnswerRemote(r) ==
    /\ Stage(r, "remote")
    /\ verification' = [verification EXCEPT ![r].pc = "answer",
           ![r].answer.active = /\ revoked[verification[r].token] = Never
                                /\ \A e \in Tok(verification[r].token).exp : clock < e]
    /\ UNCHANGED <<Stays, keySet, jwtCache, spent>>

\* The request fails, times out, or its answer cannot be read.
RemoteFails(r) ==
    /\ r \in Waiting /\ spent.losses < deployment.bound.losses
    /\ Ends(r, "refused")
    /\ spent' = [spent EXCEPT !.losses = @ + 1]
    /\ UNCHANGED <<Stays, keySet, jwtCache>>

\* The introspection branches of verify_token.
ConcludeIntrospection(r) ==
    /\ Stage(r, "answer") /\ "introspection" \in Verifier.strategies
    /\ LET t == verification[r].token
           info == FromIntrospectionResponse(t)
       IN IF IntrospectionAccepts(t, verification[r].answer)
            THEN /\ Informs(r, "verified", info)
                 /\ jwtCache' = IF Caches THEN Record(jwtCache, info.id) ELSE jwtCache
            ELSE Ends(r, "refused") /\ UNCHANGED jwtCache
    /\ UNCHANGED <<Stays, keySet, spent>>

\* The UserInfo branches: with JWKs the local information is kept.
ConcludeUserInfo(r) ==
    /\ Stage(r, "answer") /\ "introspection" \notin Verifier.strategies
    /\ LET info == IF Caches THEN CHOOSE i \in verification[r].info : TRUE
                             ELSE FromUserInfo(verification[r].token)
       IN IF verification[r].answer.active
            THEN /\ Informs(r, "verified", info)
                 /\ jwtCache' = IF Caches THEN Record(jwtCache, info.id) ELSE jwtCache
            ELSE Ends(r, "refused") /\ UNCHANGED jwtCache
    /\ UNCHANGED <<Stays, keySet, spent>>

\* AuthMiddleware::validate lets the request pass, or answers it.
Admit(r) ==
    /\ Stage(r, "verified")
    /\ Ends(r, IF \A i \in verification[r].info : Admits(i) THEN "admitted" ELSE "refused")
    /\ UNCHANGED <<Stays, keySet, jwtCache, spent>>

\* The request has been served or refused.
Finish(r) ==
    /\ verification[r].pc \in {"admitted", "refused"}
    /\ verification' = [verification EXCEPT ![r] = Unasked]
    /\ UNCHANGED <<Stays, keySet, jwtCache, spent>>

-----------------------------------------------------------------------------
(* The authorization server and time.                                        *)

\* A key is replaced by one that was never published.
RotateKey(old, new) ==
    /\ provider.st = "up" /\ spent.rotations < deployment.bound.rotations
    /\ old \in published /\ new \in Keys \ published /\ retired[new] = Never
    /\ published' = (published \ {old}) \cup {new}
    /\ retired' = [retired EXCEPT ![old] = clock]
    /\ spent' = [spent EXCEPT !.rotations = @ + 1]
    /\ UNCHANGED <<deployment, provider, keySet, jwtCache, verification, revoked, clock>>

RevokeToken(t) ==
    /\ provider.st = "up" /\ spent.revocations < deployment.bound.revocations
    /\ revoked[t] = Never
    /\ revoked' = [revoked EXCEPT ![t] = clock]
    /\ spent' = [spent EXCEPT !.revocations = @ + 1]
    /\ UNCHANGED <<deployment, provider, keySet, jwtCache, verification, published,
                   retired, clock>>

\* Time passes while requests wait, none beyond its timeout.
VerifierTick ==
    /\ provider.st = "up" /\ clock < deployment.bound.time
    /\ \A r \in Requests : Stage(r, "idle") \/ r \in Waiting
    /\ \A r \in Waiting : clock < verification[r].at + HttpTimeout
    /\ clock' = clock + 1
    /\ UNCHANGED <<deployment, provider, keySet, jwtCache, verification, published,
                   retired, revoked, spent>>

VerifyStep(r) ==
    \/ VerifyToken(r) \/ AnswerKeys(r) \/ PopulateJwks(r) \/ VerifyAgain(r)
    \/ CheckRecent(r) \/ AnswerRemote(r) \/ RemoteFails(r) \/ ConcludeIntrospection(r)
    \/ ConcludeUserInfo(r) \/ Admit(r) \/ Finish(r)

VerifierNext ==
    \/ Construct \/ DiscoveryArrives \/ DiscoveryFails
    \/ \E r \in Requests, t \in DOMAIN deployment.tokens : Arrive(r, t)
    \/ \E r \in Requests : VerifyStep(r)
    \/ \E old, new \in Keys : RotateKey(old, new)
    \/ \E t \in DOMAIN deployment.tokens : RevokeToken(t)
    \/ VerifierTick

VerifierSpec == VerifierInit /\ [][VerifierNext]_verifierVars

-----------------------------------------------------------------------------
(* Properties.                                                               *)

\* The URL announced in challenges is that of the document, on this server
\* (AuthProvider::protected_resource_metadata_url).
ChallengeResolves ==
    provider.st = "up" =>
       LET u == Verifier.url
           s == deployment.o.server
       IN /\ u.host = s.host /\ u.port = s.port
          /\ HandleRequest(Verifier, "GET", u.path).doc = {"prm"}

\* Where the client looks without a challenge: the path of a probed URL.
ProbedPath(url) ==
    WellKnown("oauth-protected-resource")
      \o (IF url.style = "prepend" THEN TrimPath(deployment.o.server.path) ELSE <<>>)

\* prm_url_candidates of a client that knows the server's URL.
Probed ==
    PrmUrlCandidates(Site("mcp", IF TrimPath(deployment.o.server.path) = <<>>
                                   THEN "none" ELSE "path"), {})

\* What is withdrawn dies in bounded time.  A token whose key was withdrawn is
\* admitted no longer than the refresh time and the requests under way allow,
\* whichever of two concurrent key requests writes last (verify_jwks and
\* populate_jwks).  With a remote strategy a revoked token is admitted no longer
\* than the verification interval after the last answer that called it active,
\* also when that answer was recorded late or the entry was refreshed (is_recent,
\* record).
WithdrawnExpires ==
    \A r \in Requests : Stage(r, "admitted") =>
        /\ "jwks" \in Verifier.strategies =>
              clock < retired[Tok(verification[r].token).key] + Refresh
                        + (IF Caches THEN 2 ELSE 1) * HttpTimeout
        /\ Verifier.strategies # {"jwks"} =>
              clock <= revoked[verification[r].token] + Interval + HttpTimeout

\* Client and server agree on where the protected-resource document is: the
\* client finds it by the challenge or by probing, except on a server with both
\* a port and a trailing slash in its URL (prm_url_candidates trims the slash
\* that create_discovery_endpoints keeps, url_base drops the port).
ClientFindsDocument ==
    provider.st = "up" =>
       LET s == deployment.o.server
       IN (\/ ChallengeResolves
           \/ \E u \in ToSet(Probed) :
                HandleRequest(Verifier, "GET", ProbedPath(u)).doc = {"prm"})
          <=> (s.port = DefaultPort \/ s.path = <<"">> \/ ~TrailingSlash(s.path))

=============================================================================
