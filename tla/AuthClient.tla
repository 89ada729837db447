----------------------------- MODULE AuthClient -----------------------------
(***************************************************************************)
(* McpAuthClient: the OAuth client several tasks of an application share.  *)
(*                                                                         *)
(*   auth/client_auth/{client,in_memory_store,token,registration}.rs       *)
(*                                                                         *)
(* A call runs concurrently with the other callers and may be interrupted  *)
(* at every await: between the two reads of get_token, before and after    *)
(* each HTTP exchange, and between a response and the write of the token.  *)
(* The authorization servers are external. They know the clients they have *)
(* registered, bind a code and a refresh token to the client they were     *)
(* issued to, and may retire a refresh token when it is used. Any request  *)
(* may be lost, a bounded number of times; one that takes longer than the timeout of *)
(* the shared HTTP client fails.                                           *)
(***************************************************************************)
EXTENDS AuthDiscovery, FiniteSets, FiniteSetsExt

CONSTANTS
    Callers,    \* the tasks that use the client
    Settings,   \* [net, cfg, bound] records: the network, the configuration and
                \* the bounds on all calls, on the clock and on requests lost
    Margin,     \* seconds before its expiry at which a token counts as expired
    Timeout     \* the timeout of the shared HTTP client

\* The shared client times out after 30 seconds and the margin is 30 seconds.
ASSUME AuthAssumption ==
    Margin \in Nat /\ Timeout \in Nat /\ Timeout <= Margin

VARIABLES
    net,        \* the network and the methods callers use (ops); never changes
    bound,      \* the bounds; never change
    cfg,        \* McpAuthConfig
    meta,       \* discovered_metadata: the host it describes, or NoHost
    prm,        \* discovered_resource_metadata is present
    challenged, \* discovered_www_auth_scope
    registration, \* the registration written last
    store,      \* InMemoryTokenStore
    call,       \* per caller, the call it makes
    regs,       \* the host of each dynamic registration
    issued,     \* the tokens issued, in order
    codes,      \* the authorization codes issued, in order
    now,        \* the clock
    faults      \* requests lost so far

vars == <<net, bound, cfg, meta, prm, challenged, registration, store, call, regs,
          issued, codes, now, faults>>

NoClient == <<"none", 0>>
Pre == <<"pre", 0>>
Cimd == <<"cimd", 0>>
Dcr(n) == <<"dcr", n>>

NoToken == [tok |-> 0, refresh |-> FALSE, exp |-> 0]
Idle == [op |-> "none", n |-> 0, pc |-> "idle", then |-> "none", host |-> NoHost,
         known |-> NoHost, client |-> NoClient, grant |-> "none", ref |-> 0,
         tok |-> 0, explicit |-> {}, asked |-> {}, at |-> 0, res |-> "none"]

Pcs == {"idle", "access", "refresh", "clear", "meta", "phase1", "probe", "prm",
        "phase2", "write", "register", "identify", "url", "consent", "send",
        "flight", "answer", "again", "done"}

\* The callers, the caches and the servers' records hold what they can hold.
TypeOK ==
    /\ meta \in DOMAIN net.as \cup {NoHost}
    /\ store.tok \in 0 .. Len(issued) /\ now \in 0 .. bound.time
    /\ faults \in 0 .. bound.faults
    /\ \A c \in Callers :
         /\ call[c].pc \in Pcs /\ call[c].n \in 0 .. bound.calls
         /\ call[c].tok \in 0 .. Len(issued)
         /\ call[c].client[1] = "dcr" => call[c].client[2] \in DOMAIN regs
         /\ call[c].pc \in {"url", "consent", "send", "flight"} =>
              call[c].known \in DOMAIN net.as

Init ==
    /\ \E s \in Settings : net = s.net /\ bound = s.bound /\ cfg = s.cfg
    /\ meta = NoHost /\ prm = FALSE /\ challenged = {}
    /\ registration = NoClient /\ store = NoToken
    /\ call = [c \in Callers |-> Idle]
    /\ regs = <<>> /\ issued = <<>> /\ codes = <<>>
    /\ now = 0 /\ faults = 0

-----------------------------------------------------------------------------
At(c, pc) == call[c].pc = pc
Goto(c, pc) == call' = [call EXCEPT ![c].pc = pc]

\* The call returns: Ok or Err.
Return(c, res) ==
    call' = [call EXCEPT ![c].pc = "done", ![c].res = res, ![c].at = 0, ![c].asked = {}]


\* What an error of exchange_token does: get_token falls back to a new
\* authentication when a refresh fails, every other caller gets the error.
Fail(c) ==
    IF call[c].op = "get_token" /\ call[c].grant = "refresh"
      THEN Goto(c, "clear") ELSE Return(c, "err")

\* Some requests to urls are lost, and the others reach the network.
Loses(urls, lost) ==
    /\ lost \subseteq (ToSet(urls) \cap net.up)
    /\ faults + Cardinality(lost) <= bound.faults
    /\ faults' = faults + Cardinality(lost)

\* A caller starts a method: a token, a client-credentials exchange, the
\* authorization-code flow, or one of the two preparatory steps on its own.
Call(c, op) ==
    /\ call[c].pc \in {"idle", "done"}
    /\ MapThenSumSet(LAMBDA x : call[x].n, Callers) < bound.calls
    /\ call' = [call EXCEPT ![c] =
         [Idle EXCEPT !.op = op, !.n = call[c].n + 1,
            !.pc = CASE op = "get_token" -> "access"
                     [] op = "register"  -> "register"
                     [] OTHER            -> "meta",
            !.then = CASE op = "discover" -> "return"
                       [] op = "authorize" -> "url"
                       [] OTHER -> "exchange",
            !.grant = IF op = "authenticate" THEN "client_credentials" ELSE "none"]]
    /\ UNCHANGED <<net, bound, cfg, meta, prm, challenged, registration, store, regs,
                   issued, codes, now, faults>>
-----------------------------------------------------------------------------
\* get_token: the cached token, unless it is about to expire.
GetAccessToken(c) ==
    /\ At(c, "access")
    /\ IF store.tok # 0 /\ ~IsExpired(store.exp, now, Margin)
         THEN call' = [call EXCEPT ![c].pc = "done", ![c].res = "ok", ![c].tok = store.tok]
         ELSE Goto(c, "refresh")
    /\ UNCHANGED <<net, bound, cfg, meta, prm, challenged, registration, store, regs,
                   issued, codes, now, faults>>

\* get_token: a second read of the store, for the refresh token.
GetRefreshToken(c) ==
    /\ At(c, "refresh")
    /\ IF store.tok # 0 /\ store.refresh
         THEN call' = [call EXCEPT ![c].pc = "meta", ![c].grant = "refresh",
                                   ![c].ref = store.tok]
         ELSE Goto(c, "clear")
    /\ UNCHANGED <<net, bound, cfg, meta, prm, challenged, registration, store, regs,
                   issued, codes, now, faults>>

\* get_token without a usable refresh token: clear the store, authenticate.
ClearStore(c) ==
    /\ At(c, "clear")
    /\ store' = NoToken
    /\ call' = [call EXCEPT ![c].pc = "meta", ![c].then = "exchange",
                            ![c].grant = "client_credentials", ![c].ref = 0]
    /\ UNCHANGED <<net, bound, cfg, meta, prm, challenged, registration, regs, issued,
                   codes, now, faults>>

-----------------------------------------------------------------------------
\* discover_metadata returns the metadata of h to its caller.
Found(c, h) ==
    call' = [call EXCEPT
      ![c].host = h,
      ![c].known = IF call[c].then = "register" THEN @ ELSE h,
      ![c].res = IF call[c].then = "return" THEN "ok" ELSE @,
      ![c].pc = CASE call[c].then = "return"   -> "done"
                  [] call[c].then = "register" -> "identify"
                  [] OTHER                     -> "register"]

\* discover_metadata: the configured metadata, else the cached one.
ReadMetadata(c) ==
    /\ At(c, "meta")
    /\ \/ cfg.metadata # NoHost /\ meta' = cfg.metadata /\ Found(c, cfg.metadata)
       \/ cfg.metadata = NoHost /\ meta # NoHost /\ Found(c, meta) /\ UNCHANGED meta
       \/ cfg.metadata = NoHost /\ meta = NoHost /\ Goto(c, "phase1") /\ UNCHANGED meta
    /\ UNCHANGED <<net, bound, cfg, prm, challenged, registration, store, regs, issued,
                   codes, now, faults>>

\* Fetches urls in turn; the first document found is written next.
Fetch(c, urls, otherwise) ==
    \E lost \in SUBSET (ToSet(urls) \cap net.up) :
      /\ Loses(urls, lost)
      /\ LET h == FirstUp(urls, net.up \ lost)
         IN IF h # NoHost
              THEN call' = [call EXCEPT ![c].pc = "write", ![c].host = h]
              ELSE IF otherwise = "fail" THEN Fail(c) ELSE Goto(c, otherwise)

\* Phase 1: the well-known URLs of the configured server.
TryServer(c) ==
    /\ At(c, "phase1")
    /\ Fetch(c, MetadataUrlFallbacks(cfg.server), "probe")
    /\ UNCHANGED <<net, bound, cfg, meta, prm, challenged, registration, store, regs,
                   issued, codes, now>>

\* probe_for_resource_metadata: the challenge of an unauthenticated request,
\* whose scope is kept for resolved_scope.
Probe(c) ==
    /\ At(c, "probe")
    /\ \E header \in {Challenge(net, cfg.server.host)} \cup
                      IF faults < bound.faults THEN {<<>>} ELSE {} :
         LET scope == ParseWwwAuthenticateParam(header, "scope") IN
         /\ challenged' = IF scope # {} THEN scope ELSE challenged
         /\ call' = [call EXCEPT ![c].pc = "prm",
               ![c].explicit = ParseWwwAuthenticateParam(header, "resource_metadata")]
         /\ faults' = IF header = Challenge(net, cfg.server.host) THEN faults ELSE faults + 1
    /\ UNCHANGED <<net, bound, cfg, meta, prm, registration, store, regs, issued, codes, now>>

\* Phase 2: the protected-resource metadata, cached when found.
FetchPrm(c) ==
    /\ At(c, "prm")
    /\ LET urls == PrmUrlCandidates(cfg.server, call[c].explicit) IN
       \E lost \in SUBSET (ToSet(urls) \cap net.up) :
         /\ Loses(urls, lost)
         /\ IF FindsPrm(cfg.server, call[c].explicit, net.up \ lost)
              THEN prm' = TRUE /\ Goto(c, "phase2")
              ELSE UNCHANGED prm /\ Fail(c)
    /\ UNCHANGED <<net, bound, cfg, meta, challenged, registration, store, regs, issued,
                   codes, now>>

\* Phase 2: the metadata of the first authorization server it names that answers.
TryNamedServers(c) ==
    /\ At(c, "phase2")
    /\ Fetch(c, ServerUrls(net), "fail")
    /\ UNCHANGED <<net, bound, cfg, meta, prm, challenged, registration, store, regs,
                   issued, codes, now>>

\* The metadata found is cached, whatever another caller cached meanwhile.
WriteMetadata(c) ==
    /\ At(c, "write")
    /\ meta' = call[c].host
    /\ Found(c, call[c].host)
    /\ UNCHANGED <<net, bound, cfg, prm, challenged, registration, store, regs, issued,
                   codes, now, faults>>
-----------------------------------------------------------------------------
\* register returns id to its caller.
Registered(c, id) ==
    /\ registration' = id
    /\ call' = [call EXCEPT
         ![c].client = id,
         ![c].res = IF call[c].op = "register" THEN "ok" ELSE @,
         ![c].pc = CASE call[c].op = "register" -> "done"
                     [] call[c].op = "authorize" /\ call[c].grant = "none" -> "url"
                     [] OTHER -> "send"]

\* register: a configured client id needs no network; otherwise the metadata
\* is asked for again.
Register(c) ==
    /\ At(c, "register")
    /\ IF cfg.client THEN Registered(c, Pre)
       ELSE /\ call' = [call EXCEPT ![c].pc = "meta", ![c].then = "register"]
            /\ UNCHANGED registration
    /\ UNCHANGED <<net, bound, cfg, meta, prm, challenged, store, regs, issued, codes,
                   now, faults>>

\* register: the metadata-document URL where the server accepts it, else a
\* dynamic registration, which an earlier one never replaces.
Identify(c) ==
    /\ At(c, "identify")
    /\ LET as == net.as[call[c].host]
           byUrl == cfg.cimd /\ as.cimd
       IN \/ byUrl /\ Registered(c, Cimd) /\ UNCHANGED <<regs, faults>>
          \/ ~byUrl /\ ~as.reg /\ Fail(c) /\ UNCHANGED <<regs, faults, registration>>
          \/ /\ ~byUrl /\ as.reg
             /\ regs' = Append(regs, call[c].host)
             /\ Registered(c, Dcr(Len(regs) + 1)) /\ UNCHANGED faults
          \/ /\ ~byUrl /\ as.reg /\ faults < bound.faults
             /\ faults' = faults + 1 /\ Fail(c) /\ UNCHANGED <<regs, registration>>
    /\ UNCHANGED <<net, bound, cfg, meta, prm, challenged, store, issued, codes, now>>

\* build_authorization_url: needs a redirect URI.
BuildAuthorizationUrl(c) ==
    /\ At(c, "url")
    /\ IF cfg.redirect THEN Goto(c, "consent") ELSE Return(c, "err")
    /\ UNCHANGED <<net, bound, cfg, meta, prm, challenged, registration, store, regs,
                   issued, codes, now, faults>>

\* The user agrees and the redirect carries a code, or is lost;
\* complete_authorization_code_flow exchanges what the caller has.
Consent(c) ==
    /\ At(c, "consent")
    /\ \/ /\ codes' = Append(codes, [client |-> call[c].client, host |-> call[c].known,
                      challenge |-> PkceParams(c).challenge, scope |-> cfg.scope,
                      live |-> TRUE])
          /\ call' = [call EXCEPT ![c].pc = "meta", ![c].then = "exchange",
                                  ![c].grant = "code", ![c].ref = Len(codes) + 1]
          /\ UNCHANGED faults
       \/ /\ faults < bound.faults /\ faults' = faults + 1
          /\ call' = [call EXCEPT ![c].pc = "meta", ![c].then = "exchange",
                                  ![c].grant = "code", ![c].ref = 0]
          /\ UNCHANGED codes
    /\ UNCHANGED <<net, bound, cfg, meta, prm, challenged, registration, store, regs, issued, now>>

-----------------------------------------------------------------------------
\* resolved_scope.
ResolvedScope == SelectScope(challenged, IF prm THEN net.prm.scopes ELSE {}, cfg.scope)

\* exchange_token presents the secret, if there is one, in the form when the
\* server lists client_secret_post and in a Basic header otherwise.
AuthMethod(h, id) ==
    CASE id = Cimd \/ (id = Pre /\ ~cfg.secret) -> "none"
      [] "post" \in net.as[h].methods -> "post"
      [] OTHER -> "basic"

\* exchange_token sends the request.
SendExchange(c) ==
    /\ At(c, "send")
    /\ call' = [call EXCEPT ![c].pc = "flight", ![c].asked = ResolvedScope, ![c].at = now]
    /\ UNCHANGED <<net, bound, cfg, meta, prm, challenged, registration, store, regs,
                   issued, codes, now, faults>>

\* The server of h knows the client.
Knows(h, id) ==
    CASE id[1] = "dcr" -> regs[id[2]] = h
      [] id[1] = "cimd" -> net.as[h].cimd
      [] OTHER -> TRUE

\* The server accepts the request of c: a known client that authenticates in a
\* way it supports, and a code or refresh token that is live and its own.
Grants(c) ==
    LET r == call[c] IN
    /\ Knows(r.known, r.client)
    /\ net.as[r.known].methods # {} => AuthMethod(r.known, r.client) \in net.as[r.known].methods
    /\ r.grant = "refresh" =>
         /\ issued[r.ref].live
         /\ issued[r.ref].client = r.client /\ issued[r.ref].host = r.known
    /\ r.grant = "code" =>
         /\ r.ref # 0
         /\ codes[r.ref].live /\ codes[r.ref].challenge = CodeChallenge(PkceParams(c).verifier)
         /\ codes[r.ref].client = r.client /\ codes[r.ref].host = r.known

\* The server issues a token and retires what it was issued for.
Grant(c) ==
    /\ At(c, "flight") /\ Grants(c)
    /\ LET r == call[c]
           scope == CASE r.grant = "code"    -> codes[r.ref].scope
                      [] r.grant = "refresh" -> issued[r.ref].scope
                      [] OTHER               -> r.asked
       IN /\ issued' = Append([n \in DOMAIN issued |->
                 [issued[n] EXCEPT !.live = @ /\ ~(net.rotate /\ r.grant = "refresh" /\ n = r.ref)]],
                 [client |-> r.client, host |-> r.known, at |-> now, scope |-> scope,
                  live |-> net.refresh])
          /\ codes' = [n \in DOMAIN codes |->
                 [codes[n] EXCEPT !.live = @ /\ ~(r.grant = "code" /\ n = r.ref)]]
          /\ call' = [call EXCEPT ![c].pc = "answer", ![c].tok = Len(issued) + 1]
    /\ UNCHANGED <<net, bound, cfg, meta, prm, challenged, registration, store, regs, now, faults>>

\* The server refuses.
Refuse(c) ==
    /\ At(c, "flight") /\ ~Grants(c)
    /\ Fail(c)
    /\ UNCHANGED <<net, bound, cfg, meta, prm, challenged, registration, store, regs,
                   issued, codes, now, faults>>

\* The request or its answer is lost, or the timeout of the HTTP client passes.
RequestFails(c) ==
    /\ call[c].pc \in {"flight", "answer"}
    /\ IF now = call[c].at + Timeout THEN UNCHANGED faults
       ELSE faults < bound.faults /\ faults' = faults + 1
    /\ Fail(c)
    /\ UNCHANGED <<net, bound, cfg, meta, prm, challenged, registration, store, regs,
                   issued, codes, now>>

\* set_tokens: the expiry counts from the moment of the write.
SetTokens(n) ==
    store' = [tok |-> n, refresh |-> net.refresh, exp |-> ExpiresAt(net.life, now)]

\* exchange_token stores the token it received; get_token stores it once more.
StoreTokens(c) ==
    /\ At(c, "answer")
    /\ SetTokens(call[c].tok)
    /\ IF call[c].op = "get_token" /\ call[c].grant = "refresh"
         THEN Goto(c, "again") ELSE Return(c, "ok")
    /\ UNCHANGED <<net, bound, cfg, meta, prm, challenged, registration, regs, issued,
                   codes, now, faults>>

\* get_token: the second write.
StoreAgain(c) ==
    /\ At(c, "again")
    /\ SetTokens(call[c].tok)
    /\ Return(c, "ok")
    /\ UNCHANGED <<net, bound, cfg, meta, prm, challenged, registration, regs, issued,
                   codes, now, faults>>

\* A second passes. Steps that wait for nothing take no time, and no request
\* outlives the timeout.
Tick ==
    /\ now < bound.time
    /\ \A c \in Callers : /\ ~At(c, "again")
                          /\ call[c].pc \in {"flight", "answer"} => now < call[c].at + Timeout
    /\ now' = now + 1
    /\ UNCHANGED <<net, bound, cfg, meta, prm, challenged, registration, store, call,
                   regs, issued, codes, faults>>
-----------------------------------------------------------------------------
\* A step of the call of c.
Step(c) ==
    \/ GetAccessToken(c) \/ GetRefreshToken(c) \/ ClearStore(c)
    \/ ReadMetadata(c) \/ TryServer(c) \/ Probe(c) \/ FetchPrm(c)
    \/ TryNamedServers(c) \/ WriteMetadata(c)
    \/ Register(c) \/ Identify(c) \/ BuildAuthorizationUrl(c) \/ Consent(c)
    \/ SendExchange(c) \/ Grant(c) \/ Refuse(c) \/ RequestFails(c)
    \/ StoreTokens(c) \/ StoreAgain(c)

Next ==
    \/ \E c \in Callers : Step(c) \/ \E op \in net.ops : Call(c, op)
    \/ Tick

\* Every task is scheduled and every request ends by an answer or the timeout.
Spec == Init /\ [][Next]_vars /\ \A c \in Callers : WF_vars(Step(c))

-----------------------------------------------------------------------------
\* A token that get_token would hand out from the store has not expired at the
\* server that issued it: the margin of is_expired covers the time a response
\* may take, although the expiry is counted from the (repeated) write.
CacheAlive ==
    store.tok # 0 /\ ~IsExpired(store.exp, now, Margin) /\ net.life # 0 =>
      now < issued[store.tok].at + net.life


=============================================================================
