---------------------------- MODULE AuthScenario ----------------------------
(***************************************************************************)
(* The auth scenarios of the conformance client, composed with the OAuth   *)
(* client they drive: discovery, a first token, a session, and the scope   *)
(* step-up when the server refuses that token.                             *)
(*                                                                         *)
(*   conformance-client/src/bin/client/auth/{mod,discovery,token,          *)
(*   scope_step_up}.rs                                                     *)
(*                                                                         *)
(* The scenario is one sequential task. It builds an McpAuthClient for the *)
(* first token and a new one for the step-up and never uses two at once,   *)
(* so the state of AuthClient is that of the client built last. A setting  *)
(* with net.ops = {} is run by the scenario, the others by an application. *)
(***************************************************************************)
EXTENDS AuthClient

CONSTANT Suite  \* the caller that stands for the scenario

VARIABLES
    phase,      \* where the scenario is
    chosen,     \* Discovery.selected_scope
    needed,     \* prior and challenged scopes of the step-up
    headers     \* the token whose Authorization header the session uses, or 0

suiteVars == <<phase, chosen, needed, headers>>
allVars == <<vars, suiteVars>>

SuiteInit == Init /\ phase = "resolve" /\ chosen = {} /\ needed = {} /\ headers = 0

ScenarioRuns == net.ops = {}

\* build_auth_client: a client of the authorization server h, with every cache
\* of the client empty, and the first step of its flow: the code flow where the
\* server offers it, get_auth_headers otherwise.
BuildAuthClient(h, scope) ==
    /\ cfg' = [server |-> SiteOf(net, h), metadata |-> NoHost, client |-> cfg.client,
               secret |-> cfg.secret, cimd |-> TRUE, scope |-> scope, redirect |-> TRUE]
    /\ meta' = NoHost /\ prm' = FALSE /\ challenged' = {}
    /\ registration' = NoClient /\ store' = NoToken
    /\ call' = [call EXCEPT ![Suite] =
         [Idle EXCEPT !.op = IF net.as[h].code THEN "authorize" ELSE "get_token",
                      !.pc = IF net.as[h].code THEN "meta" ELSE "access",
                      !.then = IF net.as[h].code THEN "url" ELSE "exchange"]]

\* discovery::resolve and the first half of token::acquire: the challenge, the
\* combined discovery, the scope, and the client for the first token.
Resolve ==
    /\ ScenarioRuns /\ phase = "resolve"
    /\ \E lost \in SUBSET net.up, header \in {Challenge(net, cfg.server.host), <<>>} :
       LET up == net.up \ lost
           missed == Cardinality(lost)
                       + IF header = Challenge(net, cfg.server.host) THEN 0 ELSE 1
           explicit == ParseWwwAuthenticateParam(header, "resource_metadata")
           supported == IF FindsPrm(cfg.server, explicit, up) THEN net.prm.scopes ELSE {}
           scope == SelectScope(ParseWwwAuthenticateParam(header, "scope"), supported, cfg.scope)
           h == DiscoverOauthServerInfo(net, cfg.server, explicit, up)
       IN /\ faults + missed <= bound.faults /\ faults' = faults + missed
          /\ IF h = NoHost
               THEN /\ phase' = "end"
                    /\ UNCHANGED <<cfg, meta, prm, challenged, registration, store,
                                   call, chosen>>
               ELSE /\ phase' = "acquire" /\ chosen' = scope
                    /\ BuildAuthClient(h, scope)
    /\ UNCHANGED <<net, bound, regs, issued, codes, now, needed, headers>>

\* token::acquire returns the header map, or the scenario ends.
Acquired ==
    /\ phase \in {"acquire", "escalate"} /\ At(Suite, "done")
    /\ IF call[Suite].res = "ok"
         THEN /\ headers' = call[Suite].tok
              /\ phase' = IF phase = "acquire" THEN "connect" ELSE "reconnect"
         ELSE phase' = "end" /\ UNCHANGED headers
    /\ UNCHANGED <<vars, chosen, needed>>

\* connect_with_auth, request_tool_list and request_tool_call with the first
\* token; the session ends when the server accepts its scope.
UseTools ==
    /\ phase = "connect"
    /\ phase' = IF net.needs \subseteq issued[headers].scope THEN "end" ELSE "step_up"
    /\ UNCHANGED <<vars, chosen, needed, headers>>

\* connect_with_auth fails and the scenario ends.
ConnectFails ==
    /\ phase \in {"connect", "reconnect"} /\ faults < bound.faults
    /\ faults' = faults + 1 /\ phase' = "end"
    /\ UNCHANGED <<net, bound, cfg, meta, prm, challenged, registration, store, call,
                   regs, issued, codes, now, chosen, needed, headers>>

\* scope_step_up::handle: the request is repeated for its challenge, and a new
\* client asks for the prior and the challenged scopes together.
StepUp ==
    /\ phase = "step_up"
    /\ \E challenge \in {net.needs} \cup IF faults < bound.faults THEN {{}} ELSE {} :
         LET union == UnionScopes(chosen, challenge)
             scope == IF union = {} THEN {"mcp", "elevated"} ELSE union
         IN /\ needed' = chosen \cup challenge
            /\ faults' = IF challenge = {} THEN faults + 1 ELSE faults
            /\ BuildAuthClient(cfg.server.host, scope)
    /\ phase' = "escalate"
    /\ UNCHANGED <<net, bound, regs, issued, codes, now, chosen, headers>>

\* The second session lists and calls the tools, whatever comes back.
Retry ==
    /\ phase = "reconnect" /\ phase' = "retried"
    /\ UNCHANGED <<vars, chosen, needed, headers>>

SuiteNext ==
    \/ Resolve \/ Acquired \/ UseTools \/ ConnectFails \/ StepUp \/ Retry
    \/ Next /\ UNCHANGED suiteVars

SuiteSpec == SuiteInit /\ [][SuiteNext]_allVars

-----------------------------------------------------------------------------
\* The token of the second session covers the scopes granted before and those
\* of the challenge, unless a request was lost on the way: a lost metadata
\* request makes the client read a scope elsewhere (scope_step_up: "so it
\* doesn't lose authorization for operations it already had access to").
StepUpCovers ==
    phase = "retried" /\ faults = 0 => needed \subseteq issued[headers].scope

=============================================================================
