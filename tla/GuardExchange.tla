---------------------------- MODULE GuardExchange ----------------------------
(***************************************************************************)
(* What the resource side says when it refuses: the outcomes that Guard    *)
(* builds (src/src/resource/guard/mod.rs, error.rs, error_body.rs), the    *)
(* details a renderer gets and the response that is written (proxy.rs,     *)
(* response.rs), over the requests of one client to one route.             *)
(*                                                                         *)
(* The client, its authorization server, the validator and the challenge   *)
(* builder of huskarl_resource_server are outside this repository.  The    *)
(* client does what challenges tell it; every request it sends is a new    *)
(* one for the proxy, which keeps nothing between them.  How one request   *)
(* passes the proxy's hooks and failing writes is AuthProxy's subject.     *)
(***************************************************************************)
EXTENDS AccessRule, Naturals, Sequences

CONSTANTS
    Audiences, Scopes,   \* what rules and tokens name
    Bindings,            \* the audience lists of the proxies modelled
    Demands,             \* scopes a validator asks for on its own
    Pages,               \* what the renderers modelled make of a rejection
    NoBinding,           \* the None of resource_audiences
    NoToken,             \* a request without a token
    MaxFaults,           \* bound: failures of the validator and lost tokens
    MaxRequests          \* bound: requests the client sends

Tokens == [aud : SUBSET Audiences, scopes : SUBSET Scopes]

ASSUME ExchangeAssumption ==
    /\ NoToken \notin Tokens
    /\ \A audiences \in SUBSET Audiences : NoBinding # audiences
    /\ \A scopes \in SUBSET Scopes : NoScope # scopes
    /\ NoCheck \notin {"forbids", "invalidates"}
    /\ \A b \in Bindings : b = NoBinding \/ b \subseteq Audiences
    /\ Demands \subseteq SUBSET Scopes
    /\ Pages \subseteq [length : 0 .. 1, typed : BOOLEAN]
    /\ MaxFaults \in Nat /\ MaxRequests \in Nat

VARIABLES
    route,      \* how requests resolve, and the rule they resolve to
    config,     \* the binding and the validator's demands
    client,     \* the client's token, nonce and method
    pc,         \* whose turn it is
    told,       \* the ErrorDetails of the last rejection
    page,       \* what the renderer made of it
    response,   \* the last response on the wire
    refusals,   \* the categories of the rejections so far
    faults

vars == <<route, config, client, pc, told, page, response, refusals, faults>>

Statuses == {200, 400, 401, 403, 405, 500, 503}

Codes ==
    {"none", "invalid_request", "invalid_token", "insufficient_scope",
     "use_dpop_nonce"}

ScopeParams == {NoScope} \cup SUBSET Scopes

\* Scopes come in two calls.  A constrained public rule does not build.
PolicyRules ==
    {WithRequirement("none")} \cup
    {WithCheck(WithScopes(WithScopes(
       WithAudiences(WithRequirement(token), audiences), first), then), f) :
         token \in {"optional", "required"}, audiences \in SUBSET Audiences,
         first \in SUBSET Scopes, then \in SUBSET Scopes,
         f \in {NoCheck, "forbids", "invalidates"}}

\* The mapping gives a public URI, and its path is in the resource.  A path
\* that does not resolve may still look like one of a rule.
Routes ==
    {r \in [resolves : {"rule"}, rule : PolicyRules, reconstructs : BOOLEAN,
            inside : BOOLEAN] : r.inside => r.reconstructs}
    \cup [resolves : {"invalid_input", "policy_denied", "internal"},
          rule : PolicyRules, reconstructs : {TRUE}, inside : {TRUE}]

Configs ==
    [binding : Bindings, dpop : BOOLEAN, demands : Demands]

NoPage == [length |-> 0, typed |-> FALSE]

NoDetails == [code |-> "none", described |-> FALSE, scopes |-> NoScope]

NoResponse ==
    [status |-> 200, challenges |-> {}, nonce |-> FALSE, retry_after |-> FALSE,
     length |-> 0, typed |-> FALSE, cached |-> FALSE, allow |-> FALSE,
     ended |-> FALSE, sent |-> 0]

Init ==
    /\ route \in Routes
    /\ config \in Configs
    /\ client \in [token : {NoToken} \cup Tokens, aud : SUBSET Audiences,
                   nonce : {FALSE}, method : RequestMethods]
    /\ client.token # NoToken => client.token.aud = client.aud
    /\ pc = "client"
    /\ told = NoDetails
    /\ page = NoPage
    /\ response = NoResponse
    /\ refusals = <<>>
    /\ faults = 0

-----------------------------------------------------------------------------
(* Challenges.                                                              *)

\* A ToRfc6750Error's challenge.
Challenge(error, code, described, scope) ==
    [error |-> error, code |-> code, described |-> described, scope |-> scope]

ClientError(code, scope) == Challenge("client", code, TRUE, scope)

\* The errors of the guard itself bring no scope of their own.
InvalidRequest == ClientError("invalid_request", NoScope)
InvalidToken == ClientError("invalid_token", NoScope)
CustomCheckError(code) == ClientError(code, NoScope)

\* InsufficientScope::default of huskarl_resource_server.
InsufficientScope == Challenge("client", "insufficient_scope", FALSE, NoScope)

Or(own, scope) == IF own = NoScope THEN scope ELSE own

\* ValidatorMetadata: one form of the WWW-Authenticate value for all schemes.
HeaderValue(code, scope) == [code |-> code, scope |-> scope]

RejectionStatus ==
    [invalid_request |-> 400, invalid_token |-> 401, use_dpop_nonce |-> 401,
     insufficient_scope |-> 403]

-----------------------------------------------------------------------------
(* The request that the client has sent, as the proxy sees it.              *)

Bound == config.binding # NoBinding
Enclosed == route.inside

ScopeParam == route.rule.scope_param

HeldScopes == IF client.token = NoToken THEN {} ELSE client.token.scopes

WrongAudience ==
    LET unnamed(audiences) == audiences \cap client.token.aud = {} IN
    \/ Bound /\ unnamed(config.binding)
    \/ route.rule.audiences # {} /\ unnamed(route.rule.audiences)

\* HasScopes::has_scope, for each scope of the rule.
LacksScope == \E s \in route.rule.scopes : s \notin client.token.scopes

\* A test that the token fails, its challenge and the scope parameter.
Failed(category, challenge, scope) ==
    [category |-> category, challenge |-> challenge, scope |-> scope]

\* An Outcome::Deny without a nonce and an interval.
Deny(status, challenges, details) ==
    [status |-> status, challenges |-> challenges, details |-> details,
     nonce |-> FALSE, retry_after |-> FALSE]

-----------------------------------------------------------------------------
(* Faulty variants of the definitions below: none is part of the model.     *)

FaultTellsAll(challenge, scope) ==
    [code |-> challenge.code, described |-> challenge.described,
     scopes |-> Or(challenge.scope, scope)]

FaultOwnScopeIgnored(challenge, scope) ==
    IF challenge.error # "client" THEN NoDetails
    ELSE [code |-> challenge.code, described |-> challenge.described,
          scopes |-> scope]

FaultNonceDropped(challenge, scope, nonce, retry) ==
    [status |-> IF challenge.error = "client"
                THEN RejectionStatus[challenge.code] ELSE 503,
     challenges |-> IF challenge.error = "client"
                    THEN {HeaderValue(challenge.code,
                                      Or(challenge.scope, scope))} ELSE {},
     details |-> FaultOwnScopeIgnored(challenge, Or(challenge.scope, scope)),
     nonce |-> FALSE, retry_after |-> retry]

FaultNamesOneScope ==
    CASE WrongAudience -> Failed("audience", InvalidToken, ScopeParam)
      [] ~WrongAudience /\ LacksScope ->
           Failed("insufficient_scope", InsufficientScope,
                  {CHOOSE s \in route.rule.scopes : s \notin HeldScopes})
      [] OTHER -> Failed("none", InvalidToken, NoScope)

-----------------------------------------------------------------------------
(* Outcome::Deny, as the guard builds it.                                   *)

\* FailureDetails::from_challenge.
FromChallenge(challenge, scope) ==
    IF challenge.error # "client" THEN NoDetails
    ELSE [code |-> challenge.code, described |-> challenge.described,
          scopes |-> Or(challenge.scope, scope)]

\* Guard::deny_error and the validator's own errors: the status, the header
\* values and the details come from one challenge.
DenyError(challenge, scope, nonce, retry) ==
    [status |-> IF challenge.error = "client"
                THEN RejectionStatus[challenge.code] ELSE 503,
     challenges |-> IF challenge.error = "client"
                    THEN {HeaderValue(challenge.code,
                                      Or(challenge.scope, scope))} ELSE {},
     details |-> FromChallenge(challenge, scope),
     nonce |-> nonce, retry_after |-> retry]

\* Guard::bad_request_with_metadata.
BadRequest ==
    Deny(400, {HeaderValue("invalid_request", NoScope)},
         FromChallenge(InvalidRequest, NoScope))

\* resolve_error_status.
ResolveErrorStatus(kind) ==
    CASE kind = "invalid_input" -> 400 [] kind = "policy_denied" -> 403
      [] kind = "internal" -> 500

\* Guard::route_denial.
RouteDenial(kind) ==
    IF kind = "invalid_input" THEN BadRequest
    ELSE Deny(ResolveErrorStatus(kind), {}, NoDetails)

\* No token where one is required.
Unauthenticated(scope, nonce) ==
    [Deny(401, {HeaderValue("none", scope)}, NoDetails) EXCEPT !.nonce = nonce]

\* ProtectedResourceProxy::request_filter.
OutsideResource ==
    Deny(IF route.reconstructs THEN 403 ELSE 400, {},
         [NoDetails EXCEPT !.described = TRUE])

-----------------------------------------------------------------------------
(* The writers of response.rs.                                              *)

\* write_challenge_response, with the page that the renderer made.
ChallengeResponse(deny, made, method) ==
    LET body == method # "HEAD" /\ made.length > 0 IN
    [status |-> deny.status, challenges |-> deny.challenges,
     nonce |-> deny.nonce, retry_after |-> deny.retry_after,
     length |-> made.length, typed |-> made.typed,
     cached |-> FALSE, allow |-> FALSE,
     ended |-> ~body, sent |-> IF body THEN made.length ELSE 0]

\* write_resource_metadata_response: the document is never empty.
MetadataResponse(method) ==
    [NoResponse EXCEPT !.length = 1, !.typed = TRUE, !.cached = TRUE,
                       !.ended = method # "GET",
                       !.sent = IF method = "GET" THEN 1 ELSE 0]

\* write_method_not_allowed.
MethodNotAllowed ==
    [NoResponse EXCEPT !.status = 405, !.allow = TRUE, !.ended = TRUE]

-----------------------------------------------------------------------------
(* The proxy, for the request that the client has sent.                     *)

\* The renderer is told the details; then the response is written with what it
\* made of them.
Refuse(category, deny) ==
    /\ told' = deny.details
    /\ page' \in Pages
    /\ response' = ChallengeResponse(deny, page', client.method)
    /\ refusals' = Append(refusals, category)
    /\ pc' = "answered"
    /\ UNCHANGED <<route, config, client>>

Forward ==
    /\ pc' = "forwarded"
    /\ UNCHANGED <<route, config, client, told, page, response, refusals, faults>>

RejectOutside ==
    /\ pc = "proxy" /\ Bound /\ ~Enclosed
    /\ Refuse("outside_resource", OutsideResource)
    /\ UNCHANGED faults

AtGuard == pc = "proxy" /\ (Bound => Enclosed)

DenyRoute ==
    /\ AtGuard /\ route.resolves # "rule"
    /\ Refuse(route.resolves, RouteDenial(route.resolves))
    /\ UNCHANGED faults

ForwardPublic ==
    AtGuard /\ route.resolves = "rule" /\ route.rule.token = "none" /\ Forward

RejectUri ==
    /\ AtGuard /\ route.resolves = "rule" /\ route.rule.token # "none"
    /\ ~route.reconstructs
    /\ Refuse("invalid_request", BadRequest)
    /\ UNCHANGED faults

Validating ==
    /\ AtGuard /\ route.resolves = "rule" /\ route.rule.token # "none"
    /\ route.reconstructs

\* A backing service of the validator fails.
ValidatorFails ==
    /\ Validating /\ faults < MaxFaults
    /\ faults' = faults + 1
    /\ \E nonce \in {FALSE, config.dpop}, retry \in BOOLEAN :
         Refuse("server_error",
                DenyError(Challenge("server", "none", TRUE, NoScope),
                          ScopeParam, nonce, retry))

\* The validator judges the token: it is bound to a nonce that the client
\* lacks, is no longer good, or lacks what the validator itself demands.
ValidatorRejects ==
    /\ Validating /\ client.token # NoToken
    /\ \/ /\ config.dpop /\ ~client.nonce
          /\ Refuse("use_dpop_nonce",
                    DenyError(ClientError("use_dpop_nonce", NoScope),
                              ScopeParam, TRUE, FALSE))
          /\ UNCHANGED faults
       \/ /\ config.dpop => client.nonce
          /\ faults < MaxFaults
          /\ faults' = faults + 1
          /\ Refuse("expired", DenyError(InvalidToken, ScopeParam, FALSE, FALSE))
       \/ /\ config.dpop => client.nonce
          /\ ~(config.demands \subseteq client.token.scopes)
          /\ Refuse("demands",
                    DenyError(ClientError("insufficient_scope", config.demands),
                              ScopeParam, FALSE, FALSE))
          /\ UNCHANGED faults

\* A nonce may come with any answer of the validator.
NoTokenPresent ==
    /\ Validating /\ client.token = NoToken
    /\ IF route.rule.token = "optional" THEN Forward
       ELSE /\ \E nonce \in {FALSE, config.dpop} :
                 Refuse("unauthenticated", Unauthenticated(ScopeParam, nonce))
            /\ UNCHANGED faults

Validated ==
    /\ Validating /\ client.token # NoToken
    /\ config.dpop => client.nonce
    /\ config.demands \subseteq client.token.scopes

\* Guard::check_rule: the first test that the token fails.
RuleVerdict ==
    CASE WrongAudience -> Failed("audience", InvalidToken, ScopeParam)
      [] ~WrongAudience /\ LacksScope ->
           Failed("insufficient_scope", InsufficientScope, ScopeParam)
      [] OTHER ->
           CASE route.rule.check = "forbids" ->
                  Failed("forbidden", CustomCheckError("insufficient_scope"),
                         NoScope)
             [] route.rule.check = "invalidates" ->
                  Failed("invalidated", CustomCheckError("invalid_token"),
                         NoScope)
             [] OTHER -> Failed("none", InvalidToken, NoScope)

RejectToken ==
    /\ Validated /\ RuleVerdict.category # "none"
    /\ \E nonce \in {FALSE, config.dpop} :
         Refuse(RuleVerdict.category,
                DenyError(RuleVerdict.challenge, RuleVerdict.scope, nonce,
                          FALSE))
    /\ UNCHANGED faults

ForwardToken == Validated /\ RuleVerdict.category = "none" /\ Forward

-----------------------------------------------------------------------------
(* ResourceMetadataProxy::request_filter, for the resource's own document,  *)
(* which the client looks up when it was first turned away.                 *)

FetchMetadata ==
    /\ pc = "client" /\ Bound /\ Len(refusals) = 1
    /\ response' = IF client.method \in {"GET", "HEAD"}
                   THEN MetadataResponse(client.method) ELSE MethodNotAllowed
    /\ UNCHANGED <<route, config, client, pc, told, page, refusals, faults>>

-----------------------------------------------------------------------------
(* The client.                                                              *)

Send ==
    /\ pc = "client"
    /\ pc' = "proxy"
    /\ UNCHANGED <<route, config, client, told, page, response, refusals, faults>>

\* It keeps a nonce that it is given, asks its authorization server for the
\* scopes a challenge names besides those it has, and waits out a failing
\* server.
Sought(challenge) ==
    IF challenge.scope = NoScope THEN HeldScopes
    ELSE HeldScopes \cup challenge.scope

FreshToken(scopes) == [aud |-> client.aud, scopes |-> scopes]

Held == [client EXCEPT !.nonce = @ \/ response.nonce]

\* The client has a next request to make of this challenge.
Helps(challenge) ==
    \/ challenge.code \in {"none", "invalid_token"}
    \/ challenge.code = "insufficient_scope" /\ Sought(challenge) # HeldScopes
    \/ challenge.code = "use_dpop_nonce" /\ response.nonce

Replaced(challenge) ==
    IF challenge.code = "use_dpop_nonce" THEN client.token
    ELSE FreshToken(Sought(challenge))

TryAgain == pc' = IF Len(refusals) < MaxRequests THEN "client" ELSE "gave_up"

React ==
    /\ pc = "answered"
    /\ \/ \E c \in response.challenges :
            /\ Helps(c) /\ TryAgain
            /\ client' = [Held EXCEPT !.token = Replaced(c)]
       \/ response.status = 503 /\ TryAgain /\ client' = Held
       \/ /\ response.status # 503 /\ ~\E c \in response.challenges : Helps(c)
          /\ pc' = "gave_up"
          /\ UNCHANGED client
    /\ told' = NoDetails /\ page' = NoPage /\ response' = NoResponse
    /\ UNCHANGED <<route, config, refusals, faults>>

Ended == pc \in {"forwarded", "gave_up"} /\ UNCHANGED vars

Proxy ==
    \/ RejectOutside \/ DenyRoute \/ ForwardPublic \/ RejectUri
    \/ ValidatorFails \/ ValidatorRejects \/ NoTokenPresent
    \/ RejectToken \/ ForwardToken

Next ==
    Proxy \/ FetchMetadata \/ Send \/ React \/ Ended

\* The task of a request is polled until it is answered; the client goes on.
Fairness ==
    WF_vars(Proxy) /\ WF_vars(Send) /\ WF_vars(React)

Spec == Init /\ [][Next]_vars /\ Fairness
=============================================================================
