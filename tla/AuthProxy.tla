------------------------------ MODULE AuthProxy ------------------------------
(***************************************************************************)
(* One request passing through AuthProxy, alone or inside a                *)
(* ProtectedResourceProxy (src/src/resource/proxy.rs), the decision that   *)
(* Guard takes for it (src/src/resource/guard/mod.rs) and the              *)
(* authentication state it leaves in the context (src/src/resource/ctx.rs).*)
(*                                                                         *)
(* Every place where the task awaits is a value of pc.  The validator, the *)
(* inner proxy, the upstream, Pingora's runner and the client are outside  *)
(* this repository: they are the nondeterministic choices.  Inner hooks    *)
(* read the authentication state and do not write it.  Statuses, challenge *)
(* parameters and bodies are left out; that a body follows is kept, since  *)
(* its write can fail alone.                                               *)
(***************************************************************************)
EXTENDS Naturals, Sequences

CONSTANTS
    Audiences,         \* the audiences that tokens, rules and bindings name
    Scopes,            \* the scopes that rules and tokens name
    Bindings,          \* the audience lists of the proxies modelled
    NoBinding,         \* the None of a plain AuthProxy's audiences
    NoToken,           \* the None of Option<Arc<ValidatedRequest>>
    NoCooldown,        \* the None of retry_after
    NanosPerSecond,    \* 10^9 in the code
    MaxSeconds,        \* u64::MAX in the code
    MaxAttempts,       \* bound: attempts Pingora makes at the upstream
    MaxInterim         \* bound: interim headers the upstream sends

Tokens == [aud : SUBSET Audiences, scopes : SUBSET Scopes]

Cooldowns == [secs : 0 .. MaxSeconds, nanos : 0 .. NanosPerSecond - 1]

ASSUME ConstantsAssumption ==
    /\ \A b \in Bindings : b = NoBinding \/ b \subseteq Audiences
    /\ NoToken \notin Tokens /\ NoCooldown \notin Cooldowns
    /\ NoCooldown \notin 0 .. MaxSeconds
    /\ NanosPerSecond \in Nat \ {0} /\ MaxSeconds \in Nat \ {0}
    /\ MaxAttempts \in Nat /\ MaxInterim \in Nat

VARIABLES
    pc,        \* where the request's task is
    request,   \* what the request is, as the mapping and the routes see it
    binding,   \* the audiences the proxy is bound to, or NoBinding
    answer,    \* what validate_request returned
    ctx,       \* the HasAuthState part of the request's context
    response,  \* the response header in flight
    upstream,  \* the exchange with the upstream
    client,    \* what the client's connection has carried
    counters   \* the samples of the guard and the authorization counter

vars == <<pc, request, binding, answer, ctx, response, upstream, client,
          counters>>

Nonces == {"none", "valid", "unprintable"}

Rules ==
    [token : {"none", "optional", "required"}, audiences : SUBSET Audiences,
     scopes : SUBSET Scopes, check : {"none", "passes", "forbidden",
     "invalid_token"}, strip_credentials : BOOLEAN]

\* A policy with a constrained public rule does not build.
PolicyRules ==
    {r \in Rules : r.token = "none" => /\ r.audiences = {} /\ r.scopes = {}
                                       /\ r.check = "none"}

\* "reconstructs": the mapping gives a public URI; "inside": its path is in
\* the resource.  The rule of a path that does not resolve is not looked at.
Unmatched ==
    [token |-> "none", audiences |-> {}, scopes |-> {}, check |-> "none",
     strip_credentials |-> TRUE]

Requests ==
    [resolves : {"rule"}, rule : PolicyRules, reconstructs : BOOLEAN,
     inside : BOOLEAN]
    \cup
    [resolves : {"invalid_input", "policy_denied", "internal"},
     rule : {Unmatched}, reconstructs : BOOLEAN, inside : BOOLEAN]

ValidationOutcomes ==
    {"call_error", "binding_error", "nonce_required", "expired",
     "unrecognized_issuer", "extract_error", "other"}

Answer(kind, class, token, nonce, cooldown) ==
    [kind |-> kind, class |-> class, token |-> token, nonce |-> nonce,
     cooldown |-> cooldown]

Unasked == Answer("unasked", "none", NoToken, "none", NoCooldown)

\* "body": bytes are written after the header.
NoResponse ==
    [kind |-> "none", nonce |-> FALSE, retry_after |-> NoCooldown,
     body |-> FALSE]

Init ==
    /\ pc = "request_filter"
    /\ request \in Requests
    /\ binding \in Bindings
    /\ answer = Unasked
    /\ \E strip \in BOOLEAN :    \* AuthCtx starts with TRUE, others may not
         ctx = [token |-> NoToken, nonce |-> "none", strip |-> strip]
    /\ response = NoResponse
    /\ upstream = [attempts |-> 0, interims |-> 0, credentials |-> {}]
    /\ client = NoResponse
    /\ counters = [check |-> <<>>, authorization |-> <<>>]

-----------------------------------------------------------------------------
(* Faulty variants of the definitions below: none is part of the model. Each *)
(* is a slip an edit of the code could make; replacing the definition by it  *)
(* must break a property, which shows that the property is about the code.   *)

FaultUnclassified(class) == class

\* A rule that names audiences replaces the resource's.
FaultRuleOverridesBinding(rule, token) ==
    CASE binding # NoBinding /\ rule.audiences = {}
         /\ binding \cap token.aud = {} -> "invalid_token"
      [] rule.audiences # {} /\ rule.audiences \cap token.aud = {} ->
           "invalid_token"
      [] ~(rule.scopes \subseteq token.scopes) -> "insufficient_scope"
      [] rule.check = "forbidden" -> "insufficient_scope"
      [] rule.check = "invalid_token" -> "invalid_token"
      [] OTHER -> "forward"

\* "any" becomes "all".
FaultEveryAudience(rule, token) ==
    CASE binding # NoBinding /\ ~(binding \subseteq token.aud) ->
           "invalid_token"
      [] rule.audiences # {} /\ rule.audiences \cap token.aud = {} ->
           "invalid_token"
      [] ~(rule.scopes \subseteq token.scopes) -> "insufficient_scope"
      [] rule.check = "forbidden" -> "insufficient_scope"
      [] rule.check = "invalid_token" -> "invalid_token"
      [] OTHER -> "forward"

FaultSeconds(d) == d.secs

\* The authorization counter moves into the branch that denies.
FaultAuthorizationOnlyOnDenial(outcome) ==
    /\ counters' = [check |-> Append(counters.check, outcome.category),
                    authorization |->
                      IF outcome.kind = "deny"
                      THEN Append(counters.authorization, outcome.category)
                      ELSE counters.authorization]
    /\ pc' = IF outcome.kind = "deny" THEN "write_header"
             ELSE "inner_request_filter"
    /\ ctx' = [token |-> outcome.token, nonce |-> outcome.nonce,
               strip |-> outcome.strip]
    /\ UNCHANGED <<response, upstream, client>>

\* Ok(false) after the rejection was written.
FaultFallsThrough ==
    /\ pc = "write_header"
    /\ client' = response
    /\ pc' = "inner_request_filter"
    /\ UNCHANGED <<request, binding, answer, ctx, response, upstream, counters>>

FaultStripsFirstAttempt ==
    /\ pc = "upstream_peer" /\ upstream.attempts < MaxAttempts
    /\ upstream' = [upstream EXCEPT
                      !.attempts = @ + 1,
                      !.credentials =
                        @ \cup {~ctx.strip \/ upstream.attempts > 0}]
    /\ pc' = "inner_upstream_request_filter"
    /\ UNCHANGED <<request, binding, answer, ctx, response, client, counters>>

FaultUpgradeIsInterim == response.kind \in {"interim", "upgrade"}

-----------------------------------------------------------------------------
(* Guard: from the request and the validator's answer to an outcome.        *)

ForwardOutcome(token, nonce) ==
    [kind |-> "forward", category |-> "forward", token |-> token,
     nonce |-> nonce, strip |-> request.rule.strip_credentials,
     cooldown |-> NoCooldown]

DenyOutcome(category, nonce, cooldown) ==
    [kind |-> "deny", category |-> category, token |-> NoToken,
     nonce |-> nonce, strip |-> TRUE, cooldown |-> cooldown]

RouteDenial ==
    [invalid_input |-> "path_confusion", policy_denied |-> "policy_denied",
     internal |-> "server_error"]

FromValidation(class) ==
    CASE class = "call_error" -> "server_error"
      [] class = "extract_error" -> "invalid_request"
      [] class = "other" -> "invalid_token"
      [] OTHER -> class

\* check_rule, as the category it denies with: "forward" for None.
CheckRule(rule, token) ==
    CASE binding # NoBinding /\ binding \cap token.aud = {} -> "invalid_token"
      [] rule.audiences # {} /\ rule.audiences \cap token.aud = {} ->
           "invalid_token"
      [] ~(rule.scopes \subseteq token.scopes) -> "insufficient_scope"
      [] rule.check = "forbidden" -> "insufficient_scope"
      [] rule.check = "invalid_token" -> "invalid_token"
      [] OTHER -> "forward"

\* What check_request_categorized makes of the validator's answer a.
Judged(a) ==
    CASE a.kind = "rejected" ->
           DenyOutcome(FromValidation(a.class), a.nonce, a.cooldown)
      [] a.kind = "missing" ->
           IF request.rule.token = "required"
           THEN DenyOutcome("unauthenticated", a.nonce, NoCooldown)
           ELSE ForwardOutcome(NoToken, a.nonce)
      [] a.kind = "valid" ->
           LET category == CheckRule(request.rule, a.token) IN
           IF category = "forward" THEN ForwardOutcome(a.token, a.nonce)
           ELSE DenyOutcome(category, a.nonce, NoCooldown)

-----------------------------------------------------------------------------
(* AuthProxy::authorize.                                                    *)

\* Whole seconds that do not fall short of the duration, saturating.
Seconds(d) ==
    IF d.nanos > 0 /\ d.secs < MaxSeconds THEN d.secs + 1 ELSE d.secs

\* write_challenge_response up to its first await.  A nonce that is no header
\* value fails before anything is written.
WriteChallenge(nonce, cooldown) ==
    /\ pc' = IF nonce = "unprintable" THEN "failed" ELSE "write_header"
    /\ IF nonce = "unprintable" THEN UNCHANGED response
       ELSE \E body \in BOOLEAN :
              response' = [kind |-> "challenge", nonce |-> nonce = "valid",
                           retry_after |-> IF cooldown = NoCooldown
                                           THEN NoCooldown
                                           ELSE Seconds(cooldown),
                           body |-> body]
    /\ UNCHANGED ctx

Admit(outcome) ==
    /\ ctx' = [token |-> outcome.token, nonce |-> outcome.nonce,
               strip |-> outcome.strip]
    /\ pc' = "inner_request_filter"
    /\ UNCHANGED response

\* From the guard's outcome, through both counters, to the next await.
Authorize(outcome) ==
    /\ counters' = [check |-> Append(counters.check, outcome.category),
                    authorization |->
                      Append(counters.authorization, outcome.category)]
    /\ IF outcome.kind = "forward" THEN Admit(outcome)
       ELSE WriteChallenge(outcome.nonce, outcome.cooldown)
    /\ UNCHANGED <<upstream, client>>

-----------------------------------------------------------------------------
(* request_filter.                                                          *)

Enclosed == request.reconstructs /\ request.inside

\* ProtectedResourceProxy turns away what is not in its resource, before its
\* guard looks at the request.
RejectOutside ==
    /\ pc = "request_filter" /\ binding # NoBinding /\ ~Enclosed
    /\ counters' =
         [counters EXCEPT !.authorization =
            Append(@, IF request.reconstructs THEN "outside_resource"
                      ELSE "invalid_request")]
    /\ WriteChallenge("none", NoCooldown)
    /\ UNCHANGED <<request, binding, answer, upstream, client>>

ReachesGuard ==
    pc = "request_filter" /\ (binding # NoBinding => Enclosed)

DenyRoute ==
    /\ ReachesGuard /\ request.resolves # "rule"
    /\ Authorize(DenyOutcome(RouteDenial[request.resolves], "none", NoCooldown))
    /\ UNCHANGED <<request, binding, answer>>

AdmitPublic ==
    /\ ReachesGuard /\ request.resolves = "rule"
    /\ request.rule.token = "none"
    /\ Authorize(ForwardOutcome(NoToken, "none"))
    /\ UNCHANGED <<request, binding, answer>>

RejectUri ==
    /\ ReachesGuard /\ request.resolves = "rule"
    /\ request.rule.token # "none" /\ ~request.reconstructs
    /\ Authorize(DenyOutcome("invalid_request", "none", NoCooldown))
    /\ UNCHANGED <<request, binding, answer>>

CallValidator ==
    /\ ReachesGuard /\ request.resolves = "rule"
    /\ request.rule.token # "none" /\ request.reconstructs
    /\ pc' = "validate"
    /\ UNCHANGED <<request, binding, answer, ctx, response, upstream, client,
                   counters>>

\* The validator, and what the guard and authorize make of its answer before
\* they await again.
ValidatorAnswers ==
    /\ pc = "validate"
    /\ \E nonce \in Nonces :
         \/ answer' = Answer("missing", "none", NoToken, nonce, NoCooldown)
         \/ \E token \in Tokens :
              answer' = Answer("valid", "none", token, nonce, NoCooldown)
         \/ \E class \in ValidationOutcomes, d \in Cooldowns \cup {NoCooldown} :
              /\ d # NoCooldown => class = "call_error"
              /\ answer' = Answer("rejected", class, NoToken, nonce, d)
    /\ Authorize(Judged(answer'))
    /\ UNCHANGED <<request, binding>>

\* The inner proxy lets the request pass, answers it itself or fails.
InnerRequestFilter ==
    /\ pc = "inner_request_filter"
    /\ \/ pc' = "upstream_peer" /\ UNCHANGED client
       \/ pc' = "done" /\ client' = [NoResponse EXCEPT !.kind = "inner"]
       \/ pc' = "failed" /\ UNCHANGED client
    /\ UNCHANGED <<request, binding, answer, ctx, response, upstream, counters>>

\* The client takes the header, or its connection fails.
WriteHeader ==
    /\ pc = "write_header"
    /\ \/ client' = response
          /\ pc' = IF response.body THEN "write_body" ELSE "done"
       \/ pc' = "failed" /\ UNCHANGED client
    /\ UNCHANGED <<request, binding, answer, ctx, response, upstream, counters>>

WriteBody ==
    /\ pc = "write_body"
    /\ pc' \in {"done", "failed"}
    /\ UNCHANGED <<request, binding, answer, ctx, response, upstream, client,
                   counters>>

-----------------------------------------------------------------------------
(* The exchange with the upstream.                                          *)

\* Pingora copies the client's header for every attempt; upstream_request_
\* filter removes the credentials from the copy before the inner hook.
UpstreamRequestFilter ==
    /\ pc = "upstream_peer" /\ upstream.attempts < MaxAttempts
    /\ upstream' = [upstream EXCEPT !.attempts = @ + 1,
                                    !.credentials = @ \cup {~ctx.strip}]
    /\ pc' = "inner_upstream_request_filter"
    /\ UNCHANGED <<request, binding, answer, ctx, response, client, counters>>

\* No attempt left, or no peer.
NoPeer ==
    /\ pc = "upstream_peer"
    /\ pc' = "failed"
    /\ UNCHANGED <<request, binding, answer, ctx, response, upstream, client,
                   counters>>

InnerUpstreamRequestFilter ==
    /\ pc = "inner_upstream_request_filter"
    /\ pc' \in {"exchange", "failed"}
    /\ UNCHANGED <<request, binding, answer, ctx, response, upstream, client,
                   counters>>

\* A connection that fails before any header may be retried.
UpstreamFails ==
    /\ pc = "exchange"
    /\ pc' \in IF upstream.interims = 0 THEN {"upstream_peer", "failed"}
              ELSE {"failed"}
    /\ UNCHANGED <<request, binding, answer, ctx, response, upstream, client,
                   counters>>

UpstreamResponds ==
    /\ pc = "exchange"
    /\ \/ /\ upstream.interims < MaxInterim
          /\ upstream' = [upstream EXCEPT !.interims = @ + 1]
          /\ response' = [NoResponse EXCEPT !.kind = "interim"]
       \/ /\ \E kind \in {"final", "upgrade"} :
               response' = [NoResponse EXCEPT !.kind = kind]
          /\ UNCHANGED upstream
    /\ pc' = "inner_response_filter"
    /\ UNCHANGED <<request, binding, answer, ctx, client, counters>>

Informational == response.kind \in {"interim", "upgrade"}

\* A 101 is informational, and terminal.
Interim == Informational /\ response.kind # "upgrade"

\* response_filter once the inner hook has returned, and the header's way to
\* the client.  The nonce is taken even when it cannot be inserted.
ResponseFilter ==
    /\ pc = "inner_response_filter"
    /\ ctx' = IF Interim THEN ctx ELSE [ctx EXCEPT !.nonce = "none"]
    /\ \/ /\ ~Interim /\ ctx.nonce = "unprintable"
          /\ pc' = "failed"
          /\ UNCHANGED <<response, client>>
       \/ /\ Interim \/ ctx.nonce # "unprintable"
          /\ response' = [response EXCEPT !.nonce =
                            ~Interim /\ ctx.nonce = "valid"]
          /\ IF response.kind = "interim"
             THEN pc' = "exchange" /\ UNCHANGED client
             ELSE pc' = "done" /\ client' = response'
    /\ UNCHANGED <<request, binding, answer, upstream, counters>>

\* The inner hook fails, or the client's connection while the header goes out.
ResponseFails ==
    /\ pc = "inner_response_filter"
    /\ pc' = "failed"
    /\ UNCHANGED <<request, binding, answer, ctx, response, upstream, client,
                   counters>>

-----------------------------------------------------------------------------
(* The end of the request.                                                  *)

Finished == {"done", "aborted"}

\* Pingora's fail_to_proxy: an error page, unless a header is already out.
FailToProxy ==
    /\ pc = "failed"
    /\ pc' = "done"
    /\ client' = IF client.kind = "none"
                 THEN [NoResponse EXCEPT !.kind = "error"] ELSE client
    /\ UNCHANGED <<request, binding, answer, ctx, response, upstream, counters>>

\* The task is dropped at an await.
Abort ==
    /\ pc \notin Finished \cup {"request_filter"}
    /\ pc' = "aborted"
    /\ UNCHANGED <<request, binding, answer, ctx, response, upstream, client,
                   counters>>

Ended == pc \in Finished /\ UNCHANGED vars

Next ==
    \/ RejectOutside \/ DenyRoute \/ AdmitPublic \/ RejectUri
    \/ CallValidator \/ ValidatorAnswers
    \/ InnerRequestFilter \/ WriteHeader \/ WriteBody
    \/ UpstreamRequestFilter \/ NoPeer \/ InnerUpstreamRequestFilter
    \/ UpstreamFails \/ UpstreamResponds \/ ResponseFilter \/ ResponseFails
    \/ FailToProxy \/ Abort \/ Ended

Spec == Init /\ [][Next]_vars
=============================================================================
