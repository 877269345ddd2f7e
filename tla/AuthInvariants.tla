--------------------------- MODULE AuthInvariants ---------------------------
(***************************************************************************)
(* What AuthProxy and its guard promise of one request.                    *)
(***************************************************************************)
EXTENDS AuthProxy

Categories ==
    {"forward", "path_confusion", "policy_denied", "unauthenticated",
     "invalid_token", "expired", "unrecognized_issuer", "binding_error",
     "nonce_required", "insufficient_scope", "invalid_request",
     "server_error"}

\* The await points of a request that the guard has let through.
InnerPoints ==
    {"inner_request_filter", "upstream_peer", "inner_upstream_request_filter",
     "exchange", "inner_response_filter"}

ResponseType ==
    [kind : {"none", "challenge", "inner", "error", "interim", "final",
             "upgrade"},
     nonce : BOOLEAN, retry_after : 0 .. MaxSeconds \cup {NoCooldown},
     body : BOOLEAN]

\* The types of the variables.
TypeOK ==
    /\ pc \in InnerPoints \cup {"request_filter", "validate", "write_header",
                                "write_body", "failed"} \cup Finished
    /\ request \in Requests
    /\ binding \in Bindings
    /\ answer \in [kind : {"unasked", "rejected", "missing", "valid"},
                   class : ValidationOutcomes \cup {"none"},
                   token : Tokens \cup {NoToken}, nonce : Nonces,
                   cooldown : Cooldowns \cup {NoCooldown}]
    /\ ctx \in [token : Tokens \cup {NoToken}, nonce : Nonces, strip : BOOLEAN]
    /\ response \in ResponseType /\ client \in ResponseType
    /\ upstream \in [attempts : 0 .. MaxAttempts, interims : 0 .. MaxInterim,
                     credentials : SUBSET BOOLEAN]
    /\ counters.check \in Seq(Categories)
    /\ counters.authorization \in Seq(Categories \cup {"outside_resource"})

-----------------------------------------------------------------------------
(* When a request may pass, stated without the guard's order of tests.      *)

Satisfies(token) ==
    /\ binding # NoBinding => \E a \in binding : a \in token.aud
    /\ request.rule.audiences # {} =>
         \E a \in request.rule.audiences : a \in token.aud
    /\ \A s \in request.rule.scopes : s \in token.scopes
    /\ request.rule.check \in {"none", "passes"}

InReach == binding # NoBinding => Enclosed

Permitted ==
    /\ InReach /\ request.resolves = "rule"
    /\ \/ request.rule.token = "none" /\ answer = Unasked
       \/ request.rule.token = "optional" /\ answer.kind = "missing"
       \/ request.rule.token # "none" /\ answer.kind = "valid"
          /\ Satisfies(answer.token)

\* The application finds a token in the context exactly while its own request
\* passes with that token: no rejected token is ever left there.
TokenOnlyIfAccepted ==
    /\ ctx.token # NoToken => Permitted /\ ctx.token = answer.token
    /\ pc \in InnerPoints /\ answer.kind = "valid" => ctx.token = answer.token

\* The inner proxy's hooks, the upstream and what they answer are reached only
\* by a request that binding, route, rule and token permit, whichever writes
\* and hooks fail on the way and however often Pingora retries; they find the
\* token that was accepted and no other.
OnlyPermittedReachInner ==
    /\ pc \in InnerPoints \/ upstream.attempts > 0
         \/ client.kind \in {"inner", "final", "upgrade"} => Permitted
    /\ TokenOnlyIfAccepted

\* The proxy writes a rejection only to a request that is not permitted.
OnlyRefusedAreChallenged ==
    pc \in {"write_header", "write_body"} \/ client.kind = "challenge" =>
      ~Permitted

\* On every attempt at the upstream the client's credentials are there for the
\* inner upstream_request_filter if and only if the rule keeps them, whatever
\* the context started with.
CredentialsFollowRule ==
    upstream.credentials \subseteq {~request.rule.strip_credentials}

\* The nonce that came with the validator's answer is on the rejection, the
\* final response or the 101 that ends the request; interim headers before it
\* neither carry it nor use it up.
NonceOnTerminalResponse ==
    /\ client.kind \in {"challenge", "final", "upgrade"} =>
         client.nonce = (answer.nonce # "none")
    /\ response.kind = "interim" => ~response.nonce
    /\ pc \in InnerPoints => ctx.nonce = answer.nonce

\* A failure of the server itself is counted as one, and nothing else is.
ServerFaultsCountedAsSuch ==
    counters.authorization # <<>> =>
      (counters.authorization = <<"server_error">> <=>
        InReach /\ \/ request.resolves = "internal"
                   \/ answer.class = "call_error")

\* A request whose decision was taken has one authorization sample and, unless
\* the resource binding turned it away, one guard sample that agrees with it;
\* one that is dropped while the validator works has none.  "forward" counts
\* exactly the permitted ones, "server_error" exactly the server's own failures.
OneSamplePerDecision ==
    /\ pc \in {"request_filter", "validate"} => counters.authorization = <<>>
    /\ pc \notin {"request_filter", "validate", "aborted"} =>
         Len(counters.authorization) = 1
    /\ Len(counters.authorization) <= 1
    /\ counters.check = IF InReach THEN counters.authorization ELSE <<>>
    /\ counters.authorization # <<>> =>
         (counters.authorization = <<"forward">> <=> Permitted)
    /\ ServerFaultsCountedAsSuch

Nanos(d) == d.secs * NanosPerSecond + d.nanos

\* A client that waits as long as Retry-After says does not come back before
\* the cooldown is over, unless that exceeds what the header can say, and waits
\* less than a second too long; only an elapsed cooldown reads 0.
RetryAfterCoversCooldown ==
    client.kind = "challenge" =>
      IF answer.cooldown = NoCooldown THEN client.retry_after = NoCooldown
      ELSE LET wait == client.retry_after * NanosPerSecond
               due == Nanos(answer.cooldown) IN
           /\ wait < due + NanosPerSecond
           /\ wait >= due \/ client.retry_after = MaxSeconds
           /\ client.retry_after = 0 => due = 0

-----------------------------------------------------------------------------
\* No step sends a second terminal header: after a rejection whose body fails,
\* or an answer of the inner proxy, nothing else goes to the client.
AnsweredOnce == [][client.kind # "none" => client' = client]_vars

\* A decision is not revised: what the guard put in the context and the
\* counters stays as it was for every later hook; only the nonce is taken, and
\* only together with the response that it was meant for or its failure.
DecisionStands ==
    [][counters.authorization # <<>> =>
         /\ counters' = counters /\ answer' = answer
         /\ ctx'.token = ctx.token /\ ctx'.strip = ctx.strip
         /\ ctx'.nonce # ctx.nonce => pc' \in {"done", "failed"}]_vars
=============================================================================
