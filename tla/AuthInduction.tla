---------------------------- MODULE AuthInduction ----------------------------
(***************************************************************************)
(* The inductive invariant behind the theorems of AuthProxyProofs.  A      *)
(* request is undecided, or it was decided once and its decision is the    *)
(* one Permitted describes; what the context, the upstream and the client  *)
(* may hold follows from which of the three it is.                         *)
(***************************************************************************)
EXTENDS AuthInvariants

AllPoints ==
    InnerPoints \cup {"request_filter", "validate", "write_header",
                      "write_body", "failed"} \cup Finished

AnswerType ==
    [kind : {"unasked", "rejected", "missing", "valid"},
     class : ValidationOutcomes \cup {"none"}, token : Tokens \cup {NoToken},
     nonce : Nonces, cooldown : Cooldowns \cup {NoCooldown}]

CtxType == [token : Tokens \cup {NoToken}, nonce : Nonces, strip : BOOLEAN]

UpstreamType ==
    [attempts : 0 .. MaxAttempts, interims : 0 .. MaxInterim,
     credentials : SUBSET BOOLEAN]

Samples(S) == {<<>>} \cup {<<c>> : c \in S}

CountersType ==
    [check : Samples(Categories),
     authorization : Samples(Categories \cup {"outside_resource"})]

\* The types, with counters of at most one sample.
Shape ==
    /\ pc \in AllPoints
    /\ request \in Requests
    /\ binding \in Bindings
    /\ answer \in AnswerType
    /\ ctx \in CtxType
    /\ response \in ResponseType /\ client \in ResponseType
    /\ upstream \in UpstreamType
    /\ counters \in CountersType

Decided == counters.authorization # <<>>

Untouched == [attempts |-> 0, interims |-> 0, credentials |-> {}]

\* Until the decision nothing has happened but the request's arrival.
Undecided ==
    ~Decided =>
      /\ pc \in {"request_filter", "validate", "aborted"}
      /\ answer = Unasked /\ response = NoResponse /\ client = NoResponse
      /\ upstream = Untouched
      /\ ctx.token = NoToken /\ ctx.nonce = "none"
      /\ counters.check = <<>>

\* The validator works for a request in reach whose rule looks at tokens.
Validating ==
    pc = "validate" =>
      /\ InReach /\ request.resolves = "rule" /\ request.rule.token # "none"
      /\ request.reconstructs

\* The sample says what was decided and why.
Verdict ==
    Decided =>
      /\ pc \notin {"request_filter", "validate"}
      /\ counters.check = IF InReach THEN counters.authorization ELSE <<>>
      /\ counters.authorization = <<"forward">> <=> Permitted
      /\ counters.authorization = <<"server_error">> <=>
           InReach /\ (request.resolves = "internal"
                         \/ answer.class = "call_error")

\* A rejection carries the nonce and the cooldown of the validator's answer.
ChallengeFacts(r) ==
    r.kind = "challenge" =>
      /\ r.nonce = (answer.nonce # "none")
      /\ r.retry_after = IF answer.cooldown = NoCooldown THEN NoCooldown
                         ELSE Seconds(answer.cooldown)

\* A refused request gets no further than its rejection.
Refused ==
    Decided /\ ~Permitted =>
      /\ pc \in {"write_header", "write_body", "failed"} \cup Finished
      /\ ctx.token = NoToken
      /\ upstream = Untouched
      /\ response.kind \in {"none", "challenge"}
      /\ client.kind \in {"none", "challenge", "error"}
      /\ ChallengeFacts(response) /\ ChallengeFacts(client)
      /\ pc \in {"write_header", "write_body"} => response.kind = "challenge"

\* An admitted request runs with the token and the nonce of its own answer.
Admitted ==
    Decided /\ Permitted =>
      /\ pc \in InnerPoints \cup {"failed"} \cup Finished
      /\ ctx.token = answer.token
      /\ ctx.strip = request.rule.strip_credentials
      /\ pc \in InnerPoints => ctx.nonce = answer.nonce
      /\ upstream.credentials \subseteq {~ctx.strip}
      /\ pc = "inner_response_filter" =>
           response.kind \in {"interim", "final", "upgrade"}
      /\ response.kind # "challenge"
      /\ client.kind \notin {"challenge", "interim"}
      /\ client.kind \in {"final", "upgrade"} =>
           client.nonce = (answer.nonce # "none")
      /\ response.kind = "interim" => ~response.nonce

\* Once the client has its header the request only comes to its end.
Answered ==
    client.kind # "none" => pc \in {"write_body", "failed"} \cup Finished

IInv ==
    /\ Shape /\ Undecided /\ Validating /\ Verdict /\ Refused /\ Admitted
    /\ Answered
=============================================================================
