--------------------------- MODULE AuthProxyProofs ---------------------------
(***************************************************************************)
(* The theorems about AuthProxy, for every set of audiences and scopes,    *)
(* every binding and every bound.                                          *)
(***************************************************************************)
EXTENDS AuthInduction, SequenceTheorems, TLAPS

OutcomeType ==
    [kind : {"forward", "deny"}, category : Categories,
     token : Tokens \cup {NoToken}, nonce : Nonces, strip : BOOLEAN,
     cooldown : Cooldowns \cup {NoCooldown}]

\* What the fields of a request may be.
LEMMA RequestFacts ==
    ASSUME request \in Requests
    PROVE  /\ request.rule \in Rules
           /\ request.resolves \in {"rule", "invalid_input", "policy_denied",
                                    "internal"}
           /\ request.reconstructs \in BOOLEAN /\ request.inside \in BOOLEAN
           /\ request.rule.audiences \subseteq Audiences
           /\ request.rule.scopes \subseteq Scopes
           /\ request.rule.token \in {"none", "optional", "required"}
           /\ request.rule.check \in {"none", "passes", "forbidden",
                                      "invalid_token"}
           /\ request.rule.strip_credentials \in BOOLEAN
<1>1. Unmatched \in Rules
  BY DEF Unmatched, Rules
<1>2. request.rule \in Rules
  BY <1>1 DEF Requests, PolicyRules
<1>3. /\ request.resolves \in {"rule", "invalid_input", "policy_denied",
                               "internal"}
      /\ request.reconstructs \in BOOLEAN /\ request.inside \in BOOLEAN
  BY DEF Requests
<1> QED BY <1>2, <1>3 DEF Rules

\* check_rule lets a token pass exactly when it satisfies binding and rule.
LEMMA CheckRuleSound ==
    ASSUME request \in Requests, binding \in Bindings, NEW t \in Tokens
    PROVE  /\ CheckRule(request.rule, t) = "forward" <=> Satisfies(t)
           /\ CheckRule(request.rule, t) \in
                {"forward", "invalid_token", "insufficient_scope"}
<1>1. request.rule.check \in {"none", "passes", "forbidden", "invalid_token"}
  BY RequestFacts
<1>2. t.aud \subseteq Audiences /\ t.scopes \subseteq Scopes
  BY DEF Tokens
<1>3. CASE binding # NoBinding /\ binding \cap t.aud = {}
  BY <1>3 DEF CheckRule, Satisfies
<1>4. CASE ~(binding # NoBinding /\ binding \cap t.aud = {})
  <2>1. binding # NoBinding => \E a \in binding : a \in t.aud
    BY <1>4
  <2>2. CASE request.rule.audiences # {} /\ request.rule.audiences \cap t.aud = {}
    BY <1>4, <2>2 DEF CheckRule, Satisfies
  <2>3. CASE ~(request.rule.audiences # {}
                 /\ request.rule.audiences \cap t.aud = {})
    <3>1. request.rule.audiences # {} =>
             \E a \in request.rule.audiences : a \in t.aud
      BY <2>3
    <3> QED BY <1>1, <1>4, <2>1, <2>3, <3>1 DEF CheckRule, Satisfies
  <2> QED BY <2>2, <2>3
<1> QED BY <1>3, <1>4

LEMMA SecondsType ==
    ASSUME NEW d \in Cooldowns
    PROVE  Seconds(d) \in 0 .. MaxSeconds
BY ConstantsAssumption DEF Cooldowns, Seconds

\* Where the task is does not decide what is permitted.
LEMMA Frame ==
    ASSUME UNCHANGED <<request, binding, answer>>
    PROVE  Permitted' = Permitted /\ InReach' = InReach
BY DEF Permitted, InReach, Enclosed, Satisfies

LEMMA InitIInv == Init => IInv
<1> SUFFICES ASSUME Init PROVE IInv
  OBVIOUS
<1> USE ConstantsAssumption DEF Init
<1>1. Unasked \in AnswerType /\ NoResponse \in ResponseType
  BY DEF Unasked, Answer, AnswerType, NoResponse, ResponseType, Nonces
<1>2. upstream \in UpstreamType /\ upstream = Untouched
  BY DEF UpstreamType, Untouched
<1>3. ctx \in CtxType /\ ctx.token = NoToken /\ ctx.nonce = "none"
  BY DEF CtxType, Nonces
<1>4. counters \in CountersType /\ ~Decided /\ counters.check = <<>>
  BY DEF CountersType, Samples, Decided
<1>5. client.kind = "none" /\ pc = "request_filter"
  BY DEF NoResponse
<1> QED
  BY <1>1, <1>2, <1>3, <1>4, <1>5 DEF IInv, Shape, AllPoints, Undecided,
     Validating, Verdict, Refused, Admitted, Answered

-----------------------------------------------------------------------------
(* The step that takes the decision.                                        *)

\* The first sample is the only one.
LEMMA FirstSample ==
    ASSUME Shape, Undecided, ~Decided, NEW c \in Categories
    PROVE  /\ Append(counters.check, c) = <<c>>
           /\ Append(counters.authorization, c) = <<c>>
           /\ <<c>> # <<>>
<1>1. counters.check = <<>> /\ counters.authorization = <<>>
  BY DEF Undecided, Decided
<1> QED BY <1>1, EmptySeq

\* What write_challenge_response leaves in flight.
LEMMA ChallengeWritten ==
    ASSUME ctx \in CtxType, response \in ResponseType,
           NEW nonce \in Nonces, NEW d \in Cooldowns \cup {NoCooldown},
           WriteChallenge(nonce, d)
    PROVE  /\ ctx' = ctx
           /\ response' \in ResponseType
           /\ \/ pc' = "failed" /\ response' = response
              \/ /\ pc' = "write_header" /\ response'.kind = "challenge"
                 /\ response'.nonce = (nonce # "none")
                 /\ response'.retry_after = IF d = NoCooldown THEN NoCooldown
                                            ELSE Seconds(d)
<1>1. (IF d = NoCooldown THEN NoCooldown ELSE Seconds(d))
         \in 0 .. MaxSeconds \cup {NoCooldown}
  BY SecondsType
<1>2. nonce # "unprintable" => (nonce = "valid" <=> nonce # "none")
  BY DEF Nonces
<1>3. CASE nonce = "unprintable"
  BY <1>3 DEF WriteChallenge
<1>4. CASE nonce # "unprintable"
  <2>1. PICK body \in BOOLEAN :
          response' = [kind |-> "challenge", nonce |-> nonce = "valid",
                       retry_after |-> IF d = NoCooldown THEN NoCooldown
                                       ELSE Seconds(d),
                       body |-> body]
    BY <1>4 DEF WriteChallenge
  <2>2. (nonce = "valid") \in BOOLEAN
    OBVIOUS
  <2>3. response' \in ResponseType
    BY <1>1, <2>1, <2>2 DEF ResponseType
  <2>4. /\ response'.kind = "challenge" /\ response'.nonce = (nonce # "none")
        /\ response'.retry_after = IF d = NoCooldown THEN NoCooldown
                                   ELSE Seconds(d)
    BY <1>2, <1>4, <2>1
  <2> QED BY <1>4, <2>3, <2>4 DEF WriteChallenge
<1> QED BY <1>3, <1>4

\* authorize applied to an outcome that agrees with Permitted.
LEMMA DecisionStep ==
    ASSUME IInv, pc \in {"request_filter", "validate"}, InReach,
           UNCHANGED <<request, binding>>, answer' \in AnswerType,
           NEW o \in OutcomeType, Authorize(o),
           (o.kind = "forward") <=> Permitted',
           (o.kind = "forward") <=> (o.category = "forward"),
           o.kind = "forward" =>
             /\ o.token = answer'.token
             /\ o.strip = request.rule.strip_credentials,
           o.nonce = answer'.nonce,
           o.kind = "deny" => o.cooldown = answer'.cooldown,
           (o.category = "server_error") <=>
             (request.resolves = "internal" \/ answer'.class = "call_error")
    PROVE  IInv'
<1>1. ~Decided /\ ctx.token = NoToken /\ ctx.nonce = "none"
      /\ response = NoResponse /\ client = NoResponse /\ upstream = Untouched
  BY DEF IInv, Verdict, Undecided
<1>2. /\ counters'.check = <<o.category>>
      /\ counters'.authorization = <<o.category>>
      /\ counters' \in CountersType /\ Decided'
  <2>1. o.category \in Categories
    BY DEF OutcomeType
  <2>2. counters' = [check |-> <<o.category>>,
                     authorization |-> <<o.category>>]
        /\ <<o.category>> # <<>>
    BY <1>1, <2>1, FirstSample DEF Authorize, IInv
  <2> QED BY <2>1, <2>2 DEF CountersType, Samples, Decided
<1>3. InReach' /\ client' = NoResponse /\ upstream' = Untouched
      /\ client.kind = "none" /\ response.kind = "none"
  BY <1>1 DEF Authorize, InReach, Enclosed, NoResponse
<1>4. CASE o.kind = "forward"
  <2>1. /\ ctx' = [token |-> o.token, nonce |-> o.nonce, strip |-> o.strip]
        /\ pc' = "inner_request_filter" /\ response' = response
    BY <1>4 DEF Authorize, Admit
  <2>2. ctx' \in CtxType
    BY <2>1 DEF OutcomeType, CtxType, IInv, Shape
  <2>3. Shape'
    BY <1>2, <1>3, <2>1, <2>2 DEF Authorize, IInv, Shape, AllPoints, InnerPoints
  <2>4. Permitted' /\ counters'.authorization = <<"forward">>
    BY <1>2, <1>4
  <2>5. ~(request.resolves = "internal" \/ answer'.class = "call_error")
    BY <1>4
  <2>6. Verdict'
    BY <1>2, <1>3, <2>1, <2>4, <2>5 DEF Verdict
  <2>7. Admitted'
    BY <1>2, <1>3, <1>4, <2>1, <2>4, request' = request
       DEF Admitted, InnerPoints, Untouched, Authorize, NoResponse
  <2> QED
    BY <1>2, <1>3, <2>1, <2>3, <2>4, <2>6, <2>7 DEF IInv, Undecided,
       Validating, Refused, Answered, NoResponse
<1>5. CASE o.kind # "forward"
  <2>1. o.kind = "deny" /\ ~Permitted' /\ o.category # "forward"
    BY <1>5 DEF OutcomeType
  <2>2. WriteChallenge(o.nonce, o.cooldown)
    BY <1>5 DEF Authorize
  <2>3. o.nonce \in Nonces /\ o.cooldown \in Cooldowns \cup {NoCooldown}
    BY DEF OutcomeType
  <2>4. /\ ctx' = ctx
        /\ response' \in ResponseType
        /\ \/ pc' = "failed" /\ response' = response
           \/ /\ pc' = "write_header" /\ response'.kind = "challenge"
              /\ response'.nonce = (answer'.nonce # "none")
              /\ response'.retry_after =
                   IF answer'.cooldown = NoCooldown THEN NoCooldown
                   ELSE Seconds(answer'.cooldown)
    BY <2>1, <2>2, <2>3, ChallengeWritten DEF IInv, Shape
  <2>5. Shape'
    BY <1>2, <1>3, <2>4 DEF Authorize, IInv, Shape, AllPoints
  <2>6. Verdict'
    BY <1>2, <1>3, <2>1, <2>4, request' = request DEF Verdict
  <2>7. Refused'
    BY <1>1, <1>2, <1>3, <2>1, <2>4
       DEF Refused, ChallengeFacts, NoResponse, Seconds
  <2> QED
    BY <1>2, <1>3, <2>1, <2>4, <2>5, <2>6, <2>7 DEF IInv, Undecided,
       Validating, Admitted, Answered, NoResponse
<1> QED BY <1>4, <1>5

\* A path that does not resolve.
LEMMA DenyRouteStep ==
    ASSUME IInv, DenyRoute
    PROVE  IInv'
<1> DEFINE o == DenyOutcome(RouteDenial[request.resolves], "none", NoCooldown)
<1>1. request.resolves \in {"invalid_input", "policy_denied", "internal"}
  BY RequestFacts DEF IInv, Shape, DenyRoute
<1>2. /\ RouteDenial[request.resolves] \in
           {"path_confusion", "policy_denied", "server_error"}
      /\ RouteDenial[request.resolves] = "server_error" <=>
           request.resolves = "internal"
  BY <1>1 DEF RouteDenial
<1>3. o \in OutcomeType
  BY <1>2 DEF DenyOutcome, OutcomeType, Categories, Nonces
<1>4. pc = "request_filter" /\ InReach /\ ~Decided /\ answer = Unasked
  BY DEF DenyRoute, ReachesGuard, InReach, IInv, Verdict, Undecided
<1>5. ~Permitted'
  BY <1>1 DEF Permitted, DenyRoute
<1>6. answer' = Unasked /\ answer' \in AnswerType
  BY <1>4 DEF DenyRoute, IInv, Shape
<1>7. /\ o.kind = "deny" /\ o.category = RouteDenial[request.resolves]
      /\ o.nonce = "none" /\ o.cooldown = NoCooldown
  BY DEF DenyOutcome
<1>8. /\ answer'.nonce = "none" /\ answer'.cooldown = NoCooldown
      /\ answer'.class = "none"
  BY <1>6 DEF Unasked, Answer
<1>9. Authorize(o) /\ UNCHANGED <<request, binding>>
  BY DEF DenyRoute
<1> HIDE DEF o
<1> QED
  BY <1>2, <1>3, <1>4, <1>5, <1>6, <1>7, <1>8, <1>9, DecisionStep

\* A rule that asks for no token.
LEMMA AdmitPublicStep ==
    ASSUME IInv, AdmitPublic
    PROVE  IInv'
<1> DEFINE o == ForwardOutcome(NoToken, "none")
<1>1. request.rule.strip_credentials \in BOOLEAN
  BY RequestFacts DEF IInv, Shape
<1>2. o \in OutcomeType
  BY <1>1 DEF ForwardOutcome, OutcomeType, Categories, Nonces
<1>3. pc = "request_filter" /\ InReach /\ ~Decided /\ answer = Unasked
  BY DEF AdmitPublic, ReachesGuard, InReach, IInv, Verdict, Undecided
<1>4. answer' = Unasked /\ answer' \in AnswerType
  BY <1>3 DEF AdmitPublic, IInv, Shape
<1>5. Permitted'
  BY <1>3, <1>4 DEF Permitted, AdmitPublic, InReach, Enclosed
<1>6. /\ o.kind = "forward" /\ o.category = "forward" /\ o.token = NoToken
      /\ o.nonce = "none" /\ o.strip = request.rule.strip_credentials
  BY DEF ForwardOutcome
<1>7. answer'.nonce = "none" /\ answer'.token = NoToken /\ answer'.class = "none"
  BY <1>4 DEF Unasked, Answer
<1>8. Authorize(o) /\ UNCHANGED <<request, binding>> /\ request.resolves = "rule"
  BY DEF AdmitPublic
<1> HIDE DEF o
<1> QED BY <1>2, <1>3, <1>4, <1>5, <1>6, <1>7, <1>8, DecisionStep

\* A token cannot be bound to a URI that the mapping does not give.
LEMMA RejectUriStep ==
    ASSUME IInv, RejectUri
    PROVE  IInv'
<1> DEFINE o == DenyOutcome("invalid_request", "none", NoCooldown)
<1>1. o \in OutcomeType
  BY DEF DenyOutcome, OutcomeType, Categories, Nonces
<1>2. pc = "request_filter" /\ InReach /\ ~Decided /\ answer = Unasked
  BY DEF RejectUri, ReachesGuard, InReach, IInv, Verdict, Undecided
<1>3. answer' = Unasked /\ answer' \in AnswerType
  BY <1>2 DEF RejectUri, IInv, Shape
<1>4. /\ answer'.nonce = "none" /\ answer'.cooldown = NoCooldown
      /\ answer'.class = "none" /\ answer'.kind = "unasked"
  BY <1>3 DEF Unasked, Answer
<1>5. ~Permitted'
  BY <1>4 DEF Permitted, RejectUri
<1>6. /\ o.kind = "deny" /\ o.category = "invalid_request"
      /\ o.nonce = "none" /\ o.cooldown = NoCooldown
  BY DEF DenyOutcome
<1>7. Authorize(o) /\ UNCHANGED <<request, binding>> /\ request.resolves = "rule"
  BY DEF RejectUri
<1> HIDE DEF o
<1> QED BY <1>1, <1>2, <1>3, <1>4, <1>5, <1>6, <1>7, DecisionStep

LEMMA FromValidationClasses ==
    ASSUME NEW class \in ValidationOutcomes
    PROVE  /\ FromValidation(class) \in Categories \ {"forward"}
           /\ FromValidation(class) = "server_error" <=> class = "call_error"
BY DEF FromValidation, ValidationOutcomes, Categories

\* The guard's judgement of an answer agrees with Permitted.
LEMMA JudgedSound ==
    ASSUME Shape, InReach, request.resolves = "rule",
           request.rule.token # "none",
           NEW a \in AnswerType, a.kind # "unasked",
           a.kind = "rejected" => a.class \in ValidationOutcomes,
           a.kind # "rejected" => a.class = "none" /\ a.cooldown = NoCooldown,
           a.kind = "missing" => a.token = NoToken,
           a.kind = "valid" => a.token \in Tokens
    PROVE  LET o == Judged(a)
               mayPass ==
                 \/ request.rule.token = "optional" /\ a.kind = "missing"
                 \/ a.kind = "valid" /\ Satisfies(a.token)
           IN /\ o \in OutcomeType
              /\ o.kind = "forward" <=> mayPass
              /\ o.kind = "forward" <=> o.category = "forward"
              /\ o.kind = "forward" =>
                   /\ o.token = a.token
                   /\ o.strip = request.rule.strip_credentials
              /\ o.nonce = a.nonce
              /\ o.kind = "deny" => o.cooldown = a.cooldown
              /\ o.category = "server_error" <=> a.class = "call_error"
<1>1. /\ a.nonce \in Nonces /\ a.cooldown \in Cooldowns \cup {NoCooldown}
      /\ a.kind \in {"rejected", "missing", "valid"}
  BY DEF AnswerType
<1>2. /\ request.rule.strip_credentials \in BOOLEAN
      /\ request.rule.token \in {"optional", "required"}
  BY RequestFacts DEF Shape
<1>3. CASE a.kind = "rejected"
  <2>1. Judged(a) = DenyOutcome(FromValidation(a.class), a.nonce, a.cooldown)
    BY <1>3 DEF Judged
  <2>2. DenyOutcome(FromValidation(a.class), a.nonce, a.cooldown) \in OutcomeType
    BY <1>1, <1>3, FromValidationClasses DEF DenyOutcome, OutcomeType
  <2> QED BY <1>3, <2>1, <2>2, FromValidationClasses DEF DenyOutcome
<1>4. CASE a.kind = "missing"
  <2>1. Judged(a) = IF request.rule.token = "required"
                    THEN DenyOutcome("unauthenticated", a.nonce, NoCooldown)
                    ELSE ForwardOutcome(NoToken, a.nonce)
    BY <1>4 DEF Judged
  <2>2. Judged(a) \in OutcomeType
    BY <1>1, <1>2, <2>1
       DEF DenyOutcome, ForwardOutcome, OutcomeType, Categories
  <2> QED BY <1>2, <1>4, <2>1, <2>2 DEF DenyOutcome, ForwardOutcome
<1>5. CASE a.kind = "valid"
  <2> DEFINE c == CheckRule(request.rule, a.token)
  <2>1. Judged(a) = IF c = "forward" THEN ForwardOutcome(a.token, a.nonce)
                    ELSE DenyOutcome(c, a.nonce, NoCooldown)
    BY <1>5 DEF Judged
  <2>2. /\ c = "forward" <=> Satisfies(a.token)
        /\ c \in {"forward", "invalid_token", "insufficient_scope"}
    BY <1>5, CheckRuleSound DEF Shape
  <2> HIDE DEF c
  <2>3. Judged(a) \in OutcomeType
    BY <1>1, <1>2, <1>5, <2>1, <2>2
       DEF DenyOutcome, ForwardOutcome, OutcomeType, Categories
  <2> QED BY <1>5, <2>1, <2>2, <2>3 DEF DenyOutcome, ForwardOutcome
<1> QED BY <1>1, <1>3, <1>4, <1>5

\* The validator's answer, whatever it is.
LEMMA ValidatorAnswersStep ==
    ASSUME IInv, ValidatorAnswers
    PROVE  IInv'
<1> DEFINE o == Judged(answer')
<1>1. pc = "validate" /\ ~Decided /\ Authorize(o) /\ UNCHANGED <<request, binding>>
  BY DEF ValidatorAnswers, IInv, Verdict
<1>2. InReach /\ request.resolves = "rule" /\ request.rule.token # "none"
  BY <1>1 DEF IInv, Validating
<1>3. /\ answer' \in AnswerType
      /\ answer'.kind # "unasked"
      /\ answer'.kind = "rejected" => answer'.class \in ValidationOutcomes
      /\ answer'.kind # "rejected" =>
           answer'.class = "none" /\ answer'.cooldown = NoCooldown
      /\ answer'.kind = "missing" => answer'.token = NoToken
      /\ answer'.kind = "valid" => answer'.token \in Tokens
  BY DEF ValidatorAnswers, Answer, AnswerType
<1>4. /\ o \in OutcomeType
      /\ o.kind = "forward" <=>
           (\/ request.rule.token = "optional" /\ answer'.kind = "missing"
            \/ answer'.kind = "valid" /\ Satisfies(answer'.token))
      /\ o.kind = "forward" <=> o.category = "forward"
      /\ o.kind = "forward" =>
           /\ o.token = answer'.token
           /\ o.strip = request.rule.strip_credentials
      /\ o.nonce = answer'.nonce
      /\ o.kind = "deny" => o.cooldown = answer'.cooldown
      /\ o.category = "server_error" <=> answer'.class = "call_error"
  BY <1>2, <1>3, JudgedSound DEF IInv
<1> HIDE DEF o
<1>5. Permitted' <=>
        (\/ request.rule.token = "optional" /\ answer'.kind = "missing"
         \/ answer'.kind = "valid" /\ Satisfies(answer'.token))
  <2>1. request' = request /\ binding' = binding
    BY <1>1
  <2>2. InReach' /\ request'.resolves = "rule" /\ request'.rule.token # "none"
    BY <1>2, <2>1 DEF InReach, Enclosed
  <2>3. answer' # Unasked
    BY <1>3 DEF Unasked, Answer
  <2> QED BY <2>1, <2>2, <2>3 DEF Permitted, Satisfies
<1> QED BY <1>1, <1>2, <1>3, <1>4, <1>5, DecisionStep

\* A request outside the resource of a bound proxy.
LEMMA RejectOutsideStep ==
    ASSUME IInv, RejectOutside
    PROVE  IInv'
<1> DEFINE sample == IF request.reconstructs THEN "outside_resource"
                     ELSE "invalid_request"
<1>1. /\ pc = "request_filter" /\ ~InReach /\ ~Decided
      /\ UNCHANGED <<request, binding, answer>>
  BY DEF RejectOutside, InReach, IInv, Verdict
<1>2. /\ answer = Unasked /\ ctx.token = NoToken /\ ctx.nonce = "none"
      /\ response = NoResponse /\ client = NoResponse /\ upstream = Untouched
      /\ counters.check = <<>> /\ counters.authorization = <<>>
  BY <1>1 DEF IInv, Undecided, Decided
<1>3. answer.nonce = "none" /\ answer.cooldown = NoCooldown
      /\ answer.class = "none"
  BY <1>2 DEF Unasked, Answer
<1>4. sample \in (Categories \cup {"outside_resource"}) \ {"forward", "server_error"}
  BY DEF Categories
<1>5. Append(counters.authorization, sample) = <<sample>> /\ <<sample>> # <<>>
  BY <1>2, EmptySeq
<1>6. /\ counters' = [counters EXCEPT !.authorization = <<sample>>]
      /\ WriteChallenge("none", NoCooldown) /\ UNCHANGED <<upstream, client>>
  BY <1>5 DEF RejectOutside
<1> HIDE DEF sample
<1>7. /\ counters'.authorization = <<sample>> /\ counters'.check = <<>>
      /\ counters' \in CountersType /\ Decided'
  BY <1>2, <1>4, <1>5, <1>6 DEF IInv, Shape, CountersType, Samples, Decided
<1>8. /\ ctx' = ctx /\ response' \in ResponseType
      /\ \/ pc' = "failed" /\ response' = response
         \/ /\ pc' = "write_header" /\ response'.kind = "challenge"
            /\ response'.nonce = ("none" # "none")
            /\ response'.retry_after = IF NoCooldown = NoCooldown THEN NoCooldown
                                       ELSE Seconds(NoCooldown)
  BY <1>6, ChallengeWritten DEF IInv, Shape, Nonces
<1>9. ~InReach' /\ ~Permitted'
  BY <1>1, Frame DEF Permitted
<1>10. Shape'
  BY <1>1, <1>6, <1>7, <1>8 DEF IInv, Shape, AllPoints
<1>11. Verdict'
  BY <1>4, <1>7, <1>8, <1>9 DEF Verdict
<1>12. Refused'
  BY <1>1, <1>2, <1>3, <1>6, <1>7, <1>8, <1>9
     DEF Refused, ChallengeFacts, NoResponse
<1> QED
  BY <1>2, <1>6, <1>7, <1>8, <1>9, <1>10, <1>11, <1>12
     DEF IInv, Undecided, Validating, Admitted, Answered, NoResponse

\* The guard calls the validator.
LEMMA CallValidatorStep ==
    ASSUME IInv, CallValidator
    PROVE  IInv'
<1>1. /\ pc = "request_filter" /\ pc' = "validate" /\ InReach
      /\ UNCHANGED <<request, binding, answer, ctx, response, upstream, client,
                     counters>>
  BY DEF CallValidator, ReachesGuard, InReach
<1>2. ~Decided /\ ~Decided' /\ InReach'
  BY <1>1, Frame DEF IInv, Verdict, Decided
<1>3. Shape' /\ Undecided' /\ Validating'
  BY <1>1, <1>2 DEF CallValidator, IInv, Shape, AllPoints, Undecided,
     Validating, InReach, Enclosed
<1> QED
  BY <1>1, <1>2, <1>3 DEF IInv, Verdict, Refused, Admitted, Answered,
     Undecided, NoResponse

-----------------------------------------------------------------------------
(* The steps after the decision, which none of them revises.                *)

\* A decided request stays decided as it was.
LEMMA Settled ==
    ASSUME IInv, pc \notin {"request_filter", "validate", "aborted"},
           UNCHANGED <<request, binding, answer, counters>>,
           pc' \notin {"request_filter", "validate"}
    PROVE  /\ Decided /\ Decided'
           /\ Undecided' /\ Validating' /\ Verdict'
           /\ Permitted' = Permitted
<1>1. Decided /\ Decided'
  BY DEF IInv, Undecided, Decided
<1>2. Permitted' = Permitted /\ InReach' = InReach
  BY Frame
<1> QED BY <1>1, <1>2 DEF IInv, Undecided, Validating, Verdict

\* The inner hooks decide only where the task goes on, and may answer.
LEMMA InnerHookStep ==
    ASSUME IInv, InnerRequestFilter \/ InnerUpstreamRequestFilter \/ NoPeer
                   \/ UpstreamFails \/ ResponseFails
    PROVE  IInv'
<1>1. /\ pc \in InnerPoints
      /\ pc' \in {"upstream_peer", "exchange", "failed", "done"}
      /\ UNCHANGED <<request, binding, answer, ctx, response, upstream, counters>>
      /\ \/ client' = client
         \/ pc' = "done" /\ client' = [NoResponse EXCEPT !.kind = "inner"]
  BY DEF InnerRequestFilter, InnerUpstreamRequestFilter, NoPeer, UpstreamFails,
     ResponseFails, InnerPoints
<1>2. /\ Decided /\ Decided' /\ Undecided' /\ Validating' /\ Verdict'
      /\ Permitted' = Permitted
  BY <1>1, Settled DEF InnerPoints
<1>3. Permitted /\ client.kind = "none"
  BY <1>1, <1>2 DEF IInv, Refused, Answered, InnerPoints, Finished
<1>4. [NoResponse EXCEPT !.kind = "inner"] \in ResponseType
  BY DEF NoResponse, ResponseType
<1>5. Shape'
  BY <1>1, <1>4 DEF IInv, Shape, AllPoints, InnerPoints, Finished
<1>6. Admitted'
  BY <1>1, <1>2, <1>3 DEF IInv, Admitted, InnerPoints, Finished, NoResponse
<1> QED
  BY <1>1, <1>2, <1>3, <1>5, <1>6 DEF IInv, Refused, Answered, Finished,
     NoResponse

\* The header of a rejection, and its body.
LEMMA WriteStep ==
    ASSUME IInv, WriteHeader \/ WriteBody
    PROVE  IInv'
<1>1. /\ pc \in {"write_header", "write_body"}
      /\ pc' \in {"write_body", "failed", "done"}
      /\ UNCHANGED <<request, binding, answer, ctx, response, upstream, counters>>
      /\ client' \in {client, response}
  BY DEF WriteHeader, WriteBody
<1>2. /\ Decided /\ Decided' /\ Undecided' /\ Validating' /\ Verdict'
      /\ Permitted' = Permitted
  BY <1>1, Settled
<1>3. ~Permitted
  BY <1>1, <1>2 DEF IInv, Admitted, InnerPoints, Finished
<1>4. Shape'
  BY <1>1 DEF IInv, Shape, AllPoints, Finished
<1>5. Refused'
  BY <1>1, <1>2, <1>3 DEF IInv, Refused, ChallengeFacts, Finished, Seconds
<1> QED
  BY <1>1, <1>2, <1>3, <1>4, <1>5 DEF IInv, Admitted, Answered, Finished

\* An attempt at the upstream.
LEMMA UpstreamRequestFilterStep ==
    ASSUME IInv, UpstreamRequestFilter
    PROVE  IInv'
<1>1. /\ pc = "upstream_peer" /\ pc' = "inner_upstream_request_filter"
      /\ UNCHANGED <<request, binding, answer, ctx, response, client, counters>>
      /\ upstream' = [upstream EXCEPT !.attempts = @ + 1,
                                      !.credentials = @ \cup {~ctx.strip}]
      /\ upstream.attempts < MaxAttempts
  BY DEF UpstreamRequestFilter
<1>2. /\ Decided /\ Decided' /\ Undecided' /\ Validating' /\ Verdict'
      /\ Permitted' = Permitted
  BY <1>1, Settled
<1>3. Permitted /\ client.kind = "none"
  BY <1>1, <1>2 DEF IInv, Refused, Answered, Finished
<1>4. upstream' \in UpstreamType
  <2>1. /\ upstream.attempts \in 0 .. MaxAttempts
        /\ upstream.interims \in 0 .. MaxInterim
        /\ upstream.credentials \in SUBSET BOOLEAN
    BY DEF IInv, Shape, UpstreamType
  <2>2. upstream.attempts + 1 \in 0 .. MaxAttempts
    BY <1>1, <2>1, ConstantsAssumption
  <2>3. upstream.credentials \cup {~ctx.strip} \in SUBSET BOOLEAN
    BY <2>1
  <2>4. upstream' = [attempts |-> upstream.attempts + 1,
                     interims |-> upstream.interims,
                     credentials |-> upstream.credentials \cup {~ctx.strip}]
    BY <1>1 DEF IInv, Shape, UpstreamType
  <2> QED BY <2>1, <2>2, <2>3, <2>4 DEF UpstreamType
<1>5. Shape'
  BY <1>1, <1>4 DEF IInv, Shape, AllPoints, InnerPoints
<1>6. upstream'.credentials = upstream.credentials \cup {~ctx.strip}
  BY <1>1 DEF IInv, Shape, UpstreamType
<1>7. Admitted'
  BY <1>1, <1>2, <1>3, <1>6 DEF IInv, Admitted, InnerPoints
<1> QED
  BY <1>1, <1>2, <1>3, <1>5, <1>7 DEF IInv, Refused, Answered

\* A header from the upstream.
LEMMA UpstreamRespondsStep ==
    ASSUME IInv, UpstreamResponds
    PROVE  IInv'
<1>1. /\ pc = "exchange" /\ pc' = "inner_response_filter"
      /\ UNCHANGED <<request, binding, answer, ctx, client, counters>>
      /\ \E kind \in {"interim", "final", "upgrade"} :
            response' = [NoResponse EXCEPT !.kind = kind]
      /\ \/ upstream' = upstream
         \/ /\ upstream.interims < MaxInterim
            /\ upstream' = [upstream EXCEPT !.interims = @ + 1]
  BY DEF UpstreamResponds
<1>2. /\ Decided /\ Decided' /\ Undecided' /\ Validating' /\ Verdict'
      /\ Permitted' = Permitted
  BY <1>1, Settled
<1>3. Permitted /\ client.kind = "none"
  BY <1>1, <1>2 DEF IInv, Refused, Answered, Finished
<1>4. /\ response' \in ResponseType /\ ~response'.nonce
      /\ response'.kind \in {"interim", "final", "upgrade"}
  BY <1>1 DEF NoResponse, ResponseType
<1>5. upstream' \in UpstreamType /\ upstream'.credentials = upstream.credentials
  <2>1. /\ upstream.attempts \in 0 .. MaxAttempts
        /\ upstream.interims \in 0 .. MaxInterim
        /\ upstream.credentials \in SUBSET BOOLEAN
    BY DEF IInv, Shape, UpstreamType
  <2>2. CASE upstream' = upstream
    BY <2>2 DEF IInv, Shape
  <2>3. CASE /\ upstream.interims < MaxInterim
             /\ upstream' = [upstream EXCEPT !.interims = @ + 1]
    <3>1. upstream.interims + 1 \in 0 .. MaxInterim
      BY <2>1, <2>3, ConstantsAssumption
    <3>2. upstream' = [attempts |-> upstream.attempts,
                       interims |-> upstream.interims + 1,
                       credentials |-> upstream.credentials]
      BY <2>3 DEF IInv, Shape, UpstreamType
    <3> QED BY <2>1, <3>1, <3>2 DEF UpstreamType
  <2> QED BY <1>1, <2>2, <2>3
<1>6. Shape'
  BY <1>1, <1>4, <1>5 DEF IInv, Shape, AllPoints, InnerPoints
<1>7. Admitted'
  BY <1>1, <1>2, <1>3, <1>4, <1>5 DEF IInv, Admitted, InnerPoints
<1> QED
  BY <1>1, <1>2, <1>3, <1>6, <1>7 DEF IInv, Refused, Answered

\* response_filter puts the nonce on the last header and only there.
LEMMA ResponseFilterStep ==
    ASSUME IInv, ResponseFilter
    PROVE  IInv'
<1>1. /\ pc = "inner_response_filter"
      /\ pc' \in {"failed", "exchange", "done"}
      /\ UNCHANGED <<request, binding, answer, upstream, counters>>
  BY DEF ResponseFilter
<1>2. /\ Decided /\ Decided' /\ Undecided' /\ Validating' /\ Verdict'
      /\ Permitted' = Permitted
  BY <1>1, Settled
<1>3. /\ Permitted /\ client.kind = "none"
      /\ response.kind \in {"interim", "final", "upgrade"}
      /\ ctx.nonce = answer.nonce /\ ctx.nonce \in Nonces
      /\ client \in ResponseType /\ response \in ResponseType /\ ctx \in CtxType
  BY <1>1, <1>2 DEF IInv, Shape, Refused, Admitted, Answered, InnerPoints,
     Finished, CtxType
<1>4. Interim <=> response.kind = "interim"
  BY <1>3 DEF Interim, Informational
<1>5. /\ ctx' \in CtxType /\ ctx'.token = ctx.token /\ ctx'.strip = ctx.strip
      /\ Interim => ctx' = ctx
  BY <1>3 DEF ResponseFilter, CtxType, Nonces
<1>6. CASE pc' = "failed"
  <2>1. UNCHANGED <<response, client>>
    BY <1>6 DEF ResponseFilter
  <2>2. Shape'
    BY <1>1, <1>5, <1>6, <2>1 DEF IInv, Shape, AllPoints
  <2>3. Admitted'
    BY <1>1, <1>2, <1>3, <1>5, <1>6, <2>1 DEF IInv, Admitted, InnerPoints,
       Finished
  <2> QED
    BY <1>2, <1>3, <2>1, <2>2, <2>3 DEF IInv, Refused, Answered
<1>7. CASE pc' # "failed"
  <2>1. /\ Interim \/ ctx.nonce # "unprintable"
        /\ response' = [response EXCEPT !.nonce =
                          ~Interim /\ ctx.nonce = "valid"]
        /\ IF Interim THEN pc' = "exchange" /\ client' = client
           ELSE pc' = "done" /\ client' = response'
    BY <1>4, <1>7 DEF ResponseFilter
  <2>2. /\ response' \in ResponseType /\ response'.kind = response.kind
        /\ response'.nonce = (~Interim /\ ctx.nonce = "valid")
    BY <1>3, <2>1 DEF ResponseType
  <2>3. ~Interim => response'.nonce = (answer.nonce # "none")
    BY <1>3, <2>1, <2>2 DEF Nonces
  <2>4. Shape'
    BY <1>1, <1>3, <1>5, <2>1, <2>2 DEF IInv, Shape, AllPoints, InnerPoints,
       Finished
  <2>5. Admitted'
    BY <1>1, <1>2, <1>3, <1>4, <1>5, <2>1, <2>2, <2>3
       DEF IInv, Admitted, InnerPoints, Finished
  <2> QED
    BY <1>2, <1>3, <2>1, <2>4, <2>5 DEF IInv, Refused, Answered, Finished
<1> QED BY <1>6, <1>7

\* The error page, and the end of the task.
LEMMA EndStep ==
    ASSUME IInv, FailToProxy \/ Abort
    PROVE  IInv'
<1>1. CASE FailToProxy
  <2>1. /\ pc = "failed" /\ pc' = "done"
        /\ UNCHANGED <<request, binding, answer, ctx, response, upstream,
                       counters>>
        /\ \/ client' = client
           \/ client' = [NoResponse EXCEPT !.kind = "error"]
    BY <1>1 DEF FailToProxy
  <2>2. /\ Decided /\ Decided' /\ Undecided' /\ Validating' /\ Verdict'
        /\ Permitted' = Permitted
    BY <2>1, Settled
  <2>3. [NoResponse EXCEPT !.kind = "error"] \in ResponseType
    BY DEF NoResponse, ResponseType
  <2>4. Shape'
    BY <2>1, <2>3 DEF IInv, Shape, AllPoints, Finished
  <2>5. Refused' /\ Admitted'
    BY <2>1, <2>2 DEF IInv, Refused, Admitted, ChallengeFacts, InnerPoints,
       Finished, NoResponse, Seconds
  <2> QED BY <2>1, <2>2, <2>4, <2>5 DEF IInv, Answered, Finished
<1>2. CASE Abort
  <2>1. /\ pc # "request_filter" /\ pc' = "aborted"
        /\ UNCHANGED <<request, binding, answer, ctx, response, upstream,
                       client, counters>>
    BY <1>2 DEF Abort
  <2>2. Permitted' = Permitted /\ InReach' = InReach /\ Decided' = Decided
    BY <2>1, Frame DEF Decided
  <2>3. Shape' /\ Undecided' /\ Validating' /\ Verdict'
    BY <2>1, <2>2 DEF IInv, Shape, AllPoints, Finished, Undecided, Validating,
       Verdict
  <2>4. Refused' /\ Admitted' /\ Answered'
    BY <2>1, <2>2 DEF IInv, Refused, Admitted, Answered, ChallengeFacts,
       InnerPoints, Finished, Seconds
  <2> QED BY <2>3, <2>4 DEF IInv
<1> QED BY <1>1, <1>2

LEMMA StutterStep ==
    ASSUME IInv, UNCHANGED vars
    PROVE  IInv'
<1>1. Permitted' = Permitted /\ InReach' = InReach /\ Decided' = Decided
  BY Frame DEF vars, Decided
<1>2. Shape' /\ Undecided' /\ Validating' /\ Verdict'
  BY <1>1 DEF vars, IInv, Shape, Undecided, Validating, Verdict
<1>3. Refused' /\ Admitted' /\ Answered'
  BY <1>1 DEF vars, IInv, Refused, Admitted, Answered, ChallengeFacts
<1> QED BY <1>2, <1>3 DEF IInv

-----------------------------------------------------------------------------
(* The theorems.                                                            *)

\* The invariant is inductive: one step for each of the actions.
THEOREM Invariance == Spec => []IInv
<1>1. Init => IInv
  BY InitIInv
<1>2. IInv /\ [Next]_vars => IInv'
  <2> SUFFICES ASSUME IInv, [Next]_vars PROVE IInv'
    OBVIOUS
  <2>1. CASE DenyRoute \/ AdmitPublic \/ RejectUri \/ ValidatorAnswers
    BY <2>1, DenyRouteStep, AdmitPublicStep, RejectUriStep, ValidatorAnswersStep
  <2>2. CASE RejectOutside \/ CallValidator
    BY <2>2, RejectOutsideStep, CallValidatorStep
  <2>3. CASE InnerRequestFilter \/ InnerUpstreamRequestFilter \/ NoPeer
               \/ UpstreamFails \/ ResponseFails
    BY <2>3, InnerHookStep
  <2>4. CASE WriteHeader \/ WriteBody
    BY <2>4, WriteStep
  <2>5. CASE UpstreamRequestFilter \/ UpstreamResponds \/ ResponseFilter
    BY <2>5, UpstreamRequestFilterStep, UpstreamRespondsStep, ResponseFilterStep
  <2>6. CASE FailToProxy \/ Abort
    BY <2>6, EndStep
  <2>7. CASE Ended \/ UNCHANGED vars
    BY <2>7, StutterStep DEF Ended
  <2> QED BY <2>1, <2>2, <2>3, <2>4, <2>5, <2>6, <2>7 DEF Next
<1> QED BY <1>1, <1>2, PTL DEF Spec

\* Lists of at most one element.
LEMMA Singletons ==
    ASSUME NEW S
    PROVE  \A q \in Samples(S) :
              q \in Seq(S) /\ Len(q) <= 1 /\ (q # <<>> => Len(q) = 1)
<1>1. <<>> \in Seq(S) /\ Len(<<>>) = 0 /\ Len(<<>>) <= 1
  BY EmptySeq
<1>2. \A x \in S : <<x>> \in Seq(S) /\ Len(<<x>>) = 1 /\ Len(<<x>>) <= 1
  OBVIOUS
<1> QED BY <1>1, <1>2, Zenon DEF Samples

\* Type correctness.
THEOREM TypeCorrect == Spec => []TypeOK
<1>1. IInv => TypeOK
  <2> SUFFICES ASSUME IInv PROVE TypeOK
    OBVIOUS
  <2>1. /\ counters.check \in Seq(Categories)
        /\ counters.authorization \in Seq(Categories \cup {"outside_resource"})
    <3>1. /\ counters.check \in Samples(Categories)
          /\ counters.authorization
               \in Samples(Categories \cup {"outside_resource"})
      BY DEF IInv, Shape, CountersType
    <3> QED BY <3>1, Singletons
  <2> QED
    BY <2>1 DEF TypeOK, IInv, Shape, AllPoints, AnswerType, CtxType, UpstreamType
<1> QED BY <1>1, Invariance, PTL

\* Inner proxy, upstream and what they answer are reached only by a request
\* that binding, route, rule and token permit.
THEOREM OnlyPermittedPass == Spec => []OnlyPermittedReachInner
<1>1. IInv => OnlyPermittedReachInner
  <2>1. IInv => TokenOnlyIfAccepted
    BY DEF IInv, Undecided, Refused, Admitted, TokenOnlyIfAccepted,
       InnerPoints, Finished
  <2> QED
    BY <2>1 DEF IInv, Undecided, Refused, OnlyPermittedReachInner,
       InnerPoints, Finished, NoResponse, Untouched
<1> QED BY <1>1, Invariance, PTL

\* A permitted request is never answered with a rejection.
THEOREM OnlyRefusedAreRejected == Spec => []OnlyRefusedAreChallenged
<1>1. IInv => OnlyRefusedAreChallenged
  BY DEF IInv, Undecided, Admitted, OnlyRefusedAreChallenged, InnerPoints,
     Finished, NoResponse
<1> QED BY <1>1, Invariance, PTL

\* Retries and the context's initial value do not change which credentials an
\* attempt carries.
THEOREM CredentialsAsRuled == Spec => []CredentialsFollowRule
<1>1. IInv => CredentialsFollowRule
  BY DEF IInv, Undecided, Refused, Admitted, CredentialsFollowRule, Untouched
<1> QED BY <1>1, Invariance, PTL

\* The nonce is on the header that ends the request, and on no other.
THEOREM NonceIsDelivered == Spec => []NonceOnTerminalResponse
<1>1. IInv => NonceOnTerminalResponse
  BY DEF IInv, Undecided, Refused, Admitted, ChallengeFacts, InnerPoints,
     Finished, NoResponse, NonceOnTerminalResponse
<1> QED BY <1>1, Invariance, PTL

\* Both counters have one sample for a decision, which names it.
THEOREM DecisionsAreCounted == Spec => []OneSamplePerDecision
<1>1. IInv => OneSamplePerDecision
  <2> SUFFICES ASSUME IInv PROVE OneSamplePerDecision
    OBVIOUS
  <2>1. /\ Len(counters.authorization) <= 1
        /\ Decided => Len(counters.authorization) = 1
    <3>1. counters.authorization \in Samples(Categories \cup {"outside_resource"})
      BY DEF IInv, Shape, CountersType
    <3> QED BY <3>1, Singletons DEF Decided
  <2> QED
    BY <2>1 DEF IInv, Undecided, Verdict, Decided, OneSamplePerDecision,
               ServerFaultsCountedAsSuch
<1> QED BY <1>1, Invariance, PTL

\* Rounding up to whole seconds covers the duration, unless it saturates.
LEMMA SecondsCover ==
    ASSUME NEW d \in Cooldowns
    PROVE  /\ Seconds(d) * NanosPerSecond < Nanos(d) + NanosPerSecond
           /\ \/ Seconds(d) * NanosPerSecond >= Nanos(d)
              \/ Seconds(d) = MaxSeconds
           /\ Seconds(d) = 0 => Nanos(d) = 0
<1>1. /\ d.secs \in Nat /\ d.nanos \in Nat /\ d.secs <= MaxSeconds
      /\ d.nanos < NanosPerSecond
      /\ NanosPerSecond \in Nat /\ NanosPerSecond > 0
      /\ MaxSeconds \in Nat /\ MaxSeconds > 0
  BY ConstantsAssumption DEF Cooldowns
<1>2. d.secs * NanosPerSecond \in Nat
  BY <1>1
<1>3. CASE d.nanos > 0 /\ d.secs < MaxSeconds
  <2>1. (d.secs + 1) * NanosPerSecond = d.secs * NanosPerSecond + NanosPerSecond
    BY <1>1
  <2> QED BY <1>1, <1>2, <1>3, <2>1 DEF Seconds, Nanos
<1>4. CASE ~(d.nanos > 0 /\ d.secs < MaxSeconds)
  <2>1. Seconds(d) = d.secs /\ (d.nanos = 0 \/ d.secs = MaxSeconds)
    BY <1>1, <1>4 DEF Seconds
  <2>2. d.secs = 0 => d.secs * NanosPerSecond = 0
    BY <1>1
  <2>3. Nanos(d) = d.secs * NanosPerSecond + d.nanos
    BY DEF Nanos
  <2>4. d.secs = 0 => d.nanos = 0
    BY <1>1, <2>1
  <2> DEFINE whole == d.secs * NanosPerSecond
  <2> HIDE DEF whole
  <2>5. whole < whole + d.nanos + NanosPerSecond
        /\ (whole >= whole + d.nanos \/ d.secs = MaxSeconds)
    BY <1>1, <1>2, <2>1 DEF whole
  <2> QED BY <1>1, <1>2, <2>1, <2>2, <2>3, <2>4, <2>5 DEF whole
<1> QED BY <1>3, <1>4

\* Whoever waits as long as Retry-After says does not come back too early.
THEOREM RetryAfterSuffices == Spec => []RetryAfterCoversCooldown
<1>1. IInv => RetryAfterCoversCooldown
  <2> SUFFICES ASSUME IInv, client.kind = "challenge",
                      answer.cooldown # NoCooldown
               PROVE  LET wait == client.retry_after * NanosPerSecond
                          due == Nanos(answer.cooldown) IN
                      /\ wait < due + NanosPerSecond
                      /\ wait >= due \/ client.retry_after = MaxSeconds
                      /\ client.retry_after = 0 => due = 0
    BY DEF RetryAfterCoversCooldown, IInv, Undecided, Refused, Admitted,
       ChallengeFacts, NoResponse
  <2>1. client.retry_after = Seconds(answer.cooldown)
    BY DEF IInv, Undecided, Refused, Admitted, ChallengeFacts, NoResponse
  <2>2. answer.cooldown \in Cooldowns
    BY DEF IInv, Shape, AnswerType
  <2> QED BY <2>1, <2>2, SecondsCover
<1> QED BY <1>1, Invariance, PTL

\* No step sends a second header after the one that answered the request.
THEOREM AnswerIsFinal == Spec => AnsweredOnce
<1>1. IInv /\ [Next]_vars => [client.kind # "none" => client' = client]_vars
  <2> SUFFICES ASSUME IInv, Next, client.kind # "none" PROVE client' = client
    BY DEF vars
  <2>1. pc \in {"write_body", "failed", "done", "aborted"}
    BY DEF IInv, Answered, Finished
  <2>2. ~(RejectOutside \/ DenyRoute \/ AdmitPublic \/ RejectUri
            \/ CallValidator)
    BY <2>1 DEF RejectOutside, DenyRoute, AdmitPublic, RejectUri,
       CallValidator, ReachesGuard
  <2>3. ~(ValidatorAnswers \/ InnerRequestFilter \/ WriteHeader
            \/ UpstreamRequestFilter \/ ResponseFilter)
    BY <2>1 DEF ValidatorAnswers, InnerRequestFilter, WriteHeader,
       UpstreamRequestFilter, ResponseFilter
  <2> QED
    BY <2>2, <2>3 DEF Next, WriteBody, NoPeer, InnerUpstreamRequestFilter,
       UpstreamFails, UpstreamResponds, ResponseFails, FailToProxy, Abort,
       Ended, vars
<1> QED BY <1>1, Invariance, PTL DEF Spec, AnsweredOnce

\* What was decided stands for every later hook.
THEOREM DecisionsStand == Spec => DecisionStands
<1> DEFINE Stands ==
      /\ counters' = counters /\ answer' = answer
      /\ ctx'.token = ctx.token /\ ctx'.strip = ctx.strip
      /\ ctx'.nonce # ctx.nonce => pc' \in {"done", "failed"}
<1>1. IInv /\ [Next]_vars => [counters.authorization # <<>> => Stands]_vars
  <2> SUFFICES ASSUME IInv, Next, Decided PROVE Stands
    BY DEF vars, Decided
  <2>1. pc \notin {"request_filter", "validate"} /\ ctx \in CtxType
    BY DEF IInv, Verdict, Shape
  <2>2. ~(RejectOutside \/ DenyRoute \/ AdmitPublic \/ RejectUri
            \/ CallValidator \/ ValidatorAnswers)
    BY <2>1 DEF RejectOutside, DenyRoute, AdmitPublic, RejectUri,
       CallValidator, ReachesGuard, ValidatorAnswers
  <2>3. CASE ResponseFilter
    <3>1. pc = "inner_response_filter"
            /\ UNCHANGED <<answer, counters>>
      BY <2>3 DEF ResponseFilter
    <3>2. response.kind \in {"interim", "final", "upgrade"}
      BY <3>1 DEF IInv, Refused, Admitted, Finished
    <3>3. ctx'.token = ctx.token /\ ctx'.strip = ctx.strip
            /\ (ctx' = ctx \/ ~Interim)
      BY <2>1, <2>3 DEF ResponseFilter, CtxType
    <3>4. ~Interim => pc' \in {"failed", "done"}
      BY <2>3, <3>2 DEF ResponseFilter, Interim, Informational
    <3> QED BY <3>1, <3>3, <3>4
  <2> QED
    BY <2>2, <2>3 DEF Next, InnerRequestFilter, WriteHeader, WriteBody,
       UpstreamRequestFilter, NoPeer, InnerUpstreamRequestFilter,
       UpstreamFails, UpstreamResponds, ResponseFails, FailToProxy, Abort,
       Ended, vars
<1> QED BY <1>1, Invariance, PTL DEF Spec, DecisionStands
=============================================================================
