-------------------------- MODULE GuardExchangeProofs --------------------------
(***************************************************************************)
(* Proofs about GuardExchange.  The inductive invariant says of the last   *)
(* refusal what it would tell the client to do about it, and of every      *)
(* earlier one that the client has done it.                                *)
(***************************************************************************)
EXTENDS GuardExchangeInvariants, TLAPS

Categories ==
    {"outside_resource", "invalid_input", "policy_denied", "internal",
     "invalid_request", "server_error", "use_dpop_nonce", "expired", "demands",
     "unauthenticated", "audience", "insufficient_scope", "forbidden",
     "invalidated"}

\* What the proofs use of a rule that the builder made.
BuiltRule(rule) ==
    /\ rule.token \in TokenRequirements
    /\ rule.audiences \subseteq Audiences
    /\ rule.scopes \subseteq Scopes
    /\ rule.scope_param = IF rule.scopes = {} THEN NoScope ELSE rule.scopes

ExchangeType ==
    /\ BuiltRule(route.rule)
    /\ route.resolves \in {"rule", "invalid_input", "policy_denied", "internal"}
    /\ config.binding \in Bindings
    /\ config.dpop \in BOOLEAN
    /\ config.demands \in SUBSET Scopes
    /\ client \in [token : {NoToken} \cup Tokens, aud : SUBSET Audiences,
                   nonce : BOOLEAN, method : RequestMethods]
    /\ pc \in {"client", "proxy", "answered", "forwarded", "gave_up"}
    /\ response.nonce \in BOOLEAN
    /\ refusals \in Seq(Categories)
    /\ Refused =>
         refusals # <<>> /\ \A c \in response.challenges : c.scope \in ScopeParams

\* The authorization server puts one audience into all tokens of the client.
OneAudience == client.token # NoToken => client.token.aud = client.aud

\* The test of a category can no longer fail.
Cured(category) ==
    \/ category = "use_dpop_nonce" /\ client.nonce
    \/ category = "unauthenticated" /\ client.token # NoToken
    \/ category = "demands" /\ config.demands \subseteq HeldScopes
    \/ category = "insufficient_scope" /\ route.rule.scopes \subseteq HeldScopes
    \/ category \in {"expired", "server_error"}

\* Whatever the client does with an answer, a request that it sends next is not
\* refused for this category again.
Names(answer, scopes) ==
    /\ answer.status # 503
    /\ \A c \in answer.challenges :
         c.code # "use_dpop_nonce" /\ scopes \subseteq Sought(c)

Cures(answer, category) ==
    \/ category = "use_dpop_nonce" /\ answer.nonce
    \/ category = "unauthenticated" /\ Names(answer, {})
    \/ category = "demands" /\ Names(answer, config.demands)
    \/ category = "insufficient_scope" /\ Names(answer, route.rule.scopes)
    \/ category \in {"expired", "server_error"}

LessonsLearnt ==
    Admissible =>
      /\ pc \in {"client", "proxy"} =>
           \A i \in DOMAIN refusals : Cured(refusals[i])
      /\ Refused =>
           /\ \A i \in 1 .. Len(refusals) - 1 : Cured(refusals[i])
           /\ Cures(response, Latest)

IInv ==
    /\ ExchangeType /\ OneAudience
    /\ RefusalsTellNoMore /\ AnswersAgree
    /\ LessonsLearnt /\ NoFutileRetry
-----------------------------------------------------------------------------
(* What the guard builds for each category.                                 *)

Faults == {"server_error", "internal"}

Untrusted ==
    {"outside_resource", "invalid_input", "invalid_request", "policy_denied",
     "internal"}

\* A denial says of its category what the properties ask of a refusal.
Sound(category, deny) ==
    /\ deny.nonce \in BOOLEAN
    /\ \A c \in deny.challenges : c.scope \in ScopeParams
    /\ category \in Faults => deny.details = NoDetails /\ deny.challenges = {}
    /\ deny.status >= 500 <=> category \in Faults
    /\ deny.retry_after => category = "server_error"
    /\ category \in Untrusted =>
         /\ deny.details.scopes = NoScope
         /\ \A c \in deny.challenges : c.scope = NoScope
    /\ \A c \in deny.challenges :
         /\ c.code = deny.details.code
         /\ deny.details.code # "none" => c.scope = deny.details.scopes
    /\ deny.status = 401 => deny.challenges # {}

\* The denial of an error that the client has caused.
ClientDenial(code, described, own, scope, nonce) ==
    DenyError(Challenge("client", code, described, own), scope, nonce, FALSE)

\* Whatever calls of the builder make a rule, its hint names the scopes of all.
LEMMA RulesAreBuilt ==
  ASSUME NEW rule \in PolicyRules
  PROVE  BuiltRule(rule)
<1>1. CASE rule = WithRequirement("none")
  BY <1>1 DEF WithRequirement, BuiltRule, TokenRequirements
<1>2. ASSUME NEW token \in {"optional", "required"},
             NEW audiences \in SUBSET Audiences,
             NEW first \in SUBSET Scopes, NEW then \in SUBSET Scopes,
             NEW f \in {NoCheck, "forbids", "invalidates"},
             rule = WithCheck(WithScopes(WithScopes(WithAudiences(
                      WithRequirement(token), audiences), first), then), f)
      PROVE  BuiltRule(rule)
  <2>1. /\ rule.token = token
        /\ rule.audiences = {} \cup audiences
        /\ rule.scopes = ({} \cup first) \cup then
        /\ rule.scope_param =
             IF rule.scopes = {} THEN NoScope ELSE rule.scopes
    BY <1>2 DEF WithCheck, WithScopes, WithAudiences, WithRequirement
  <2> QED  BY <2>1 DEF BuiltRule, TokenRequirements
<1> QED  BY <1>1, <1>2 DEF PolicyRules

\* Its fields: one challenge, which says what the details say.
HasFields(deny, code, described, scope, nonce) ==
    /\ deny.nonce = nonce
    /\ deny.retry_after = FALSE
    /\ deny.status \in {400, 401, 403}
    /\ deny.challenges # {}
    /\ \A c \in deny.challenges : c.code = code /\ c.scope = scope
    /\ deny.details = [code |-> code, described |-> described, scopes |-> scope]

LEMMA ClientDenialFields ==
  ASSUME NEW code \in {"invalid_request", "invalid_token",
                       "insufficient_scope", "use_dpop_nonce"},
         NEW described, NEW own, NEW scope, NEW nonce
  PROVE  HasFields(ClientDenial(code, described, own, scope, nonce),
                   code, described, Or(own, scope), nonce)
<1> DEFINE deny == ClientDenial(code, described, own, scope, nonce)
<1>1. /\ deny.nonce = nonce /\ deny.retry_after = FALSE
      /\ deny.challenges = {HeaderValue(code, Or(own, scope))}
      /\ deny.details = [code |-> code, described |-> described,
                         scopes |-> Or(own, scope)]
      /\ deny.status = RejectionStatus[code]
  BY DEF ClientDenial, DenyError, Challenge, FromChallenge
<1>2. RejectionStatus[code] \in {400, 401, 403}
  <2>1. /\ RejectionStatus.invalid_request = 400
        /\ RejectionStatus.invalid_token = 401
        /\ RejectionStatus.use_dpop_nonce = 401
        /\ RejectionStatus.insufficient_scope = 403
    BY DEF RejectionStatus
  <2> QED  BY <2>1
<1>3. /\ HeaderValue(code, Or(own, scope)).code = code
      /\ HeaderValue(code, Or(own, scope)).scope = Or(own, scope)
  BY DEF HeaderValue
<1>4. /\ deny.challenges # {}
      /\ \A c \in deny.challenges : c.code = code /\ c.scope = Or(own, scope)
  <2> HIDE DEF deny
  <2> QED  BY <1>1, <1>3
<1> QED  BY <1>1, <1>2, <1>4 DEF HasFields

LEMMA ClientDenialsAreSound ==
  ASSUME NEW category, category \notin Faults, category \notin Untrusted,
         NEW code \in {"invalid_request", "invalid_token",
                       "insufficient_scope", "use_dpop_nonce"},
         NEW described, NEW own \in ScopeParams, NEW scope \in ScopeParams,
         NEW nonce \in BOOLEAN
  PROVE  Sound(category, ClientDenial(code, described, own, scope, nonce))
<1> DEFINE deny == ClientDenial(code, described, own, scope, nonce)
<1>1. HasFields(deny, code, described, Or(own, scope), nonce)
  BY ClientDenialFields
<1>2. Or(own, scope) \in ScopeParams
  BY DEF Or
<1>3. Sound(category, deny)
  <2> HIDE DEF deny
  <2> QED  BY <1>1, <1>2 DEF HasFields, Sound
<1> QED  BY <1>3

\* The answers that are given before a token is looked at.
LEMMA EarlyDenialsAreSound ==
  /\ Sound("outside_resource", OutsideResource)
  /\ \A kind \in {"invalid_input", "policy_denied", "internal"} :
       Sound(kind, RouteDenial(kind))
  /\ Sound("invalid_request", BadRequest)
<1>1. /\ BadRequest.challenges = {HeaderValue("invalid_request", NoScope)}
      /\ BadRequest.details = [code |-> "invalid_request", described |-> TRUE,
                               scopes |-> NoScope]
      /\ BadRequest.status = 400 /\ BadRequest.nonce \in BOOLEAN
      /\ BadRequest.retry_after = FALSE
  BY DEF BadRequest, Deny, FromChallenge, InvalidRequest, ClientError,
         Challenge, Or
<1>2. \A c \in BadRequest.challenges :
        c.code = "invalid_request" /\ c.scope = NoScope
  BY <1>1 DEF HeaderValue
<1>3. ASSUME NEW category \in {"invalid_input", "invalid_request"}
      PROVE  Sound(category, BadRequest)
  <2>1. category \notin Faults
    BY DEF Faults
  <2> QED  BY <1>1, <1>2, <2>1 DEF Sound, ScopeParams
<1>4. ASSUME NEW category \in {"policy_denied", "outside_resource"},
             NEW status \in {400, 403}, NEW details, details.scopes = NoScope
      PROVE  Sound(category, Deny(status, {}, details))
  <2> DEFINE deny == Deny(status, {}, details)
  <2>1. category \notin Faults
    BY DEF Faults
  <2>2. /\ deny.status = status /\ deny.challenges = {}
        /\ deny.nonce \in BOOLEAN
        /\ deny.retry_after = FALSE /\ deny.details.scopes = NoScope
    BY <1>4 DEF Deny
  <2>3. Sound(category, deny)
    <3> HIDE DEF deny
    <3> QED  BY <2>1, <2>2 DEF Sound
  <2> QED  BY <2>3
<1>5. Sound("policy_denied", RouteDenial("policy_denied"))
  BY <1>4 DEF RouteDenial, ResolveErrorStatus, NoDetails
<1>6. Sound("outside_resource", OutsideResource)
  <2> DEFINE details == [NoDetails EXCEPT !.described = TRUE]
  <2>1. details.scopes = NoScope
    BY DEF NoDetails
  <2>2. /\ Sound("outside_resource", Deny(403, {}, details))
        /\ Sound("outside_resource", Deny(400, {}, details))
    <3> HIDE DEF details
    <3> QED  BY <1>4, <2>1
  <2> QED  BY <2>2 DEF OutsideResource
<1>7. Sound("internal", RouteDenial("internal"))
  <2>1. RouteDenial("internal") = Deny(500, {}, NoDetails)
    BY DEF RouteDenial, ResolveErrorStatus
  <2>2. /\ Deny(500, {}, NoDetails).status = 500
        /\ Deny(500, {}, NoDetails).challenges = {}
        /\ Deny(500, {}, NoDetails).details = NoDetails
        /\ Deny(500, {}, NoDetails).nonce \in BOOLEAN
        /\ Deny(500, {}, NoDetails).retry_after = FALSE
        /\ NoDetails.scopes = NoScope
    BY DEF Deny, NoDetails
  <2> QED  BY <2>1, <2>2 DEF Sound, Faults
<1> QED  BY <1>3, <1>5, <1>6, <1>7 DEF RouteDenial

LEMMA ServerDenialsAreSound ==
  ASSUME NEW scope, NEW nonce \in BOOLEAN, NEW retry \in BOOLEAN
  PROVE  Sound("server_error",
               DenyError(Challenge("server", "none", TRUE, NoScope), scope,
                         nonce, retry))
BY DEF DenyError, Challenge, FromChallenge, NoDetails, Sound, Faults, Untrusted

LEMMA UnauthenticatedIsSound ==
  ASSUME NEW scope \in ScopeParams, NEW nonce \in BOOLEAN
  PROVE  Sound("unauthenticated", Unauthenticated(scope, nonce))
<1> DEFINE deny == Unauthenticated(scope, nonce)
<1>1. /\ deny.status = 401 /\ deny.nonce = nonce /\ deny.retry_after = FALSE
      /\ deny.challenges = {HeaderValue("none", scope)}
      /\ deny.details.code = "none"
  BY DEF Unauthenticated, Deny, NoDetails
<1>2. /\ HeaderValue("none", scope).code = "none"
      /\ HeaderValue("none", scope).scope = scope
  BY DEF HeaderValue
<1>3. Sound("unauthenticated", deny)
  <2> HIDE DEF deny
  <2> QED  BY <1>1, <1>2 DEF Sound, Faults, Untrusted
<1> QED  BY <1>3

-----------------------------------------------------------------------------
(* Steps.                                                                   *)

LEMMA InitIsTyped ==
  Init => IInv
<1> SUFFICES ASSUME Init PROVE IInv
  OBVIOUS
<1>1. route.rule \in PolicyRules /\
      route.resolves \in {"rule", "invalid_input", "policy_denied", "internal"}
  BY DEF Init, Routes
<1>2. ExchangeType
  <2>1. BuiltRule(route.rule)
    BY <1>1, RulesAreBuilt
  <2>2. /\ config.binding \in Bindings /\ config.dpop \in BOOLEAN
        /\ config.demands \in SUBSET Scopes
    BY ExchangeAssumption DEF Init, Configs
  <2>3. client \in [token : {NoToken} \cup Tokens, aud : SUBSET Audiences,
                    nonce : BOOLEAN, method : RequestMethods]
    BY DEF Init
  <2>4. pc = "client" /\ response.nonce \in BOOLEAN /\ refusals = <<>>
    BY DEF Init, NoResponse
  <2> QED  BY <1>1, <2>1, <2>2, <2>3, <2>4 DEF ExchangeType, Refused
<1>3. OneAudience
  BY DEF Init, OneAudience
<1>4. ~Refused /\ response = NoResponse /\ DOMAIN refusals = {}
  BY DEF Init, Refused
<1> QED  BY <1>2, <1>3, <1>4
         DEF IInv, RefusalsTellNoMore, ServerFaultsTellNothing,
             UntrustedRuleStaysHidden, AnswersAgree, BodyAgreesWithHeader,
             UnauthorizedIsChallenged, FramingAgrees, LessonsLearnt,
             NoFutileRetry

\* The hint of the rule, and the scopes that the validator asks for.
LEMMA HintsAreTyped ==
  IInv => /\ ScopeParam \in ScopeParams
          /\ NoScope \in ScopeParams
          /\ config.demands \in ScopeParams
BY DEF IInv, ExchangeType, BuiltRule, ScopeParam, ScopeParams

LEMMA StutterKeeps ==
  IInv /\ UNCHANGED vars => IInv'
BY DEF vars, IInv, ExchangeType, OneAudience, RefusalsTellNoMore,
       ServerFaultsTellNothing, UntrustedRuleStaysHidden, AnswersAgree,
       BodyAgreesWithHeader, UnauthorizedIsChallenged, FramingAgrees,
       LessonsLearnt, NoFutileRetry, Admissible, Bound, Refused, Latest, Cured,
       Cures, Names, HeldScopes, Sought, BuiltRule

\* Moving on without an answer teaches nothing and forgets nothing.
LEMMA ForwardKeeps ==
  ASSUME IInv, pc = "proxy", Forward
  PROVE  IInv'
BY DEF Forward, IInv, ExchangeType, OneAudience, RefusalsTellNoMore,
       ServerFaultsTellNothing, UntrustedRuleStaysHidden, AnswersAgree,
       BodyAgreesWithHeader, UnauthorizedIsChallenged, FramingAgrees,
       LessonsLearnt, NoFutileRetry, Admissible, Bound, Refused, Latest,
       BuiltRule

LEMMA SendKeeps ==
  ASSUME IInv, Send
  PROVE  IInv'
BY DEF Send, IInv, ExchangeType, OneAudience, RefusalsTellNoMore,
       ServerFaultsTellNothing, UntrustedRuleStaysHidden, AnswersAgree,
       BodyAgreesWithHeader, UnauthorizedIsChallenged, FramingAgrees,
       LessonsLearnt, NoFutileRetry, Admissible, Bound, Refused, Latest, Cured,
       HeldScopes, BuiltRule

LEMMA FetchMetadataKeeps ==
  ASSUME IInv, FetchMetadata
  PROVE  IInv'
<1>1. /\ pc = "client" /\ pc' = "client"
      /\ UNCHANGED <<route, config, client, told, page, refusals, faults>>
  BY DEF FetchMetadata
<1>2. response'.nonce \in BOOLEAN /\ FramingAgrees'
  <2>1. CASE /\ client.method \in {"GET", "HEAD"}
               /\ response' = MetadataResponse(client.method)
    <3>1. /\ response'.nonce = FALSE /\ response'.length = 1
          /\ response'.ended <=> client.method # "GET"
          /\ response'.sent = IF client.method = "GET" THEN 1 ELSE 0
          /\ response'.status = 200 /\ response'.challenges = {}
      BY <2>1 DEF MetadataResponse, NoResponse
    <3>2. response'.ended <=> response'.sent = 0
      BY <3>1
    <3>3. ~Refused'
      BY <1>1 DEF Refused
    <3> QED  BY <1>1, <2>1, <3>1, <3>2, <3>3 DEF FramingAgrees
  <2>2. CASE response' = MethodNotAllowed
    BY <1>1, <2>2 DEF MethodNotAllowed, NoResponse, FramingAgrees, Refused
  <2> QED  BY <2>1, <2>2, <1>1 DEF FetchMetadata
<1> QED  BY <1>1, <1>2
         DEF IInv, ExchangeType, OneAudience, RefusalsTellNoMore,
             ServerFaultsTellNothing, UntrustedRuleStaysHidden, AnswersAgree,
             BodyAgreesWithHeader, UnauthorizedIsChallenged, LessonsLearnt,
             NoFutileRetry, Admissible, Bound, Refused, Latest, Cured,
             HeldScopes, BuiltRule

\* A sound denial of a test that could still fail, and that tells how to cure it.
LEMMA RefuseKeeps ==
  ASSUME IInv, pc = "proxy",
         NEW category \in Categories, NEW deny, Sound(category, deny),
         Admissible =>
           /\ Cured(category) => category \in {"expired", "server_error"}
           /\ Cures(deny, category),
         Refuse(category, deny)
  PROVE  IInv'
<1>1. /\ told' = deny.details /\ page' \in Pages
      /\ response' = ChallengeResponse(deny, page', client.method)
      /\ refusals' = Append(refusals, category)
      /\ pc' = "answered"
      /\ UNCHANGED <<route, config, client>>
  BY DEF Refuse
<1>2. /\ response'.status = deny.status
      /\ response'.challenges = deny.challenges
      /\ response'.nonce = deny.nonce
      /\ response'.retry_after = deny.retry_after
  BY <1>1 DEF ChallengeResponse
<1>3. /\ refusals \in Seq(Categories) /\ refusals' \in Seq(Categories)
      /\ Len(refusals') = Len(refusals) + 1 /\ refusals' # <<>>
      /\ DOMAIN refusals' = DOMAIN refusals \cup {Len(refusals')}
      /\ DOMAIN refusals = 1 .. Len(refusals') - 1
      /\ \A i \in DOMAIN refusals : refusals'[i] = refusals[i]
      /\ Latest' = category
  BY <1>1 DEF IInv, ExchangeType, Latest
<1>4. ExchangeType'
  BY <1>1, <1>2, <1>3 DEF IInv, ExchangeType, Sound, BuiltRule, Refused
<1>5. OneAudience'
  BY <1>1 DEF IInv, OneAudience
<1>6. RefusalsTellNoMore'
  BY <1>1, <1>2, <1>3 DEF RefusalsTellNoMore, ServerFaultsTellNothing,
                          UntrustedRuleStaysHidden, Sound, Faults, Untrusted
<1>7. AnswersAgree'
  <2>1. (BodyAgreesWithHeader /\ UnauthorizedIsChallenged)'
    BY <1>1, <1>2 DEF BodyAgreesWithHeader, UnauthorizedIsChallenged, Sound
  <2>2. page' \in [length : 0 .. 1, typed : BOOLEAN]
    BY <1>1, ExchangeAssumption
  <2>3. page'.length \in 0 .. 1
    BY <2>2
  <2>4. ASSUME client.method # "HEAD" /\ page'.length > 0
        PROVE  FramingAgrees'
    <3>1. /\ response'.length = page'.length /\ ~response'.cached
          /\ ~response'.ended /\ response'.sent = page'.length
      BY <1>1, <2>4 DEF ChallengeResponse
    <3> QED  BY <1>1, <2>3, <2>4, <3>1 DEF FramingAgrees
  <2>5. ASSUME ~(client.method # "HEAD" /\ page'.length > 0)
        PROVE  FramingAgrees'
    <3>1. /\ response'.length = page'.length /\ ~response'.cached
          /\ response'.ended /\ response'.sent = 0
      BY <1>1, <2>5 DEF ChallengeResponse
    <3> QED  BY <1>1, <2>3, <2>5, <3>1 DEF FramingAgrees
  <2> QED  BY <2>1, <2>4, <2>5 DEF AnswersAgree
<1>8. ASSUME Admissible'
      PROVE  /\ Admissible
             /\ \A i \in DOMAIN refusals : Cured(refusals[i])
             /\ Cures(deny, category)
             /\ Cured(category) => category \in {"expired", "server_error"}
  BY <1>1, <1>8 DEF Admissible, Bound, IInv, LessonsLearnt
<1>9. LessonsLearnt'
  <2> SUFFICES ASSUME Admissible'
               PROVE  /\ \A i \in DOMAIN refusals : Cured(refusals[i])'
                      /\ Cures(response, category)'
    BY <1>1, <1>3 DEF LessonsLearnt
  <2>1. \A any : Cured(any) <=> Cured(any)'
    BY <1>1 DEF Cured, HeldScopes
  <2>2. Cures(response, category)'
    BY <1>1, <1>2, <1>8 DEF Cures, Names, Sought, HeldScopes
  <2> QED  BY <1>3, <1>8, <2>1, <2>2
<1>10. NoFutileRetry'
  <2> SUFFICES ASSUME Admissible',
                      NEW i \in DOMAIN refusals', NEW j \in DOMAIN refusals',
                      i # j, refusals'[i] = refusals'[j]
               PROVE  refusals'[i] \in {"expired", "server_error"}
    BY DEF NoFutileRetry
  <2>1. Len(refusals') = Len(refusals) + 1
    BY <1>3
  <2>2. CASE i \in DOMAIN refusals /\ j \in DOMAIN refusals
    BY <1>3, <1>8, <2>2 DEF IInv, NoFutileRetry
  <2>3. CASE i \in DOMAIN refusals /\ j = Len(refusals')
    BY <1>3, <1>8, <2>3 DEF Latest
  <2>4. CASE j \in DOMAIN refusals /\ i = Len(refusals')
    BY <1>3, <1>8, <2>4 DEF Latest
  <2> QED  BY <1>3, <2>2, <2>3, <2>4
<1> QED  BY <1>4, <1>5, <1>6, <1>7, <1>9, <1>10 DEF IInv

LEMMA RejectOutsideKeeps ==
  ASSUME IInv, RejectOutside
  PROVE  IInv'
<1>1. ~Admissible
  BY DEF RejectOutside, Admissible, Enclosed
<1> QED  BY <1>1, EarlyDenialsAreSound, RefuseKeeps
         DEF RejectOutside, Categories

LEMMA DenyRouteKeeps ==
  ASSUME IInv, DenyRoute
  PROVE  IInv'
<1>1. ~Admissible
  BY DEF DenyRoute, Admissible
<1>2. route.resolves \in {"invalid_input", "policy_denied", "internal"}
  BY DEF DenyRoute, IInv, ExchangeType
<1> QED  BY <1>1, <1>2, EarlyDenialsAreSound, RefuseKeeps
         DEF DenyRoute, AtGuard, Categories

LEMMA RejectUriKeeps ==
  ASSUME IInv, RejectUri
  PROVE  IInv'
<1>1. ~Admissible
  BY DEF RejectUri, Admissible
<1> QED  BY <1>1, EarlyDenialsAreSound, RefuseKeeps
         DEF RejectUri, AtGuard, Categories

LEMMA ValidatorFailsKeeps ==
  ASSUME IInv, ValidatorFails
  PROVE  IInv'
<1>1. PICK nonce \in {FALSE, config.dpop}, retry \in BOOLEAN :
        Refuse("server_error",
               DenyError(Challenge("server", "none", TRUE, NoScope),
                         ScopeParam, nonce, retry))
  BY DEF ValidatorFails
<1>2. nonce \in BOOLEAN
  BY DEF IInv, ExchangeType
<1>3. \A deny : Cures(deny, "server_error")
  BY DEF Cures
<1> QED  BY <1>1, <1>2, <1>3, ServerDenialsAreSound, RefuseKeeps
         DEF ValidatorFails, Validating, AtGuard, Categories

LEMMA ValidatorRejectsKeeps ==
  ASSUME IInv, ValidatorRejects
  PROVE  IInv'
<1>1. pc = "proxy" /\ client.token # NoToken
  BY DEF ValidatorRejects, Validating, AtGuard
<1>2. config.demands \in SUBSET Scopes /\ NoScope # config.demands
  BY ExchangeAssumption DEF IInv, ExchangeType
<1>3. CASE /\ ~client.nonce
           /\ Refuse("use_dpop_nonce",
                     DenyError(ClientError("use_dpop_nonce", NoScope),
                               ScopeParam, TRUE, FALSE))
  <2> DEFINE deny == ClientDenial("use_dpop_nonce", TRUE, NoScope, ScopeParam, TRUE)
  <2>1. Sound("use_dpop_nonce", deny)
    BY HintsAreTyped, ClientDenialsAreSound DEF Faults, Untrusted
  <2>2. HasFields(deny, "use_dpop_nonce", TRUE, Or(NoScope, ScopeParam), TRUE)
    BY ClientDenialFields
  <2>3. Refuse("use_dpop_nonce", deny)
    BY <1>3 DEF ClientError, ClientDenial
  <2> HIDE DEF deny
  <2>4. ~Cured("use_dpop_nonce") /\ Cures(deny, "use_dpop_nonce")
    BY <1>3, <2>2 DEF Cured, Cures, HasFields
  <2> QED  BY <1>1, <2>1, <2>3, <2>4, RefuseKeeps DEF Categories
<1>4. CASE Refuse("expired", DenyError(InvalidToken, ScopeParam, FALSE, FALSE))
  <2> DEFINE deny == ClientDenial("invalid_token", TRUE, NoScope, ScopeParam, FALSE)
  <2>1. Sound("expired", deny)
    BY HintsAreTyped, ClientDenialsAreSound DEF Faults, Untrusted
  <2>2. Refuse("expired", deny)
    BY <1>4 DEF InvalidToken, ClientError, ClientDenial
  <2> HIDE DEF deny
  <2>3. Cures(deny, "expired")
    BY DEF Cures
  <2> QED  BY <1>1, <2>1, <2>2, <2>3, RefuseKeeps DEF Categories
<1>5. CASE /\ ~(config.demands \subseteq client.token.scopes)
           /\ Refuse("demands",
                     DenyError(ClientError("insufficient_scope", config.demands),
                               ScopeParam, FALSE, FALSE))
  <2> DEFINE deny == ClientDenial("insufficient_scope", TRUE, config.demands,
                              ScopeParam, FALSE)
  <2>1. Sound("demands", deny)
    BY HintsAreTyped, ClientDenialsAreSound DEF Faults, Untrusted
  <2>2. HasFields(deny, "insufficient_scope", TRUE,
                  Or(config.demands, ScopeParam), FALSE)
    BY ClientDenialFields
  <2>3. Refuse("demands", deny)
    BY <1>5 DEF ClientError, ClientDenial
  <2> HIDE DEF deny
  <2>4. ~Cured("demands")
    BY <1>1, <1>5 DEF Cured, HeldScopes
  <2>5. Cures(deny, "demands")
    BY <1>2, <2>2 DEF Cures, Names, Sought, HasFields, Or
  <2> QED  BY <1>1, <2>1, <2>3, <2>4, <2>5, RefuseKeeps DEF Categories
<1> QED  BY <1>3, <1>4, <1>5 DEF ValidatorRejects

LEMMA NoTokenPresentKeeps ==
  ASSUME IInv, NoTokenPresent
  PROVE  IInv'
<1>1. pc = "proxy" /\ client.token = NoToken
  BY DEF NoTokenPresent, Validating, AtGuard
<1>2. CASE Forward
  BY <1>1, <1>2, ForwardKeeps
<1>3. ASSUME NEW nonce \in {FALSE, config.dpop},
             Refuse("unauthenticated", Unauthenticated(ScopeParam, nonce))
      PROVE  IInv'
  <2> DEFINE deny == Unauthenticated(ScopeParam, nonce)
  <2>1. nonce \in BOOLEAN
    BY DEF IInv, ExchangeType
  <2>2. Sound("unauthenticated", deny)
    BY <2>1, HintsAreTyped, UnauthenticatedIsSound
  <2>3. /\ deny.status = 401
        /\ deny.challenges = {HeaderValue("none", ScopeParam)}
    BY DEF Unauthenticated, Deny
  <2>4. HeaderValue("none", ScopeParam).code = "none"
    BY DEF HeaderValue
  <2>5. ~Cured("unauthenticated")
    BY <1>1 DEF Cured
  <2>6. Cures(deny, "unauthenticated")
    <3> HIDE DEF deny
    <3> QED  BY <2>3, <2>4 DEF Cures, Names
  <2> HIDE DEF deny
  <2> QED  BY <1>1, <1>3, <2>2, <2>5, <2>6, RefuseKeeps DEF Categories, deny
<1> QED  BY <1>2, <1>3 DEF NoTokenPresent

LEMMA RejectTokenKeeps ==
  ASSUME IInv, RejectToken
  PROVE  IInv'
<1>1. pc = "proxy" /\ client.token # NoToken
  BY DEF RejectToken, Validated, Validating, AtGuard
<1>2. PICK nonce \in {FALSE, config.dpop} :
        Refuse(RuleVerdict.category,
               DenyError(RuleVerdict.challenge, RuleVerdict.scope, nonce, FALSE))
  BY DEF RejectToken
<1>3. nonce \in BOOLEAN
  BY DEF IInv, ExchangeType
<1>4. CASE WrongAudience
  <2>1. RuleVerdict = Failed("audience", InvalidToken, ScopeParam)
    BY <1>4 DEF RuleVerdict
  <2> DEFINE deny == ClientDenial("invalid_token", TRUE, NoScope, ScopeParam,
                                  nonce)
  <2>2. Refuse("audience", deny)
    BY <1>2, <2>1 DEF Failed, InvalidToken, ClientError, ClientDenial
  <2>3. Sound("audience", deny)
    BY <1>3, HintsAreTyped, ClientDenialsAreSound DEF Faults, Untrusted
  <2>4. ~Admissible
    BY <1>1, <1>4 DEF WrongAudience, Admissible, IInv, OneAudience, Bound
  <2> HIDE DEF deny
  <2> QED  BY <1>1, <2>2, <2>3, <2>4, RefuseKeeps DEF Categories
<1>5. CASE ~WrongAudience /\ LacksScope
  <2>1. RuleVerdict = Failed("insufficient_scope", InsufficientScope, ScopeParam)
    BY <1>5 DEF RuleVerdict
  <2> DEFINE deny == ClientDenial("insufficient_scope", FALSE, NoScope,
                                  ScopeParam, nonce)
  <2>2. Refuse("insufficient_scope", deny)
    BY <1>2, <2>1 DEF Failed, InsufficientScope, ClientDenial
  <2>3. Sound("insufficient_scope", deny)
    BY <1>3, HintsAreTyped, ClientDenialsAreSound DEF Faults, Untrusted
  <2>4. HasFields(deny, "insufficient_scope", FALSE, Or(NoScope, ScopeParam),
                  nonce)
    BY ClientDenialFields
  <2> HIDE DEF deny
  <2>5. ~Cured("insufficient_scope")
    BY <1>1, <1>5 DEF Cured, LacksScope, HeldScopes
  <2>6. ScopeParam = route.rule.scopes /\ ScopeParam # NoScope
    BY <1>5, ExchangeAssumption
       DEF LacksScope, ScopeParam, IInv, ExchangeType, BuiltRule
  <2>7. Cures(deny, "insufficient_scope")
    BY <2>4, <2>6 DEF Cures, Names, Sought, HasFields, Or
  <2> QED  BY <1>1, <2>2, <2>3, <2>5, <2>7, RefuseKeeps DEF Categories
<1>6. CASE ~WrongAudience /\ ~LacksScope
  <2>1. CASE route.rule.check = "forbids"
    <3>1. RuleVerdict = Failed("forbidden",
                               CustomCheckError("insufficient_scope"), NoScope)
      BY <1>6, <2>1 DEF RuleVerdict
    <3> DEFINE deny == ClientDenial("insufficient_scope", TRUE, NoScope,
                                    NoScope, nonce)
    <3>2. Refuse("forbidden", deny)
      BY <1>2, <3>1 DEF Failed, CustomCheckError, ClientError, ClientDenial
    <3>3. Sound("forbidden", deny)
      BY <1>3, HintsAreTyped, ClientDenialsAreSound DEF Faults, Untrusted
    <3>4. ~Admissible
      BY <2>1, ExchangeAssumption DEF Admissible
    <3> HIDE DEF deny
    <3> QED  BY <1>1, <3>2, <3>3, <3>4, RefuseKeeps DEF Categories
  <2>2. CASE route.rule.check = "invalidates"
    <3>1. RuleVerdict = Failed("invalidated", CustomCheckError("invalid_token"),
                               NoScope)
      BY <1>6, <2>2 DEF RuleVerdict
    <3> DEFINE deny == ClientDenial("invalid_token", TRUE, NoScope, NoScope,
                                    nonce)
    <3>2. Refuse("invalidated", deny)
      BY <1>2, <3>1 DEF Failed, CustomCheckError, ClientError, ClientDenial
    <3>3. Sound("invalidated", deny)
      BY <1>3, HintsAreTyped, ClientDenialsAreSound DEF Faults, Untrusted
    <3>4. ~Admissible
      BY <2>2, ExchangeAssumption DEF Admissible
    <3> HIDE DEF deny
    <3> QED  BY <1>1, <3>2, <3>3, <3>4, RefuseKeeps DEF Categories
  <2>3. CASE route.rule.check \notin {"forbids", "invalidates"}
    <3>1. RuleVerdict = Failed("none", InvalidToken, NoScope)
      BY <1>6, <2>3 DEF RuleVerdict
    <3> QED  BY <3>1 DEF RejectToken, Failed
  <2> QED  BY <2>1, <2>2, <2>3
<1> QED  BY <1>4, <1>5, <1>6

\* A client that reacts has done what the last refusal asks of it.
LEMMA ReactKeeps ==
  ASSUME IInv, React
  PROVE  IInv'
<1>1. /\ pc = "answered" /\ pc' \in {"client", "gave_up"}
      /\ told' = NoDetails /\ page' = NoPage /\ response' = NoResponse
      /\ UNCHANGED <<route, config, refusals, faults>>
  BY DEF React, TryAgain
<1>2. /\ client.token \in {NoToken} \cup Tokens /\ client.aud \in SUBSET Audiences
      /\ client.nonce \in BOOLEAN /\ client.method \in RequestMethods
      /\ HeldScopes \in SUBSET Scopes /\ response.nonce \in BOOLEAN
  BY DEF IInv, ExchangeType, HeldScopes, Tokens
<1>3. /\ Held.nonce = (client.nonce \/ response.nonce)
      /\ Held.token = client.token /\ Held.aud = client.aud
      /\ Held \in [token : {NoToken} \cup Tokens, aud : SUBSET Audiences,
                   nonce : BOOLEAN, method : RequestMethods]
  <2>1. client \in [token : {NoToken} \cup Tokens, aud : SUBSET Audiences,
                    nonce : BOOLEAN, method : RequestMethods]
    BY DEF IInv, ExchangeType
  <2>2. (client.nonce \/ response.nonce) \in BOOLEAN
    BY <1>2
  <2> QED  BY <2>1, <2>2 DEF Held
<1>4. ASSUME NEW c \in response.challenges
      PROVE  /\ FreshToken(Sought(c)) \in Tokens
             /\ FreshToken(Sought(c)) # NoToken
             /\ FreshToken(Sought(c)).aud = client.aud
             /\ FreshToken(Sought(c)).scopes = Sought(c)
             /\ HeldScopes \subseteq Sought(c)
  <2>1. c.scope \in ScopeParams
    BY <1>1 DEF IInv, ExchangeType, Refused
  <2>2. Sought(c) \in SUBSET Scopes /\ HeldScopes \subseteq Sought(c)
    BY <1>2, <2>1 DEF Sought, ScopeParams
  <2> QED  BY <1>2, <2>2, ExchangeAssumption DEF FreshToken, Tokens
<1>5. ASSUME NEW c \in response.challenges,
             client' = [Held EXCEPT !.token = Replaced(c)]
      PROVE  /\ client'.nonce = (client.nonce \/ response.nonce)
             /\ client'.aud = client.aud
             /\ client' \in [token : {NoToken} \cup Tokens,
                             aud : SUBSET Audiences,
                             nonce : BOOLEAN, method : RequestMethods]
             /\ IF c.code = "use_dpop_nonce" THEN client'.token = client.token
                ELSE client'.token = FreshToken(Sought(c))
  BY <1>2, <1>3, <1>4, <1>5 DEF Replaced
<1>6. ExchangeType' /\ OneAudience'
  <2>1. /\ client' \in [token : {NoToken} \cup Tokens, aud : SUBSET Audiences,
                        nonce : BOOLEAN, method : RequestMethods]
        /\ OneAudience'
    BY <1>1, <1>3, <1>4, <1>5 DEF React, IInv, ExchangeType, OneAudience
  <2> QED  BY <1>1, <2>1
           DEF IInv, ExchangeType, BuiltRule, NoResponse, Refused
<1>7. RefusalsTellNoMore' /\ AnswersAgree'
  BY <1>1 DEF RefusalsTellNoMore, ServerFaultsTellNothing,
              UntrustedRuleStaysHidden, AnswersAgree, BodyAgreesWithHeader,
              UnauthorizedIsChallenged, FramingAgrees, Refused
<1>8. client'.aud = client.aud
  BY <1>1, <1>3, <1>5 DEF React
<1>9. ASSUME Admissible'
      PROVE  /\ \A i \in 1 .. Len(refusals) - 1 : Cured(refusals[i])
             /\ Cures(response, Latest)
  BY <1>1, <1>8, <1>9 DEF Admissible, Bound, IInv, LessonsLearnt, Refused
<1>10. NoFutileRetry'
  BY <1>1, <1>8 DEF IInv, NoFutileRetry, Admissible, Bound
<1>11. ASSUME NEW any, Cured(any)
       PROVE  Cured(any)'
  <2>1. client.nonce => client'.nonce
    BY <1>1, <1>2, <1>3, <1>5 DEF React
  <2>2. client.token # NoToken => client'.token # NoToken
    BY <1>1, <1>3, <1>4, <1>5 DEF React
  <2>3. HeldScopes \subseteq HeldScopes'
    BY <1>1, <1>3, <1>4, <1>5 DEF React, HeldScopes
  <2> QED  BY <1>1, <1>11, <2>1, <2>2, <2>3 DEF Cured
<1>12. ASSUME Cures(response, Latest), pc' = "client"
       PROVE  Cured(Latest)'
  <2>1. CASE Latest = "use_dpop_nonce" /\ response.nonce
    <3>1. client'.nonce = (client.nonce \/ response.nonce)
      BY <1>1, <1>3, <1>5, <1>12 DEF React
    <3> QED  BY <1>1, <1>2, <2>1, <3>1 DEF Cured, Latest
  <2>2. ASSUME NEW scopes, Names(response, scopes)
        PROVE  client'.token # NoToken /\ scopes \subseteq HeldScopes'
    <3>1. PICK c \in response.challenges :
            client' = [Held EXCEPT !.token = Replaced(c)]
      BY <1>1, <1>12, <2>2 DEF React, Names
    <3>2. client'.token = FreshToken(Sought(c)) /\ scopes \subseteq Sought(c)
      BY <1>5, <2>2, <3>1 DEF Names
    <3> QED  BY <1>4, <3>2 DEF HeldScopes
  <2>3. CASE Latest \in {"unauthenticated", "demands", "insufficient_scope"}
    BY <1>1, <1>12, <2>2, <2>3 DEF Cures, Cured, Latest
  <2>4. CASE Latest \in {"expired", "server_error"}
    BY <1>1, <2>4 DEF Cured, Latest
  <2> QED  BY <1>12, <2>1, <2>3, <2>4 DEF Cures
<1>13. LessonsLearnt'
  <2> SUFFICES ASSUME Admissible', pc' = "client"
               PROVE  \A i \in DOMAIN refusals : Cured(refusals[i])'
    BY <1>1 DEF LessonsLearnt, Refused
  <2>1. /\ Cured(Latest)' /\ Latest' = Latest
        /\ \A i \in 1 .. Len(refusals) - 1 : Cured(refusals[i])'
    BY <1>1, <1>9, <1>11, <1>12 DEF Latest
  <2>2. DOMAIN refusals = 1 .. Len(refusals) /\ Len(refusals) \in Nat
    BY DEF IInv, ExchangeType
  <2> QED  BY <1>1, <2>1, <2>2 DEF Latest
<1> QED  BY <1>6, <1>7, <1>10, <1>13 DEF IInv

-----------------------------------------------------------------------------
THEOREM ExchangeInvariant == Spec => []IInv
<1>1. Init => IInv
  BY InitIsTyped
<1>2. IInv /\ [Next]_vars => IInv'
  <2> SUFFICES ASSUME IInv, [Next]_vars PROVE IInv'
    OBVIOUS
  <2>1. CASE RejectOutside
    BY <2>1, RejectOutsideKeeps
  <2>2. CASE DenyRoute
    BY <2>2, DenyRouteKeeps
  <2>3. CASE ForwardPublic
    BY <2>3, ForwardKeeps DEF ForwardPublic, AtGuard
  <2>4. CASE RejectUri
    BY <2>4, RejectUriKeeps
  <2>5. CASE ValidatorFails
    BY <2>5, ValidatorFailsKeeps
  <2>6. CASE ValidatorRejects
    BY <2>6, ValidatorRejectsKeeps
  <2>7. CASE NoTokenPresent
    BY <2>7, NoTokenPresentKeeps
  <2>8. CASE RejectToken
    BY <2>8, RejectTokenKeeps
  <2>9. CASE ForwardToken
    BY <2>9, ForwardKeeps DEF ForwardToken, Validated, Validating, AtGuard
  <2>10. CASE FetchMetadata
    BY <2>10, FetchMetadataKeeps
  <2>11. CASE Send
    BY <2>11, SendKeeps
  <2>12. CASE React
    BY <2>12, ReactKeeps
  <2>13. CASE Ended
    BY <2>13, StutterKeeps DEF Ended
  <2>14. CASE UNCHANGED vars
    BY <2>14, StutterKeeps
  <2> QED  BY <2>1, <2>2, <2>3, <2>4, <2>5, <2>6, <2>7, <2>8, <2>9, <2>10,
              <2>11, <2>12, <2>13, <2>14 DEF Next, Proxy
<1> QED  BY <1>1, <1>2, PTL DEF Spec

\* No refusal tells a client, or who renders its page, more than its reason.
THEOREM RefusalsAreDiscreet == Spec => []RefusalsTellNoMore
<1>1. IInv => RefusalsTellNoMore
  BY DEF IInv
<1> QED  BY <1>1, ExchangeInvariant, PTL

\* Status, challenges, body and framing of every refusal agree.
THEOREM AnswersAreConsistent == Spec => []AnswersAgree
<1>1. IInv => AnswersAgree
  BY DEF IInv
<1> QED  BY <1>1, ExchangeInvariant, PTL

\* A client that follows the challenges is never refused twice for one reason.
THEOREM RetriesAreNotFutile == Spec => []NoFutileRetry
<1>1. IInv => NoFutileRetry
  BY DEF IInv
<1> QED  BY <1>1, ExchangeInvariant, PTL
=============================================================================
