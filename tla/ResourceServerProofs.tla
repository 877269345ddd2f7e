------------------------- MODULE ResourceServerProofs -------------------------
(***************************************************************************)
(* Proofs about what a resource server is put together from.  First, the   *)
(* construction of a ResourcePolicy (Spec, of ResourcePolicy), for any     *)
(* methods, audiences, scopes, checks, patterns and number of rules.  Then *)
(* the server of bound resources (ServerSpec, of PublicationServer), for   *)
(* any definitions, mapping, requests and number of resources.             *)
(***************************************************************************)
EXTENDS ResourcePolicyInvariants, PublicationInvariants, UrlPathProofs

-----------------------------------------------------------------------------
(* The inductive invariant.                                                 *)

Rules ==
    [token : TokenRequirements, audiences : SUBSET Audiences,
     scopes : SUBSET Scopes, scope_param : {NoScope} \cup SUBSET Scopes,
     check : Checks \cup {NoCheck}, method : MethodMatches]

AskedRules ==
    [token : TokenRequirements, audiences : SUBSET Audiences,
     scopes : SUBSET Scopes, check : Checks \cup {NoCheck},
     method : MethodMatches]

\* The rule holds what was asked of it, and hints at its scopes.
Holds(rule, asked) ==
    /\ rule.token = asked.token /\ rule.audiences = asked.audiences
    /\ rule.scopes = asked.scopes /\ rule.check = asked.check
    /\ rule.method = asked.method
    /\ rule.scope_param = IF rule.scopes = {} THEN NoScope ELSE rule.scopes

Coherent(given) ==
    given.rule \in Rules /\ given.asked \in AskedRules
    /\ Holds(given.rule, given.asked)

Route == [kind : Kinds, pattern : Patterns, rule : Rules, asked : AskedRules]

RoutesAreCoherent ==
    /\ routes \in Seq(Route)
    /\ \A i \in DOMAIN routes : Coherent(routes[i])

\* The outcome that build gives for these routes and this default.
OutcomeIsOfBuild ==
    \/ outcome = Building
    \/ \E i \in FirstOffender :
         outcome = PublicRuleWithConstraints(routes[i].pattern)
    \/ /\ FirstOffender = {} /\ PublicConstraintsRequested(Fallback.rule)
       /\ outcome = PublicRuleWithConstraints(DefaultName)
    \/ /\ FirstOffender = {} /\ ~PublicConstraintsRequested(Fallback.rule)
       /\ \/ /\ RouterErrors(Registrations) = {}
             /\ outcome = [Building EXCEPT !.kind = "built"]
             /\ scopes_supported = AllScopes
          \/ \E e \in RouterErrors(Registrations) :
               outcome = FromRouterError(e)

IInv ==
    /\ draft = NoRule \/ Coherent(draft)
    /\ RoutesAreCoherent
    /\ default = NoRule \/ Coherent(default)
    /\ OutcomeIsOfBuild

-----------------------------------------------------------------------------
(* Rules.                                                                   *)

LEMMA RoutesAreTyped ==
  ASSUME RoutesAreCoherent
  PROVE  /\ DOMAIN routes = 1 .. Len(routes) /\ Len(routes) \in Nat
         /\ \A i \in DOMAIN routes : routes[i] \in Route
BY DEF RoutesAreCoherent

LEMMA NewRuleIsCoherent ==
  ASSUME NEW token \in TokenRequirements
  PROVE  Coherent([rule |-> WithRequirement(token), asked |-> Asked(token)])
BY DEF Coherent, Holds, Rules, AskedRules, WithRequirement, Asked, MethodMatches

LEMMA AudiencesAreCoherent ==
  ASSUME NEW given, Coherent(given), NEW audiences \in SUBSET Audiences
  PROVE  Coherent([rule |-> WithAudiences(given.rule, audiences),
                   asked |-> [given.asked EXCEPT
                                !.audiences = @ \cup audiences]])
BY DEF Coherent, Holds, Rules, AskedRules, WithAudiences

LEMMA ScopesAreCoherent ==
  ASSUME NEW given, Coherent(given), NEW scopes \in SUBSET Scopes
  PROVE  Coherent([rule |-> WithScopes(given.rule, scopes),
                   asked |-> [given.asked EXCEPT !.scopes = @ \cup scopes]])
BY DEF Coherent, Holds, Rules, AskedRules, WithScopes

LEMMA CheckedRuleIsCoherent ==
  ASSUME NEW given, Coherent(given), NEW f \in Checks
  PROVE  Coherent([rule |-> WithCheck(given.rule, f),
                   asked |-> [given.asked EXCEPT !.check = f]])
BY DEF Coherent, Holds, Rules, AskedRules, WithCheck

LEMMA RestrictedRuleIsCoherent ==
  ASSUME NEW given, Coherent(given), NEW method \in RequestMethods
  PROVE  Coherent([rule |-> WithMethod(given.rule, OneOf(method)),
                   asked |-> [given.asked EXCEPT !.method = {method}]])
BY DEF Coherent, Holds, Rules, AskedRules, WithMethod, OneOf, MethodMatches

LEMMA FallbackIsCoherent ==
  ASSUME default = NoRule \/ Coherent(default)
  PROVE  Coherent(Fallback)
<1>1. Coherent([rule |-> DefaultRule, asked |-> Asked("required")])
  BY NewRuleIsCoherent DEF DefaultRule, TokenRequirements
<1> QED  BY <1>1 DEF Fallback

\* The scopes that metadata advertises are those of the rules.
LEMMA ScopesOfRules ==
  /\ Fallback.rule.scopes \subseteq AllScopes
  /\ \A i \in DOMAIN routes : routes[i].rule.scopes \subseteq AllScopes
  /\ \A s \in AllScopes :
       \/ s \in Fallback.rule.scopes
       \/ \E i \in DOMAIN routes : s \in routes[i].rule.scopes
<1> DEFINE sets == {routes[i].rule.scopes : i \in DOMAIN routes}
           last == Fallback.rule.scopes
           union == UNION sets
<1>1. AllScopes = last \cup union
  BY DEF AllScopes
<1>2. \A set \in sets : \E i \in DOMAIN routes : set = routes[i].rule.scopes
  OBVIOUS
<1>3. \A i \in DOMAIN routes : routes[i].rule.scopes \in sets
  OBVIOUS
<1>4. /\ \A set \in sets : set \subseteq union
      /\ \A s \in union : \E set \in sets : s \in set
  <2> HIDE DEF sets
  <2> QED  OBVIOUS
<1> HIDE DEF sets, last, union
<1>5. /\ last \subseteq AllScopes /\ union \subseteq AllScopes
      /\ \A s \in AllScopes : s \in last \/ s \in union
  BY <1>1, Zenon
<1> QED  BY <1>2, <1>3, <1>4, <1>5 DEF last

\* The public rules with constraints are those that were asked for some.
LEMMA MisplacedIsSeen ==
  ASSUME NEW given, Coherent(given)
  PROVE  PublicConstraintsRequested(given.rule) <=> Misplaced(given.asked)
BY DEF Coherent, Holds, Rules, PublicConstraintsRequested, Misplaced

\* Of the public routes with constraints one is the first.
LEMMA FirstOffenderIsFirst ==
  ASSUME RoutesAreCoherent
  PROVE  LET offenders == {i \in DOMAIN routes : Misplaced(routes[i].asked)}
         IN  /\ FirstOffender = {} => offenders = {}
             /\ \A i \in FirstOffender :
                  /\ i \in offenders
                  /\ i = CHOOSE k \in offenders : \A j \in offenders : k <= j
<1> DEFINE offenders == {i \in DOMAIN routes : Misplaced(routes[i].asked)}
<1>1. DOMAIN routes = 1 .. Len(routes) /\ Len(routes) \in Nat
  BY RoutesAreTyped
<1>2. \A i \in DOMAIN routes :
        PublicConstraintsRequested(routes[i].rule) <=> i \in offenders
  BY MisplacedIsSeen DEF RoutesAreCoherent
<1>3. offenders \in SUBSET Nat /\ offenders \subseteq DOMAIN routes
  BY <1>1
<1> HIDE DEF offenders
<1>4. ASSUME offenders # {}
      PROVE  FirstOffender # {}
  <2>1. PICK n \in offenders : \A m \in offenders : n <= m
    BY <1>3, <1>4, LeastNatural
  <2>2. \A j \in 1 .. n - 1 : j \in DOMAIN routes /\ j \notin offenders
    BY <1>1, <1>3, <2>1
  <2>3. n \in FirstOffender
    BY <1>2, <1>3, <2>1, <2>2 DEF FirstOffender
  <2> QED  BY <2>3
<1>5. ASSUME NEW i \in FirstOffender
      PROVE  /\ i \in offenders
             /\ i = CHOOSE k \in offenders : \A j \in offenders : k <= j
  <2>1. i \in offenders /\ i \in DOMAIN routes
    BY <1>2 DEF FirstOffender
  <2>2. \A j \in 1 .. i - 1 : j \notin offenders
    <3>1. \A j \in 1 .. i - 1 : j \in DOMAIN routes
      BY <1>1, <2>1
    <3> QED  BY <1>2, <3>1 DEF FirstOffender
  <2>3. \A j \in offenders : i <= j
    BY <1>1, <1>3, <2>1, <2>2
  <2>4. \A k \in offenders : (\A j \in offenders : k <= j) => k = i
    BY <1>1, <1>3, <2>1, <2>3
  <2> QED  BY <2>1, <2>3, <2>4
<1> QED  BY <1>4, <1>5 DEF offenders

-----------------------------------------------------------------------------
(* The invariant holds.                                                     *)

LEMMA InitIInv == Init => IInv
BY DEF Init, IInv, RoutesAreCoherent, OutcomeIsOfBuild

LEMMA NextIInv == IInv /\ [Next]_vars => IInv'
<1> SUFFICES ASSUME IInv, [Next]_vars PROVE IInv'
  OBVIOUS
<1> USE DEF IInv
<1>1. ASSUME NEW token \in TokenRequirements, Construct(token)
      PROVE  IInv'
  <2>1. /\ Coherent(draft') /\ outcome = Building
        /\ routes' = routes /\ default' = default /\ outcome' = outcome
    BY <1>1, NewRuleIsCoherent DEF Construct, Writing
  <2> QED  BY <2>1 DEF RoutesAreCoherent, Coherent, OutcomeIsOfBuild
<1>2. ASSUME NEW audiences \in SUBSET Audiences, AcceptAudiences(audiences)
      PROVE  IInv'
  <2>1. /\ Coherent(draft') /\ outcome = Building
        /\ routes' = routes /\ default' = default /\ outcome' = outcome
    BY <1>2, AudiencesAreCoherent DEF AcceptAudiences, Amend, Writing
  <2> QED  BY <2>1 DEF RoutesAreCoherent, Coherent, OutcomeIsOfBuild
<1>3. ASSUME NEW scopes \in SUBSET Scopes, RequireScopes(scopes)
      PROVE  IInv'
  <2>1. /\ Coherent(draft') /\ outcome = Building
        /\ routes' = routes /\ default' = default /\ outcome' = outcome
    BY <1>3, ScopesAreCoherent DEF RequireScopes, Amend, Writing
  <2> QED  BY <2>1 DEF RoutesAreCoherent, Coherent, OutcomeIsOfBuild
<1>4. ASSUME NEW f \in Checks, AttachCheck(f)
      PROVE  IInv'
  <2>1. /\ Coherent(draft') /\ outcome = Building
        /\ routes' = routes /\ default' = default /\ outcome' = outcome
    BY <1>4, CheckedRuleIsCoherent DEF AttachCheck, Amend, Writing
  <2> QED  BY <2>1 DEF RoutesAreCoherent, Coherent, OutcomeIsOfBuild
<1>5. ASSUME NEW method \in RequestMethods, RestrictTo(method)
      PROVE  IInv'
  <2>1. /\ Coherent(draft') /\ outcome = Building
        /\ routes' = routes /\ default' = default /\ outcome' = outcome
    BY <1>5, RestrictedRuleIsCoherent DEF RestrictTo, Amend, Writing
  <2> QED  BY <2>1 DEF RoutesAreCoherent, Coherent, OutcomeIsOfBuild
<1>6. ASSUME NEW kind \in Kinds, NEW pattern \in Patterns,
             AddRoute(kind, pattern)
      PROVE  IInv'
  <2> DEFINE route == [kind |-> kind, pattern |-> pattern,
                       rule |-> draft.rule, asked |-> draft.asked]
  <2>1. /\ draft # NoRule /\ Coherent(draft) /\ outcome = Building
        /\ routes' = Append(routes, route)
        /\ draft' \in {NoRule, draft} /\ default' = default
        /\ outcome' = outcome
    BY <1>6 DEF AddRoute, Writing, HandedOver
  <2>2. route \in Route /\ Coherent(route)
    BY <2>1 DEF Coherent, Route
  <2>3. routes \in Seq(Route) /\ \A i \in DOMAIN routes : Coherent(routes[i])
    BY DEF RoutesAreCoherent
  <2> HIDE DEF route
  <2>4. /\ routes' \in Seq(Route)
        /\ \A i \in 1 .. Len(routes) : routes'[i] = routes[i]
        /\ routes'[Len(routes) + 1] = route
        /\ DOMAIN routes' = 1 .. Len(routes) + 1
        /\ DOMAIN routes = 1 .. Len(routes) /\ Len(routes) \in Nat
    BY <2>1, <2>2, <2>3
  <2>5. \A i \in DOMAIN routes' : Coherent(routes'[i])
    BY <2>2, <2>3, <2>4
  <2>6. RoutesAreCoherent'
    BY <2>4, <2>5 DEF RoutesAreCoherent, Coherent
  <2> QED  BY <2>1, <2>6 DEF Coherent, OutcomeIsOfBuild
<1>7. ASSUME SetDefault
      PROVE  IInv'
  BY <1>7 DEF SetDefault, HandedOver, Writing, RoutesAreCoherent, Coherent,
              OutcomeIsOfBuild
<1>8. ASSUME Build
      PROVE  IInv'
  <2>1. draft' = NoRule /\ routes' = routes /\ default' = default
    BY <1>8 DEF Build
  <2>2. /\ FirstOffender' = FirstOffender /\ Fallback' = Fallback
        /\ Registrations' = Registrations /\ AllScopes' = AllScopes
    BY <2>1 DEF FirstOffender, Fallback, Registrations, AllScopes
  <2>3. RouterErrors(Registrations)' = RouterErrors(Registrations)
    BY <2>1 DEF Registrations
  <2>4. OutcomeIsOfBuild'
    BY <1>8, <2>1, <2>2, <2>3 DEF OutcomeIsOfBuild, Build
  <2> QED  BY <2>1, <2>4 DEF RoutesAreCoherent, Coherent
<1>9. ASSUME UNCHANGED vars
      PROVE  IInv'
  <2>1. /\ draft' = draft /\ routes' = routes /\ default' = default
        /\ outcome' = outcome /\ scopes_supported' = scopes_supported
    BY <1>9 DEF vars
  <2>2. OutcomeIsOfBuild'
    BY <2>1 DEF OutcomeIsOfBuild, FirstOffender, Fallback, Registrations,
                AllScopes
  <2> QED  BY <2>1, <2>2 DEF RoutesAreCoherent, Coherent
<1> QED  BY <1>1, <1>2, <1>3, <1>4, <1>5, <1>6, <1>7, <1>8, <1>9
         DEF Next, Finished

\* What was asked of each rule and what it holds of that stay together, and
\* the outcome is the one that build gives for these rules, with the scopes
\* that it sums up.
THEOREM PolicyInvariant == Spec => []IInv
BY InitIInv, NextIInv, PTL DEF Spec

-----------------------------------------------------------------------------
(* Constraints.                                                             *)

LEMMA BuiltPolicy ==
  ASSUME IInv, IsBuilt
  PROVE  /\ \A i \in DOMAIN routes : ~Misplaced(routes[i].asked)
         /\ ~Misplaced(Fallback.asked)
         /\ scopes_supported = AllScopes
<1>1. /\ FirstOffender = {} /\ ~PublicConstraintsRequested(Fallback.rule)
      /\ scopes_supported = AllScopes
  BY DEF IInv, OutcomeIsOfBuild, IsBuilt, PublicRuleWithConstraints,
         FromRouterError, Building
<1>2. Coherent(Fallback)
  BY FallbackIsCoherent DEF IInv
<1> QED  BY <1>1, <1>2, FirstOffenderIsFirst, MisplacedIsSeen DEF IInv

\* The router answers with the index of a registration at the selected
\* pattern, one for the method or for every method.
LEMMA ResolvedRule ==
  ASSUME NEW registrations, NEW path, NEW method,
         Resolve(registrations, path, method).kind = "rule"
  PROVE  LET index == Resolve(registrations, path, method).index IN
         /\ index \in AtSelected(registrations, path)
         /\ \/ method \in MethodKeys(registrations[index])
            \/ AnyMethod \in MethodKeys(registrations[index])
<1> DEFINE here == AtSelected(registrations, path)
           choice(key) == {i \in here : key \in MethodKeys(registrations[i])}
           named == CHOOSE i \in choice(method) : TRUE
           general == CHOOSE i \in choice(AnyMethod) : TRUE
<1>1. CASE here # {} /\ choice(method) # {}
  <2>1. Resolve(registrations, path, method)
          = [kind |-> "rule", index |-> named]
    BY <1>1 DEF Resolve
  <2>2. named \in choice(method)
    BY <1>1
  <2> QED  BY <2>1, <2>2
<1>2. CASE here # {} /\ choice(method) = {} /\ choice(AnyMethod) # {}
  <2>1. Resolve(registrations, path, method)
          = [kind |-> "rule", index |-> general]
    BY <1>2 DEF Resolve
  <2>2. general \in choice(AnyMethod)
    BY <1>2
  <2> QED  BY <2>1, <2>2
<1>3. CASE here = {} \/ (choice(method) = {} /\ choice(AnyMethod) = {})
  BY <1>3 DEF Resolve
<1> QED  BY <1>1, <1>2, <1>3

\* What governs a request is what was asked of one of the rules.
LEMMA GoverningIsCoherent ==
  ASSUME IInv, NEW path, NEW method,
         Governing(path, method) # NoRule
  PROVE  LET given == Governing(path, method) IN
         /\ Coherent(given)
         /\ IsBuilt => ~Misplaced(given.asked)
         /\ given.rule.scopes \subseteq AllScopes
<1> DEFINE verdict == Resolve(Registrations, path, method)
<1>1. CASE verdict.kind = "default"
  <2>1. Governing(path, method) = Fallback
    BY <1>1 DEF Governing
  <2> QED  BY <2>1, FallbackIsCoherent, BuiltPolicy, ScopesOfRules DEF IInv
<1>2. CASE verdict.kind = "rule"
  <2>1. Governing(path, method) = [rule |-> routes[verdict.index].rule,
                                   asked |-> routes[verdict.index].asked]
    BY <1>2 DEF Governing
  <2>2. verdict.index \in DOMAIN routes
    BY <1>2, ResolvedRule DEF AtSelected, Registrations
  <2>3. Coherent(routes[verdict.index])
    BY <2>2 DEF IInv, RoutesAreCoherent
  <2> QED  BY <2>1, <2>2, <2>3, BuiltPolicy, ScopesOfRules DEF Coherent
<1>3. CASE verdict.kind \notin {"default", "rule"}
  BY <1>3 DEF Governing
<1> QED  BY <1>1, <1>2, <1>3

LEMMA EnforcedInv == IInv => AskedIsEnforced
<1> SUFFICES ASSUME IInv, IsBuilt, NEW path \in RequestPaths,
                    NEW method \in RequestMethods,
                    Governing(path, method) # NoRule
             PROVE  LET given == Governing(path, method) IN
                    /\ given.rule.token = given.asked.token
                    /\ given.rule.audiences = given.asked.audiences
                    /\ given.rule.scopes = given.asked.scopes
                    /\ given.rule.check = given.asked.check
                    /\ ~Misplaced(given.asked)
  BY DEF AskedIsEnforced
<1> QED  BY GoverningIsCoherent DEF Coherent, Holds

LEMMA NamedInv == IInv => FirstMisplacedRuleIsNamed
<1> SUFFICES ASSUME IInv, outcome.kind = "refused"
             PROVE  LET offenders ==
                          {i \in DOMAIN routes : Misplaced(routes[i].asked)} IN
                    IF offenders # {}
                    THEN outcome = PublicRuleWithConstraints(
                           routes[CHOOSE i \in offenders :
                                    \A j \in offenders : i <= j].pattern)
                    ELSE outcome.error = "PublicRuleWithConstraints" <=>
                           /\ Misplaced(Fallback.asked)
                           /\ outcome.pattern = DefaultName
  BY DEF FirstMisplacedRuleIsNamed
<1> DEFINE offenders == {i \in DOMAIN routes : Misplaced(routes[i].asked)}
           first == CHOOSE i \in offenders : \A j \in offenders : i <= j
<1>1. /\ FirstOffender = {} => offenders = {}
      /\ \A i \in FirstOffender : i \in offenders /\ i = first
  BY FirstOffenderIsFirst DEF IInv
<1>2. PublicConstraintsRequested(Fallback.rule) <=> Misplaced(Fallback.asked)
  BY FallbackIsCoherent, MisplacedIsSeen DEF IInv
<1>3. \/ \E i \in FirstOffender :
            outcome = PublicRuleWithConstraints(routes[i].pattern)
      \/ /\ FirstOffender = {} /\ PublicConstraintsRequested(Fallback.rule)
         /\ outcome = PublicRuleWithConstraints(DefaultName)
      \/ /\ FirstOffender = {} /\ ~PublicConstraintsRequested(Fallback.rule)
         /\ \E e \in RouterErrors(Registrations) :
              outcome = FromRouterError(e)
  BY DEF IInv, OutcomeIsOfBuild, Building
<1> HIDE DEF offenders, first
<1>4. CASE \E i \in FirstOffender :
              outcome = PublicRuleWithConstraints(routes[i].pattern)
  <2>1. /\ offenders # {}
        /\ outcome = PublicRuleWithConstraints(routes[first].pattern)
    BY <1>1, <1>4
  <2> QED  BY <2>1 DEF offenders, first
<1>5. CASE /\ FirstOffender = {} /\ PublicConstraintsRequested(Fallback.rule)
           /\ outcome = PublicRuleWithConstraints(DefaultName)
  <2>1. /\ offenders = {} /\ Misplaced(Fallback.asked)
        /\ outcome.error = "PublicRuleWithConstraints"
        /\ outcome.pattern = DefaultName
    BY <1>1, <1>2, <1>5 DEF PublicRuleWithConstraints
  <2> QED  BY <2>1 DEF offenders
<1>6. CASE /\ FirstOffender = {} /\ ~PublicConstraintsRequested(Fallback.rule)
           /\ \E e \in RouterErrors(Registrations) :
                outcome = FromRouterError(e)
  <2>1. PICK e \in RouterErrors(Registrations) : outcome = FromRouterError(e)
    BY <1>6
  <2>2. e.kind \in {"Route", "NonCanonical", "NonCanonicalCase",
                    "EmptyMethodSet"}
    <3>1. \A i \in DOMAIN routes :
            Registrations[i].pattern \in DOMAIN PatternFaults
      <4>1. \A i \in DOMAIN routes : routes[i].pattern \in Patterns
        BY RoutesAreTyped DEF IInv, Route
      <4> QED  BY <4>1 DEF Registrations, Registration, Patterns
    <3>2. DOMAIN Registrations = DOMAIN routes
      BY DEF Registrations
    <3> QED  BY <2>1, <3>1, <3>2, FaultsAssumption
               DEF RouterErrors, RouterError
  <2>3. outcome.error # "PublicRuleWithConstraints"
    BY <2>1, <2>2 DEF FromRouterError
  <2>4. offenders = {} /\ ~Misplaced(Fallback.asked)
    BY <1>1, <1>2, <1>6
  <2> QED  BY <2>3, <2>4 DEF offenders
<1> QED  BY <1>3, <1>4, <1>5, <1>6

\* What an author asked of a rule is asked of every request that the rule
\* decides, or the policy is not built and the error says which rule.
THEOREM ConstraintsAreNotLost == Spec => []ConstraintsHoldOrAreRefused
<1>1. IInv => ConstraintsHoldOrAreRefused
  BY EnforcedInv, NamedInv DEF ConstraintsHoldOrAreRefused
<1> QED  BY <1>1, PolicyInvariant, PTL

-----------------------------------------------------------------------------
(* Hints.                                                                   *)

LEMMA HintInv == IInv => HintSuffices
<1> SUFFICES ASSUME IInv, IsBuilt, NEW path \in RequestPaths,
                    NEW method \in RequestMethods,
                    Governing(path, method) # NoRule
             PROVE  LET given == Governing(path, method) IN
                    IF given.asked.scopes = {}
                    THEN given.rule.scope_param = NoScope
                    ELSE given.rule.scope_param = given.asked.scopes
  BY DEF HintSuffices
<1> QED  BY GoverningIsCoherent DEF Coherent, Holds

LEMMA AdvertisedInv == IInv => HintsAreAdvertised
<1> SUFFICES ASSUME IInv, IsBuilt
             PROVE  HintsAreAdvertised
  BY DEF HintsAreAdvertised
<1>1. scopes_supported = AllScopes
  BY BuiltPolicy
<1>2. ASSUME NEW path \in RequestPaths, NEW method \in RequestMethods,
             Governing(path, method) # NoRule,
             Governing(path, method).rule.scope_param # NoScope
      PROVE  Governing(path, method).rule.scope_param \subseteq AllScopes
  <2> DEFINE given == Governing(path, method)
  <2>1. Coherent(given) /\ given.rule.scopes \subseteq AllScopes
    BY <1>2, GoverningIsCoherent
  <2>2. given.rule.scope_param = given.rule.scopes
    BY <1>2, <2>1 DEF Coherent, Holds
  <2> QED  BY <2>1, <2>2
<1>3. ASSUME NEW s \in AllScopes
      PROVE  \/ s \in Fallback.asked.scopes
             \/ \E i \in DOMAIN routes : s \in routes[i].asked.scopes
  <2>1. CASE s \in Fallback.rule.scopes
    BY <2>1, FallbackIsCoherent DEF IInv, Coherent, Holds
  <2>2. ASSUME NEW i \in DOMAIN routes, s \in routes[i].rule.scopes
        PROVE  s \in routes[i].asked.scopes
    BY <2>2 DEF IInv, RoutesAreCoherent, Coherent, Holds
  <2> QED  BY <2>1, <2>2, ScopesOfRules
<1> QED  BY <1>1, <1>2, <1>3 DEF HintsAreAdvertised

\* Rules, rejections and the metadata document agree about scopes: a client
\* that asks for what it is told can pass, and is told of nothing else.
THEOREM HintsAreTrue == Spec => []HintsAreExact
<1>1. IInv => HintsAreExact
  BY HintInv, AdvertisedInv DEF HintsAreExact
<1> QED  BY <1>1, PolicyInvariant, PTL
-----------------------------------------------------------------------------
(* The server of bound resources.                                           *)


\* A definition with what is derived from it.
BoundOf(d) ==
    [definition |-> d, endpoint |-> Endpoint(d), advertised |-> Url(d)]

BoundType == {BoundOf(d) : d \in Definitions}

EndpointType == {WithMapping(Endpoint(d)) :
                   d \in {d \in Definitions : d.public \in DOMAIN Incoming}}

\* The published endpoints are those of the first of the bound resources, mapped
\* to where requests for them arrive.
Collected ==
    /\ bound \in Seq(BoundType) /\ published \in Seq(EndpointType)
    /\ Len(published) <= Len(bound)
    /\ \A i \in DOMAIN published :
         /\ bound[i].definition.public \in DOMAIN Incoming
         /\ published[i] = WithMapping(bound[i].endpoint)

Mounts == [i \in DOMAIN published |-> bound[i].definition.mount]

NamesOfMounts == [i \in DOMAIN published |-> bound[i].definition.name]

\* No two endpoints answer the same request.
EndpointsDiffer ==
    \A i, j \in DOMAIN published :
      published[i].path = published[j].path
      /\ published[i].query = published[j].query => i = j

\* security.txt comes last, and takes no metadata path.
SecurityIsApart ==
    security # {} =>
      /\ Len(published) = Len(bound) /\ phase # "binding"
      /\ SecurityPath \in DOMAIN Incoming
      /\ security = {Incoming[SecurityPath]}
      /\ Incoming[SecurityPath] \notin MetadataPaths

Table ==
    MetadataRoutes(MetadataPaths) \cup SecurityRoutes
    \cup UNION {MountRoutes(bound[i].definition) : i \in DOMAIN bound}

Stages ==
    /\ phase \in {"binding", "collecting", "serving", "rejected"}
    /\ phase = "binding" => published = <<>> /\ security = {}
    /\ IF phase = "serving"
       THEN table = Table /\ Len(published) = Len(bound)
       ELSE request = NoRequest

\* Requests have the answer of the route that their path selects.
RequestIsRouted ==
    request # NoRequest =>
      /\ request.path \in Paths
      /\ \/ request.answer = Answer("denied", "none")
         \/ request.answer = AnswerFor(Select(request.path), request.path,
                                       request.query, request.method)

ServerIInv ==
    Collected /\ Apart(Mounts) /\ EndpointsDiffer /\ SecurityIsApart /\ Stages
    /\ RequestIsRouted

LEMMA PathsAreUrlPaths ==
  /\ Paths \subseteq UrlPath
  /\ \A p \in DOMAIN Incoming : Incoming[p] \in UrlPath
  /\ \A d \in Definitions : d.mount \in UrlPath /\ d.resource \in UrlPath
<1>1. Seq(STRING) \subseteq Seq(Segment)
  BY SeqMonotonic DEF Segment
<1> QED  BY <1>1, ServerAssumption DEF UrlPath

LEMMA BoundFacts ==
  ASSUME Collected
  PROVE  /\ DOMAIN bound = 1 .. Len(bound) /\ Len(bound) \in Nat
         /\ DOMAIN published = 1 .. Len(published) /\ Len(published) \in Nat
         /\ \A i \in DOMAIN published : i \in DOMAIN bound
         /\ \A i \in DOMAIN bound :
              /\ bound[i].definition \in Definitions
              /\ bound[i] = BoundOf(bound[i].definition)
<1>1. /\ bound \in Seq(BoundType) /\ published \in Seq(EndpointType)
      /\ Len(published) <= Len(bound)
  BY DEF Collected
<1>2. /\ DOMAIN bound = 1 .. Len(bound) /\ Len(bound) \in Nat
      /\ DOMAIN published = 1 .. Len(published) /\ Len(published) \in Nat
  BY <1>1, LenProperties
<1>3. ASSUME NEW i \in DOMAIN bound
      PROVE  /\ bound[i].definition \in Definitions
             /\ bound[i] = BoundOf(bound[i].definition)
  <2>1. bound[i] \in BoundType
    BY <1>1, <1>2, ElementOfSeq
  <2>2. PICK d \in Definitions : bound[i] = BoundOf(d)
    BY <2>1 DEF BoundType
  <2>3. BoundOf(d).definition = d
    BY DEF BoundOf
  <2> QED  BY <2>2, <2>3
<1> QED  BY <1>1, <1>2, <1>3

\* A sequence with one more element.
LEMMA Appended ==
  ASSUME NEW S, NEW q \in Seq(S), NEW e \in S
  PROVE  /\ Append(q, e) \in Seq(S)
         /\ Len(Append(q, e)) = Len(q) + 1
         /\ DOMAIN Append(q, e) = 1 .. Len(q) + 1
         /\ \A i \in 1 .. Len(q) : Append(q, e)[i] = q[i]
         /\ Append(q, e)[Len(q) + 1] = e
OBVIOUS

LEMMA ServerInitIInv == ServerInit => ServerIInv
<1> SUFFICES ASSUME ServerInit PROVE ServerIInv
  OBVIOUS
<1>1. \A S : <<>> \in Seq(S) /\ Len(<<>>) = 0 /\ DOMAIN <<>> = {}
  BY EmptySeq
<1> QED
  BY <1>1 DEF ServerInit, ServerIInv, Collected, Apart, Mounts,
     EndpointsDiffer, SecurityIsApart, Stages, RequestIsRouted

LEMMA BindStep ==
  ASSUME ServerIInv, NEW d \in Definitions, NEW url, Bind(d, url)
  PROVE  ServerIInv'
<1>1. /\ phase = "binding" /\ published = <<>> /\ security = {}
      /\ request = NoRequest
      /\ UNCHANGED <<published, security, table, request>>
      /\ phase' \in {"binding", "rejected"}
  BY DEF Bind, ServerIInv, Stages
<1>2. \A S : <<>> \in Seq(S) /\ Len(<<>>) = 0 /\ DOMAIN <<>> = {}
  BY EmptySeq
<1>3. bound' \in Seq(BoundType)
  <2>1. CASE UNCHANGED bound
    BY <2>1 DEF ServerIInv, Collected
  <2>2. CASE Bindable(d, url) /\ bound' = Append(bound, BoundProxy(d, url))
    <3>1. BoundProxy(d, url) = BoundOf(d)
      BY <2>2 DEF Bindable, BoundProxy, BoundOf
    <3>2. BoundProxy(d, url) \in BoundType /\ bound \in Seq(BoundType)
      BY <3>1 DEF BoundType, ServerIInv, Collected
    <3> QED  BY <2>2, <3>2, Appended
  <2> QED  BY <2>1, <2>2 DEF Bind
<1>4. Len(bound') \in Nat
  BY <1>3, LenProperties
<1> QED
  BY <1>1, <1>2, <1>3, <1>4
    DEF ServerIInv, Collected, Apart, Mounts, EndpointsDiffer,
        SecurityIsApart, Stages, RequestIsRouted

\* The server is put together further, or not at all.
LEMMA StageStep ==
  ASSUME ServerIInv, phase # "serving", phase' \in {"collecting", "rejected"},
         UNCHANGED <<bound, published, security, table, request>>
  PROVE  ServerIInv'
<1>1. request = NoRequest
  BY DEF ServerIInv, Stages
<1> QED
  BY <1>1 DEF ServerIInv, Collected, Apart, Mounts, EndpointsDiffer,
     SecurityIsApart, MetadataPaths, Stages, RequestIsRouted

LEMMA CollectStep ==
  ASSUME ServerIInv, Collect
  PROVE  ServerIInv'
<1>1. CASE phase' = "rejected" /\ UNCHANGED published
  BY <1>1, StageStep DEF Collect
<1>2. CASE /\ Collectable(NextResource.definition)
           /\ ~PublishConflict(published, WithMapping(NextResource.endpoint))
           /\ published' = Append(published,
                                  WithMapping(NextResource.endpoint))
           /\ UNCHANGED phase
  <2> DEFINE n == Len(published)
             d == NextResource.definition
             e == WithMapping(NextResource.endpoint)
  <2>1. /\ phase = "collecting" /\ n < Len(bound) /\ security = {}
        /\ UNCHANGED <<phase, bound, security, table, request>>
    BY <1>2 DEF Collect, ServerIInv, SecurityIsApart
  <2>2. /\ n \in Nat /\ DOMAIN published = 1 .. n /\ n + 1 \in DOMAIN bound
        /\ published \in Seq(EndpointType) /\ Len(bound) \in Nat
    BY <2>1, BoundFacts DEF ServerIInv, Collected
  <2>3. /\ NextResource = bound[n + 1] /\ d \in Definitions
        /\ NextResource = BoundOf(d)
    BY <2>2, BoundFacts DEF NextResource, ServerIInv
  <2>4. d.public \in DOMAIN Incoming
    BY <1>2 DEF Collectable, Refused
  <2>5. e \in EndpointType
    <3>1. NextResource.endpoint = Endpoint(d)
      BY <2>3 DEF BoundOf
    <3> QED  BY <2>3, <2>4, <3>1 DEF EndpointType
  <2>6. published' = Append(published, e)
    BY <1>2
  <2> HIDE DEF d, e
  <2>7. /\ published' \in Seq(EndpointType) /\ Len(published') = n + 1
        /\ DOMAIN published' = 1 .. n + 1
        /\ \A i \in 1 .. n : published'[i] = published[i]
        /\ published'[n + 1] = e
    BY <2>2, <2>5, <2>6, Appended
  <2>8. \A i \in 1 .. n + 1 : i \in 1 .. n \/ i = n + 1
    BY <2>2
  <2> HIDE DEF n
  <2>9. Collected'
    <3>1. Len(published') <= Len(bound')
      BY <2>1, <2>2, <2>7
    <3>2. ASSUME NEW i \in 1 .. n + 1
          PROVE  /\ bound[i].definition.public \in DOMAIN Incoming
                 /\ published'[i] = WithMapping(bound[i].endpoint)
      <4>1. CASE i \in 1 .. n
        BY <2>2, <2>7, <4>1 DEF ServerIInv, Collected
      <4>2. CASE i = n + 1
        BY <2>3, <2>4, <2>7, <4>2 DEF d, e
      <4> QED  BY <2>8, <4>1, <4>2
    <3> QED  BY <2>1, <2>7, <3>1, <3>2
               DEF ServerIInv, Collected, WithMapping
  <2>10. Apart(Mounts)'
    <3>1. \A i \in 1 .. n :
            /\ ~Beneath(bound[i].definition.mount,
                        bound[n + 1].definition.mount)
            /\ ~Beneath(bound[n + 1].definition.mount,
                        bound[i].definition.mount)
      BY <1>2, <2>2, <2>3 DEF Collectable, Refused
    <3>2. \A i, j \in 1 .. n : i # j =>
            ~Beneath(bound[i].definition.mount, bound[j].definition.mount)
      BY <2>2 DEF ServerIInv, Apart, Mounts
    <3> QED  BY <2>1, <2>7, <2>8, <3>1, <3>2 DEF Apart, Mounts
  <2>11. EndpointsDiffer'
    <3>1. \A i \in 1 .. n :
            ~(published[i].path = e.path /\ published[i].query = e.query)
      BY <1>2, <2>2 DEF PublishConflict, e
    <3>2. \A i, j \in 1 .. n :
            published[i].path = published[j].path
            /\ published[i].query = published[j].query => i = j
      BY <2>2 DEF ServerIInv, EndpointsDiffer
    <3> QED  BY <2>7, <2>8, <3>1, <3>2 DEF EndpointsDiffer
  <2>12. request' = NoRequest /\ Stages'
    BY <2>1 DEF ServerIInv, Stages
  <2> QED
    BY <2>1, <2>9, <2>10, <2>11, <2>12
      DEF ServerIInv, SecurityIsApart, RequestIsRouted
<1> QED  BY <1>1, <1>2 DEF Collect

LEMMA SecurityStep ==
  ASSUME ServerIInv, AddSecurityTxt
  PROVE  ServerIInv'
<1>1. CASE phase' = "rejected" /\ UNCHANGED security
  BY <1>1, StageStep DEF AddSecurityTxt
<1>2. CASE /\ ~SecurityConflict /\ security' = {Incoming[SecurityPath]}
           /\ UNCHANGED phase
  <2>1. /\ phase = "collecting" /\ Len(published) = Len(bound)
        /\ UNCHANGED <<phase, bound, published, table, request>>
        /\ request = NoRequest
    BY <1>2 DEF AddSecurityTxt, ServerIInv, Stages
  <2> QED
    BY <1>2, <2>1
      DEF ServerIInv, Collected, Apart, Mounts, EndpointsDiffer,
          SecurityIsApart, SecurityConflict, MetadataPaths, Stages,
          RequestIsRouted
<1> QED  BY <1>1, <1>2 DEF AddSecurityTxt

LEMMA InstallStep ==
  ASSUME ServerIInv, InstallRoutes
  PROVE  ServerIInv'
<1>1. CASE phase' = "rejected" /\ UNCHANGED table
  BY <1>1, StageStep DEF InstallRoutes
<1>2. CASE phase' = "serving" /\ table' = Table
  <2>1. /\ Len(published) = Len(bound) /\ request = NoRequest
        /\ UNCHANGED <<bound, published, security, request>>
    BY DEF InstallRoutes, ServerIInv, Stages
  <2>2. Table' = Table /\ MetadataPaths' = MetadataPaths
    BY <2>1 DEF Table, MetadataRoutes, SecurityRoutes, MountRoutes,
       MetadataPaths
  <2> QED
    BY <1>2, <2>1, <2>2
      DEF ServerIInv, Collected, Apart, Mounts, EndpointsDiffer,
          SecurityIsApart, Stages, RequestIsRouted
<1> QED  BY <1>1, <1>2 DEF InstallRoutes, Table

\* While the server runs nothing but its request changes.
LEMMA ServingStep ==
  ASSUME ServerIInv, phase = "serving" \/ UNCHANGED request,
         UNCHANGED <<phase, bound, published, security, table>>,
         RequestIsRouted'
  PROVE  ServerIInv'
<1>1. Table' = Table /\ MetadataPaths' = MetadataPaths
  BY DEF Table, MetadataRoutes, SecurityRoutes, MountRoutes, MetadataPaths
<1> QED
  BY <1>1 DEF ServerIInv, Collected, Apart, Mounts, EndpointsDiffer,
     SecurityIsApart, Stages

LEMMA ServeStep ==
  ASSUME ServerIInv, NEW path \in Paths, NEW query, NEW method,
         Serve(path, query, method)
  PROVE  ServerIInv'
<1>1. /\ phase = "serving"
      /\ UNCHANGED <<phase, bound, published, security, table>>
  BY DEF Serve
<1>2. PICK answer \in {AnswerFor(Select(path), path, query, method),
                       Answer("denied", "none")} :
        request' = [path |-> path, query |-> query, method |-> method,
                    answer |-> answer]
  BY DEF Serve
<1>3. /\ request'.path = path /\ request'.query = query
      /\ request'.method = method /\ request'.answer = answer
  BY <1>2
<1>4. AnswerFor(Select(request.path), request.path, request.query,
                request.method)'
        = AnswerFor(Select(path), path, query, method)
  BY <1>1, <1>3 DEF AnswerFor, Select, DefinitionOf
<1>5. RequestIsRouted'
  BY <1>2, <1>3, <1>4 DEF RequestIsRouted
<1> QED  BY <1>1, <1>5, ServingStep

\* Whatever is bound, in any order and with any failure, what the router serves
\* is built from the mapped endpoints of the bound resources, whose mounts lie
\* apart.
THEOREM ServerInvariant == ServerSpec => []ServerIInv
<1>1. ServerIInv /\ [ServerNext]_server_vars => ServerIInv'
  <2> SUFFICES ASSUME ServerIInv, [ServerNext]_server_vars PROVE ServerIInv'
    OBVIOUS
  <2>1. ASSUME NEW d \in Definitions, NEW url \in ValidatorUrls \cup {NoUrl},
               Bind(d, url)
        PROVE  ServerIInv'
    BY <2>1, BindStep
  <2>2. CASE BuildRouter
    BY <2>2, StageStep DEF BuildRouter
  <2>3. CASE Collect
    BY <2>3, CollectStep
  <2>4. CASE AddSecurityTxt
    BY <2>4, SecurityStep
  <2>5. CASE InstallRoutes
    BY <2>5, InstallStep
  <2>6. ASSUME NEW path \in Paths, NEW query \in Queries,
               NEW method \in Methods, Serve(path, query, method)
        PROVE  ServerIInv'
    BY <2>6, ServeStep
  <2>7. CASE UNCHANGED server_vars
    <3>1. /\ UNCHANGED <<phase, bound, published, security, table>>
          /\ UNCHANGED request
      BY <2>7 DEF server_vars
    <3>2. RequestIsRouted'
      BY <3>1 DEF ServerIInv, RequestIsRouted, AnswerFor, Select, DefinitionOf
    <3> QED  BY <3>1, <3>2, ServingStep
  <2> QED
    BY <2>1, <2>2, <2>3, <2>4, <2>5, <2>6, <2>7 DEF ServerNext, Rejected
<1> QED  BY <1>1, ServerInitIInv, PTL DEF ServerSpec
-----------------------------------------------------------------------------
(* Selection.                                                               *)

LEMMA ServingFacts ==
  ASSUME ServerIInv, phase = "serving"
  PROVE  /\ table = Table
         /\ DOMAIN published = DOMAIN bound
         /\ PublicPaths \subseteq UrlPath
         /\ PublicPaths = MetadataPaths \cup security
         /\ MetadataPaths \cap security = {}
         /\ \A i \in DOMAIN bound :
              bound[i].definition.mount \in UrlPath
              /\ bound[i].definition.resource \in UrlPath
<1>1. table = Table /\ DOMAIN published = DOMAIN bound
  BY BoundFacts DEF ServerIInv, Stages
<1>2. PublicPaths = MetadataPaths \cup security
  BY DEF PublicPaths, MetadataPaths
<1>3. \A p \in MetadataPaths : p \in UrlPath
  <2>1. ASSUME NEW i \in DOMAIN published
        PROVE  published[i].path \in UrlPath
    <3>1. published[i] \in EndpointType
      BY ElementOfSeq, BoundFacts DEF ServerIInv, Collected
    <3>2. PICK d \in Definitions : /\ d.public \in DOMAIN Incoming
                                  /\ published[i] = WithMapping(Endpoint(d))
      BY <3>1 DEF EndpointType
    <3>3. published[i].path = Incoming[d.public]
      BY <3>2 DEF WithMapping, Endpoint
    <3> QED  BY <3>2, <3>3, PathsAreUrlPaths
  <2> QED  BY <2>1 DEF MetadataPaths
<1>4. \A p \in security : p \in UrlPath /\ p \notin MetadataPaths
  BY PathsAreUrlPaths DEF ServerIInv, SecurityIsApart
<1>5. \A i \in DOMAIN bound :
        bound[i].definition.mount \in UrlPath
        /\ bound[i].definition.resource \in UrlPath
  BY BoundFacts, PathsAreUrlPaths DEF ServerIInv
<1> QED  BY <1>1, <1>2, <1>3, <1>4, <1>5

\* A route of the table is the publisher's, that of security.txt, or one of a
\* mount.
LEMMA RoutesOfTable ==
  ASSUME ServerIInv, phase = "serving", NEW r \in table
  PROVE  \/ \E p \in MetadataPaths :
              r = [path |-> p, rest |-> FALSE, target |-> "publisher"]
         \/ \E p \in security :
              r = [path |-> p, rest |-> FALSE, target |-> "security_txt"]
         \/ \E i \in DOMAIN bound :
              \E p \in MountPatterns(bound[i].definition.mount, PublicPaths) :
                r = [path |-> p.path, rest |-> p.rest,
                     target |-> bound[i].definition.name]
<1>1. table = Table /\ PublicPaths = MetadataPaths \cup security
  BY ServingFacts
<1>2. CASE r \in MetadataRoutes(MetadataPaths)
  BY <1>2 DEF MetadataRoutes
<1>3. CASE r \in SecurityRoutes
  BY <1>3 DEF SecurityRoutes
<1>4. CASE \E i \in DOMAIN bound : r \in MountRoutes(bound[i].definition)
  BY <1>1, <1>4 DEF MountRoutes
<1> QED  BY <1>1, <1>2, <1>3, <1>4 DEF Table

LEMMA TableOfMounts ==
  ASSUME ServerIInv, phase = "serving"
  PROVE  IsMountTable(table, PublicPaths, Mounts, NamesOfMounts)
<1>1. /\ table = Table /\ DOMAIN published = DOMAIN bound
      /\ PublicPaths \subseteq UrlPath
      /\ PublicPaths = MetadataPaths \cup security
  BY ServingFacts
<1>2. /\ DOMAIN Mounts = DOMAIN bound
      /\ \A i \in DOMAIN bound : Mounts[i] = bound[i].definition.mount
                                 /\ NamesOfMounts[i] = bound[i].definition.name
  BY <1>1 DEF Mounts, NamesOfMounts
<1>3. \A i \in DOMAIN Mounts : Mounts[i] \in UrlPath
  BY <1>2, ServingFacts
<1>4. ASSUME NEW r \in table
      PROVE  \/ \E path \in PublicPaths :
                  ~r.rest /\ r.rest \in BOOLEAN /\ r.path = path
             \/ \E i \in DOMAIN Mounts :
                  /\ r.target = NamesOfMounts[i]
                  /\ \E p \in MountPatterns(Mounts[i], PublicPaths) :
                       r.path = p.path /\ r.rest = p.rest
  <2>1. CASE \E p \in MetadataPaths :
               r = [path |-> p, rest |-> FALSE, target |-> "publisher"]
    <3>1. PICK p \in MetadataPaths :
                 r = [path |-> p, rest |-> FALSE, target |-> "publisher"]
      BY <2>1
    <3> QED  BY <1>1, <3>1
  <2>2. CASE \E p \in security :
               r = [path |-> p, rest |-> FALSE, target |-> "security_txt"]
    <3>1. PICK p \in security :
                 r = [path |-> p, rest |-> FALSE, target |-> "security_txt"]
      BY <2>2
    <3> QED  BY <1>1, <3>1
  <2>3. ASSUME NEW i \in DOMAIN bound,
               NEW p \in MountPatterns(bound[i].definition.mount, PublicPaths),
               r = [path |-> p.path, rest |-> p.rest,
                    target |-> bound[i].definition.name]
        PROVE  /\ r.target = NamesOfMounts[i]
               /\ p \in MountPatterns(Mounts[i], PublicPaths)
               /\ r.path = p.path /\ r.rest = p.rest
    BY <1>2, <2>3
  <2> QED  BY <1>2, <2>1, <2>2, <2>3, RoutesOfTable
<1>5. ASSUME NEW path \in PublicPaths
      PROVE  \E r \in table : ~r.rest /\ r.path = path
  <2>1. CASE path \in MetadataPaths
    <3>1. [path |-> path, rest |-> FALSE, target |-> "publisher"] \in table
      BY <1>1, <2>1 DEF Table, MetadataRoutes
    <3> QED  BY <3>1
  <2>2. CASE path \in security
    <3>1. [path |-> path, rest |-> FALSE, target |-> "security_txt"] \in table
      BY <1>1, <2>2 DEF Table, SecurityRoutes
    <3> QED  BY <3>1
  <2> QED  BY <1>1, <2>1, <2>2
<1>6. ASSUME NEW i \in DOMAIN Mounts,
             NEW p \in MountPatterns(Mounts[i], PublicPaths)
      PROVE  \E r \in table : r.path = p.path /\ r.rest = p.rest
  <2> DEFINE route == [path |-> p.path, rest |-> p.rest,
                       target |-> bound[i].definition.name]
  <2>1. route \in MountRoutes(bound[i].definition) /\ i \in DOMAIN bound
    BY <1>1, <1>2 DEF MountRoutes
  <2>2. route \in table
    BY <1>1, <2>1 DEF Table
  <2> QED  BY <2>2
<1> QED  BY <1>1, <1>3, <1>4, <1>5, <1>6 DEF IsMountTable

\* Where a path leads.
LEMMA SelectedTarget ==
  ASSUME ServerIInv, phase = "serving", NEW path \in Paths
  PROVE  /\ path \in MetadataPaths => Select(path) = "publisher"
         /\ path \in security => Select(path) = "security_txt"
         /\ path \notin PublicPaths =>
              /\ \A i \in DOMAIN bound :
                   Beneath(bound[i].definition.mount, path) =>
                     Select(path) = bound[i].definition.name
              /\ (\A i \in DOMAIN bound :
                    ~Beneath(bound[i].definition.mount, path)) =>
                   Select(path) = "fallback"
<1> USE TableOfMounts
<1>1. /\ path \in UrlPath /\ DOMAIN published = DOMAIN bound
      /\ PublicPaths = MetadataPaths \cup security
      /\ MetadataPaths \cap security = {}
  BY PathsAreUrlPaths, ServingFacts
<1>2. ASSUME Selected(table, path) # {}
      PROVE  \E r \in Selected(table, path) : Select(path) = r.target
  BY <1>2 DEF Select
<1>3. ASSUME path \in PublicPaths
      PROVE  /\ path \in MetadataPaths => Select(path) = "publisher"
             /\ path \in security => Select(path) = "security_txt"
  <2>1. /\ Selected(table, path) # {}
        /\ \A r \in Selected(table, path) :
             r \in table /\ ~r.rest /\ r.path = path
    BY <1>3, PublicPathIsSelected
  <2>2. PICK r \in table : ~r.rest /\ r.path = path /\ Select(path) = r.target
    BY <1>2, <2>1
  <2>3. CASE \E p \in MetadataPaths :
               r = [path |-> p, rest |-> FALSE, target |-> "publisher"]
    BY <1>1, <2>2, <2>3
  <2>4. CASE \E p \in security :
               r = [path |-> p, rest |-> FALSE, target |-> "security_txt"]
    BY <1>1, <2>2, <2>4
  <2>5. ASSUME NEW i \in DOMAIN bound,
               NEW p \in MountPatterns(bound[i].definition.mount, PublicPaths),
               r = [path |-> p.path, rest |-> p.rest,
                    target |-> bound[i].definition.name]
        PROVE  FALSE
    <3>1. r.path = p.path /\ r.rest = p.rest
      BY <2>5
    <3>2. bound[i].definition.mount \in UrlPath
      BY ServingFacts
    <3>3. ~p.rest => p.path \notin PublicPaths
      BY <3>2, MountPatternFacts
    <3> QED  BY <1>3, <2>2, <3>1, <3>3
  <2> QED  BY <2>3, <2>4, <2>5, RoutesOfTable
<1>4. ASSUME path \notin PublicPaths
      PROVE  /\ \A i \in DOMAIN bound :
                  Beneath(bound[i].definition.mount, path) =>
                    Select(path) = bound[i].definition.name
             /\ (\A i \in DOMAIN bound :
                   ~Beneath(bound[i].definition.mount, path)) =>
                  Select(path) = "fallback"
  <2>1. /\ \A i \in DOMAIN Mounts :
             Beneath(Mounts[i], path) =>
               /\ Selected(table, path) # {}
               /\ \A r \in Selected(table, path) : r.target = NamesOfMounts[i]
        /\ (\A i \in DOMAIN Mounts : ~Beneath(Mounts[i], path)) =>
             Selected(table, path) = {}
    BY <1>1, <1>4, MountIsSelected DEF ServerIInv
  <2>2. /\ DOMAIN Mounts = DOMAIN bound
        /\ \A i \in DOMAIN bound :
             /\ Mounts[i] = bound[i].definition.mount
             /\ NamesOfMounts[i] = bound[i].definition.name
    BY <1>1 DEF Mounts, NamesOfMounts
  <2>3. ASSUME NEW i \in DOMAIN bound, Beneath(bound[i].definition.mount, path)
        PROVE  Select(path) = bound[i].definition.name
    BY <1>2, <2>1, <2>2, <2>3
  <2>4. ASSUME \A i \in DOMAIN bound :
                 ~Beneath(bound[i].definition.mount, path)
        PROVE  Select(path) = "fallback"
    <3>1. Selected(table, path) = {}
      BY <2>1, <2>2, <2>4
    <3> QED  BY <3>1 DEF Select
  <2> QED  BY <2>3, <2>4
<1> QED  BY <1>1, <1>3, <1>4

\* The definition that a name stands for.
LEMMA NamedDefinition ==
  ASSUME ServerIInv, NEW i \in DOMAIN bound
  PROVE  DefinitionOf(bound[i].definition.name) = bound[i].definition
<1> DEFINE name == bound[i].definition.name
           b == CHOOSE b \in {bound[j] : j \in DOMAIN bound} :
                  b.definition.name = name
<1>1. b \in {bound[j] : j \in DOMAIN bound} /\ b.definition.name = name
  OBVIOUS
<1>2. PICK j \in DOMAIN bound : b = bound[j]
  BY <1>1
<1>3. /\ bound[i].definition \in Definitions
      /\ bound[j].definition \in Definitions
      /\ bound[j].definition.name = bound[i].definition.name
  BY <1>1, <1>2, BoundFacts DEF ServerIInv
<1>4. bound[j].definition = bound[i].definition
  BY <1>3, ServerAssumption
<1>5. DefinitionOf(name) = b.definition
  BY DEF DefinitionOf
<1> QED  BY <1>2, <1>4, <1>5

-----------------------------------------------------------------------------
(* Answers.                                                                 *)

\* A request that was answered came while the server ran.
LEMMA AnsweredRequest ==
  ASSUME ServerIInv, Answered
  PROVE  /\ phase = "serving" /\ request.path \in Paths
         /\ request.answer = AnswerFor(Select(request.path), request.path,
                                       request.query, request.method)
<1>1. /\ NoRequest.answer.kind = "none"
      /\ Answer("denied", "none").kind = "denied"
  BY DEF NoRequest, Answer
<1>2. request # NoRequest /\ request.answer # Answer("denied", "none")
  BY <1>1 DEF Answered
<1> QED  BY <1>2 DEF ServerIInv, Stages, RequestIsRouted

\* What the routes answer.
LEMMA RoutedAnswer ==
  ASSUME ServerIInv, Answered
  PROVE  /\ request.path \in MetadataPaths =>
              request.answer = PublisherAnswer(published, request.path,
                                               request.query, request.method)
         /\ request.path \in security =>
              request.answer = SecurityAnswer(request.method)
         /\ request.path \notin PublicPaths =>
              /\ Owners = {} => request.answer = Answer("fallback", "none")
              /\ \A i \in Owners :
                   request.answer
                     = Answer("authorize", bound[i].definition.name)
<1>1. /\ phase = "serving" /\ request.path \in Paths
      /\ request.path \in UrlPath
      /\ request.answer = AnswerFor(Select(request.path), request.path,
                                    request.query, request.method)
  BY AnsweredRequest, PathsAreUrlPaths
<1>0. \A i \in DOMAIN bound :
        bound[i].definition.name \notin {"publisher", "security_txt",
                                        "fallback"}
  BY BoundFacts, ServerAssumption DEF ServerIInv
<1>2. ASSUME request.path \in MetadataPaths
      PROVE  request.answer = PublisherAnswer(published, request.path,
                                              request.query, request.method)
  <2>1. Select(request.path) = "publisher"
    BY <1>1, <1>2, SelectedTarget
  <2> QED  BY <1>0, <1>1, <2>1 DEF AnswerFor
<1>3. ASSUME request.path \in security
      PROVE  request.answer = SecurityAnswer(request.method)
  <2>1. Select(request.path) = "security_txt"
    BY <1>1, <1>3, SelectedTarget
  <2> QED  BY <1>0, <1>1, <2>1 DEF AnswerFor
<1>4. ASSUME request.path \notin PublicPaths, Owners = {}
      PROVE  request.answer = Answer("fallback", "none")
  <2>1. Select(request.path) = "fallback"
    BY <1>1, <1>4, SelectedTarget DEF Owners
  <2> QED  BY <1>0, <1>1, <2>1 DEF AnswerFor
<1>5. ASSUME request.path \notin PublicPaths, NEW i \in Owners
      PROVE  request.answer = Answer("authorize", bound[i].definition.name)
  <2> DEFINE d == bound[i].definition
  <2>1. i \in DOMAIN bound /\ Beneath(d.mount, request.path)
    BY DEF Owners
  <2>2. Select(request.path) = d.name
    BY <1>1, <1>5, <2>1, SelectedTarget
  <2>3. d \in Definitions
    BY <2>1, BoundFacts DEF ServerIInv
  <2>4. d.name \notin {"publisher", "security_txt", "fallback"}
    BY <2>3, ServerAssumption
  <2>5. d.name \in {bound[j].definition.name : j \in DOMAIN bound}
    BY <2>1
  <2>6. request.answer = BranchAnswer(DefinitionOf(d.name), request.path)
    BY <1>1, <2>2, <2>4, <2>5 DEF AnswerFor
  <2>7. DefinitionOf(d.name) = d
    BY <2>1, NamedDefinition
  <2>8. d.mount \in UrlPath /\ d.resource \in UrlPath
    BY <2>3, PathsAreUrlPaths
  <2> QED  BY <1>1, <2>1, <2>6, <2>7, <2>8, MountIsInResource
<1> QED  BY <1>2, <1>3, <1>4, <1>5

\* AdvertisedMetadataIsServed: the URL that a bound resource's challenges name
\* leads, through the mapping, to that resource's document (build_router,
\* ResourceMetadataProxy).
THEOREM AdvertisementsAreServed ==
  ServerSpec => []AdvertisedMetadataIsServed
<1>1. ASSUME ServerIInv, Answered, NEW i \in DOMAIN bound,
             Asks(bound[i].advertised)
      PROVE  request.answer =
               IF request.method \in {"GET", "HEAD"}
               THEN Answer("document", bound[i].definition.name)
               ELSE Answer("not_allowed", "none")
  <2> DEFINE d == bound[i].definition
             matching == {j \in DOMAIN published :
                            Matches(published[j], request.path, request.query)}
  <2>1. phase = "serving" /\ DOMAIN published = DOMAIN bound
    BY <1>1, AnsweredRequest, ServingFacts
  <2>2. bound[i] = BoundOf(d)
    BY <1>1, BoundFacts DEF ServerIInv
  <2>3. /\ bound[i].advertised = Url(d) /\ bound[i].endpoint = Endpoint(d)
    BY <2>2 DEF BoundOf
  <2>4. published[i] = WithMapping(Endpoint(d))
    <3>1. \A j \in DOMAIN published :
            published[j] = WithMapping(bound[j].endpoint)
      BY <1>1 DEF ServerIInv, Collected
    <3> QED  BY <2>1, <2>3, <3>1
  <2>5. /\ published[i].path = Incoming[d.public]
        /\ published[i].query = d.query /\ published[i].name = d.name
    BY <2>4 DEF WithMapping, Endpoint
  <2>6. request.path = Incoming[d.public] /\ request.query = d.query
    BY <1>1, <2>3 DEF Asks, Url
  <2>7. request.path \in MetadataPaths
    BY <2>1, <2>5, <2>6 DEF MetadataPaths
  <2>8. i \in matching
    BY <2>1, <2>5, <2>6 DEF Matches
  <2>9. \A j \in matching : j = i
    <3>1. \A j, k \in DOMAIN published :
            published[j].path = published[k].path
            /\ published[j].query = published[k].query => j = k
      BY <1>1 DEF ServerIInv, EndpointsDiffer
    <3> QED  BY <2>1, <2>5, <2>6, <3>1 DEF Matches
  <2>10. matching = {i} /\ i \in Nat
    BY <2>1, <2>8, <2>9, BoundFacts DEF ServerIInv
  <2>11. (CHOOSE j \in matching : \A k \in matching : j <= k) = i
    BY <2>10
  <2>12. request.answer = PublisherAnswer(published, request.path,
                                          request.query, request.method)
    BY <1>1, <2>7, RoutedAnswer
  <2> HIDE DEF d
  <2>13. CASE request.method \in {"GET", "HEAD"}
    BY <2>5, <2>10, <2>11, <2>12, <2>13 DEF PublisherAnswer, d
  <2>14. CASE request.method \notin {"GET", "HEAD"}
    BY <2>10, <2>12, <2>14 DEF PublisherAnswer
  <2> QED  BY <2>13, <2>14 DEF d
<1>2. ServerIInv => AdvertisedMetadataIsServed
  BY <1>1 DEF AdvertisedMetadataIsServed
<1> QED  BY <1>2, ServerInvariant, PTL

\* MountsAreGuarded: the public paths are the publisher's and security.txt's,
\* everything else of a mount goes to its guard, and nothing from outside
\* (build_router, MountRoutes).
THEOREM GuardsKeepTheirMounts == ServerSpec => []MountsAreGuarded
<1>1. ASSUME ServerIInv, Answered
      PROVE  SecurityTxtIsServed
  <2>1. ASSUME security # {}, request.path = Incoming[SecurityPath]
        PROVE  request.path \in security
    BY <1>1, <2>1 DEF ServerIInv, SecurityIsApart
  <2>2. ASSUME security # {}, request.path = Incoming[SecurityPath]
        PROVE  request.answer.kind =
                 IF request.method \in {"GET", "HEAD"} THEN "security_txt"
                 ELSE "not_allowed"
    <3>1. request.answer = SecurityAnswer(request.method)
      BY <1>1, <2>1, <2>2, RoutedAnswer
    <3> QED  BY <3>1 DEF SecurityAnswer, Answer
  <2> QED  BY <2>2 DEF SecurityTxtIsServed
<1>2. ASSUME ServerIInv, Answered, request.path \in PublicPaths
      PROVE  request.answer.kind \notin {"authorize", "outside_resource",
                                         "fallback"}
  <2>1. CASE request.path \in MetadataPaths
    <3>1. request.answer = PublisherAnswer(published, request.path,
                                           request.query, request.method)
      BY <1>2, <2>1, RoutedAnswer
    <3>2. PublisherAnswer(published, request.path, request.query,
                          request.method).kind
            \in {"not_found", "document", "not_allowed"}
      BY DEF PublisherAnswer, Answer
    <3> QED  BY <3>1, <3>2
  <2>2. CASE request.path \in security
    <3>1. request.answer = SecurityAnswer(request.method)
      BY <1>2, <2>2, RoutedAnswer
    <3> QED  BY <3>1 DEF SecurityAnswer, Answer
  <2> QED  BY <1>2, <2>1, <2>2, AnsweredRequest, ServingFacts
<1>3. ASSUME ServerIInv, Answered, request.path \notin PublicPaths
      PROVE  IF Owners = {} THEN request.answer.kind = "fallback"
             ELSE \E i \in Owners :
                    request.answer
                      = Answer("authorize", bound[i].definition.name)
  <2>1. CASE Owners = {}
    <3>1. request.answer = Answer("fallback", "none")
      BY <1>3, <2>1, RoutedAnswer
    <3> QED  BY <2>1, <3>1 DEF Answer
  <2>2. CASE Owners # {}
    BY <1>3, <2>2, RoutedAnswer
  <2> QED  BY <2>1, <2>2
<1>4. ServerIInv => MountsAreGuarded
  BY <1>1, <1>2, <1>3 DEF MountsAreGuarded
<1> QED  BY <1>4, ServerInvariant, PTL
=============================================================================
