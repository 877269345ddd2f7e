-------------------------- MODULE LoginRoutingProofs --------------------------
(***************************************************************************)
(* Proofs about what a login proxy's routes decide.  First, the            *)
(* construction of a LoginProxy (Spec, of LoginPolicy), for any methods,   *)
(* checks, patterns, request paths and number of rules.  Then the example  *)
(* application (AppSpec, of LoginApplication), for any mappings, pages,    *)
(* subjects and number of attempts.                                        *)
(***************************************************************************)
EXTENDS LoginPolicyInvariants, ApplicationInvariants, UrlPathProofs

-----------------------------------------------------------------------------
(* The inductive invariant.                                                 *)

Rules ==
    [level : Levels, check : Checks \cup {NoCheck}, method : MethodMatches,
     check_requested : BOOLEAN]

Asks ==
    [level : Levels, check : Checks \cup {NoCheck}, method : MethodMatches]

\* What the rule holds of what was asked of it.  A public rule has no room for
\* a check: that one was asked for is all that it remembers.
Holds(rule, asked) ==
    /\ rule.level = asked.level /\ rule.method = asked.method
    /\ IF rule.level = "public"
       THEN rule.check = NoCheck
            /\ (rule.check_requested <=> asked.check # NoCheck)
       ELSE rule.check = asked.check

Coherent(given) ==
    given.rule \in Rules /\ given.asked \in Asks
    /\ Holds(given.rule, given.asked)

Route == [kind : Kinds, pattern : Patterns, rule : Rules, asked : Asks]

RoutesAreCoherent ==
    /\ routes \in Seq(Route)
    /\ \A i \in DOMAIN routes : Coherent(routes[i])

\* The outcome that build gives for these routes and this default.
OutcomeIsOfBuild ==
    \/ outcome = Building
    \/ \E i \in FirstOffender :
         outcome = PublicRuleWithCheck(routes[i].pattern)
    \/ /\ FirstOffender = {} /\ PublicCheckRequested(Fallback.rule)
       /\ outcome = PublicRuleWithCheck(DefaultName)
    \/ /\ FirstOffender = {} /\ ~PublicCheckRequested(Fallback.rule)
       /\ \/ /\ RouterErrors(Registrations) = {}
             /\ outcome = [Building EXCEPT !.kind = "built"]
          \/ \E e \in RouterErrors(Registrations) :
               outcome = FromRouterError(e)

IInv ==
    /\ draft = NoRule \/ Coherent(draft)
    /\ RoutesAreCoherent
    /\ default = NoRule \/ Coherent(default)
    /\ OutcomeIsOfBuild

-----------------------------------------------------------------------------
(* Rules.                                                                   *)

LEMMA RoutesAreTyped ==
  ASSUME RoutesAreCoherent
  PROVE  /\ DOMAIN routes = 1 .. Len(routes) /\ Len(routes) \in Nat
         /\ \A i \in DOMAIN routes : routes[i] \in Route
BY DEF RoutesAreCoherent

LEMMA NewRuleIsCoherent ==
  ASSUME NEW level \in Levels, NEW method \in MethodMatches
  PROVE  Coherent([rule |-> WithMethod(Rule(level), method),
                   asked |-> [level |-> level, check |-> NoCheck,
                              method |-> method]])
BY DEF Coherent, Holds, Rules, Asks, Rule, WithMethod

LEMMA CheckedRuleIsCoherent ==
  ASSUME NEW given, Coherent(given), NEW f \in Checks
  PROVE  Coherent([rule |-> WithCheck(given.rule, f),
                   asked |-> [given.asked EXCEPT !.check = f]])
<1>1. f # NoCheck
  BY LoginPolicyAssumption
<1>2. CASE given.rule.level = "public"
  BY <1>1, <1>2 DEF Coherent, Holds, Rules, Asks, WithCheck
<1>3. CASE given.rule.level # "public"
  BY <1>1, <1>3 DEF Coherent, Holds, Rules, Asks, WithCheck
<1> QED  BY <1>2, <1>3

LEMMA RestrictedRuleIsCoherent ==
  ASSUME NEW given, Coherent(given), NEW method \in RequestMethods
  PROVE  Coherent([rule |-> WithMethod(given.rule, OneOf(method)),
                   asked |-> [given.asked EXCEPT !.method = {method}]])
BY DEF Coherent, Holds, Rules, Asks, WithMethod, OneOf, MethodMatches

LEMMA FallbackIsCoherent ==
  ASSUME default = NoRule \/ Coherent(default)
  PROVE  Coherent(Fallback)
<1>1. Coherent([rule |-> Rule("required"),
                asked |-> [level |-> "required", check |-> NoCheck,
                           method |-> AnyMethod]])
  BY DEF Coherent, Holds, Rules, Asks, Rule, MethodMatches, Levels
<1> QED  BY <1>1 DEF Fallback, DefaultRule

\* The public rules that remember a check are those it was asked of.
LEMMA MisplacedIsRemembered ==
  ASSUME NEW given, Coherent(given)
  PROVE  PublicCheckRequested(given.rule) <=> Misplaced(given.asked)
BY DEF Coherent, Holds, Rules, PublicCheckRequested, Misplaced

\* Of the routes with a misplaced check one is the first.
LEMMA FirstOffenderIsFirst ==
  ASSUME RoutesAreCoherent
  PROVE  LET offenders == {i \in DOMAIN routes : Misplaced(routes[i].asked)}
         IN  /\ FirstOffender = {} => offenders = {}
             /\ \A i \in FirstOffender :
                  /\ i \in offenders
                  /\ i = CHOOSE k \in offenders : \A j \in offenders : k <= j
<1> DEFINE offenders == {i \in DOMAIN routes : Misplaced(routes[i].asked)}
<1>1. DOMAIN routes = 1 .. Len(routes) /\ Len(routes) \in Nat
  BY RoutesAreTyped
<1>2. \A i \in DOMAIN routes :
        PublicCheckRequested(routes[i].rule) <=> i \in offenders
  BY MisplacedIsRemembered DEF RoutesAreCoherent
<1>3. offenders \in SUBSET Nat /\ offenders \subseteq DOMAIN routes
  BY <1>1
<1> HIDE DEF offenders
<1>4. ASSUME offenders # {}
      PROVE  FirstOffender # {}
  <2>1. PICK n \in offenders : \A m \in offenders : n <= m
    BY <1>3, <1>4, LeastNatural
  <2>2. \A j \in 1 .. n - 1 : j \in DOMAIN routes /\ j \notin offenders
    BY <1>1, <1>3, <2>1
  <2>3. n \in FirstOffender
    BY <1>2, <1>3, <2>1, <2>2 DEF FirstOffender
  <2> QED  BY <2>3
<1>5. ASSUME NEW i \in FirstOffender
      PROVE  /\ i \in offenders
             /\ i = CHOOSE k \in offenders : \A j \in offenders : k <= j
  <2>1. i \in offenders /\ i \in DOMAIN routes
    BY <1>2 DEF FirstOffender
  <2>2. \A j \in 1 .. i - 1 : j \notin offenders
    <3>1. \A j \in 1 .. i - 1 : j \in DOMAIN routes
      BY <1>1, <2>1
    <3> QED  BY <1>2, <3>1 DEF FirstOffender
  <2>3. \A j \in offenders : i <= j
    BY <1>1, <1>3, <2>1, <2>2
  <2>4. \A k \in offenders : (\A j \in offenders : k <= j) => k = i
    BY <1>1, <1>3, <2>1, <2>3
  <2> QED  BY <2>1, <2>3, <2>4
<1> QED  BY <1>4, <1>5 DEF offenders

-----------------------------------------------------------------------------
(* The invariant holds.                                                     *)

LEMMA InitIInv == Init => IInv
BY DEF Init, IInv, RoutesAreCoherent, OutcomeIsOfBuild

LEMMA NextIInv == IInv /\ [Next]_vars => IInv'
<1> SUFFICES ASSUME IInv, [Next]_vars PROVE IInv'
  OBVIOUS
<1> USE DEF IInv
<1>1. ASSUME NEW level \in Levels, NEW method \in MethodMatches,
             Draft(level, method)
      PROVE  IInv'
  <2>1. Coherent(draft')
    BY <1>1, NewRuleIsCoherent DEF Draft
  <2> QED  BY <1>1, <2>1
    DEF Draft, Writing, RoutesAreCoherent, Coherent, OutcomeIsOfBuild
<1>2. ASSUME NEW f \in Checks, AttachCheck(f)
      PROVE  IInv'
  <2>1. Coherent(draft')
    BY <1>2, CheckedRuleIsCoherent DEF AttachCheck
  <2> QED  BY <1>2, <2>1
    DEF AttachCheck, Writing, RoutesAreCoherent, Coherent, OutcomeIsOfBuild
<1>3. ASSUME NEW method \in RequestMethods, RestrictTo(method)
      PROVE  IInv'
  <2>1. Coherent(draft')
    BY <1>3, RestrictedRuleIsCoherent DEF RestrictTo
  <2> QED  BY <1>3, <2>1
    DEF RestrictTo, Writing, RoutesAreCoherent, Coherent, OutcomeIsOfBuild
<1>4. ASSUME NEW kind \in Kinds, NEW pattern \in Patterns,
             AddRoute(kind, pattern)
      PROVE  IInv'
  <2> DEFINE route == [kind |-> kind, pattern |-> pattern,
                       rule |-> draft.rule, asked |-> draft.asked]
  <2>1. /\ draft # NoRule /\ Coherent(draft) /\ outcome = Building
        /\ routes' = Append(routes, route)
        /\ draft' \in {NoRule, draft} /\ default' = default
        /\ outcome' = outcome
    BY <1>4 DEF AddRoute, Writing, HandedOver
  <2>2. route \in Route /\ Coherent(route)
    BY <2>1 DEF Coherent, Route
  <2>3. routes \in Seq(Route) /\ \A i \in DOMAIN routes : Coherent(routes[i])
    BY DEF RoutesAreCoherent
  <2> HIDE DEF route
  <2>4. /\ routes' \in Seq(Route)
        /\ \A i \in 1 .. Len(routes) : routes'[i] = routes[i]
        /\ routes'[Len(routes) + 1] = route
        /\ DOMAIN routes' = 1 .. Len(routes) + 1
        /\ DOMAIN routes = 1 .. Len(routes) /\ Len(routes) \in Nat
    BY <2>1, <2>2, <2>3
  <2>5. \A i \in DOMAIN routes' : Coherent(routes'[i])
    BY <2>2, <2>3, <2>4
  <2>6. RoutesAreCoherent'
    BY <2>4, <2>5 DEF RoutesAreCoherent, Coherent
  <2> QED  BY <2>1, <2>6 DEF Coherent, OutcomeIsOfBuild
<1>5. ASSUME SetDefault
      PROVE  IInv'
  BY <1>5 DEF SetDefault, HandedOver, Writing, RoutesAreCoherent, Coherent,
              OutcomeIsOfBuild
<1>6. ASSUME Build
      PROVE  IInv'
  <2>1. draft' = NoRule /\ routes' = routes /\ default' = default
    BY <1>6 DEF Build
  <2>2. /\ FirstOffender' = FirstOffender /\ Fallback' = Fallback
        /\ Registrations' = Registrations
    BY <2>1 DEF FirstOffender, Fallback, Registrations
  <2>3. RouterErrors(Registrations)' = RouterErrors(Registrations)
    BY <2>1 DEF Registrations
  <2>4. OutcomeIsOfBuild'
    BY <1>6, <2>1, <2>2, <2>3 DEF OutcomeIsOfBuild, Build
  <2> QED  BY <2>1, <2>4 DEF RoutesAreCoherent, Coherent
<1>7. ASSUME UNCHANGED vars
      PROVE  IInv'
  <2>1. /\ draft' = draft /\ routes' = routes /\ default' = default
        /\ outcome' = outcome
    BY <1>7 DEF vars
  <2>2. OutcomeIsOfBuild'
    BY <2>1 DEF OutcomeIsOfBuild, FirstOffender, Fallback, Registrations
  <2> QED  BY <2>1, <2>2 DEF RoutesAreCoherent, Coherent
<1> QED  BY <1>1, <1>2, <1>3, <1>4, <1>5, <1>6, <1>7
  DEF Next, Finished, Construct, WriteOut, MethodMatches

\* What was asked of each rule and what it holds of that stay together, and
\* the outcome is the one that build gives for these rules.
THEOREM PolicyInvariant == Spec => []IInv
BY InitIInv, NextIInv, PTL DEF Spec

-----------------------------------------------------------------------------
(* Checks.                                                                  *)

LEMMA BuiltPolicy ==
  ASSUME IInv, IsBuilt
  PROVE  /\ \A i \in DOMAIN routes : ~Misplaced(routes[i].asked)
         /\ ~Misplaced(Fallback.asked)
         /\ RouterErrors(Registrations) = {}
<1>1. /\ FirstOffender = {} /\ ~PublicCheckRequested(Fallback.rule)
      /\ RouterErrors(Registrations) = {}
  BY DEF IInv, OutcomeIsOfBuild, IsBuilt, PublicRuleWithCheck, FromRouterError,
         Building
<1>2. Coherent(Fallback)
  BY FallbackIsCoherent DEF IInv
<1> QED  BY <1>1, <1>2, FirstOffenderIsFirst, MisplacedIsRemembered DEF IInv

\* The router answers with the index of a registration at the selected
\* pattern, one for the method or for every method.
LEMMA ResolvedRule ==
  ASSUME NEW registrations, NEW path, NEW method,
         Resolve(registrations, path, method).kind = "rule"
  PROVE  LET index == Resolve(registrations, path, method).index IN
         /\ index \in AtSelected(registrations, path)
         /\ \/ method \in MethodKeys(registrations[index])
            \/ AnyMethod \in MethodKeys(registrations[index])
<1> DEFINE here == AtSelected(registrations, path)
           choice(key) == {i \in here : key \in MethodKeys(registrations[i])}
           named == CHOOSE i \in choice(method) : TRUE
           general == CHOOSE i \in choice(AnyMethod) : TRUE
<1>1. CASE here # {} /\ choice(method) # {}
  <2>1. Resolve(registrations, path, method)
          = [kind |-> "rule", index |-> named]
    BY <1>1 DEF Resolve
  <2>2. named \in choice(method)
    BY <1>1
  <2> QED  BY <2>1, <2>2
<1>2. CASE here # {} /\ choice(method) = {} /\ choice(AnyMethod) # {}
  <2>1. Resolve(registrations, path, method)
          = [kind |-> "rule", index |-> general]
    BY <1>2 DEF Resolve
  <2>2. general \in choice(AnyMethod)
    BY <1>2
  <2> QED  BY <2>1, <2>2
<1>3. CASE here = {} \/ (choice(method) = {} /\ choice(AnyMethod) = {})
  BY <1>3 DEF Resolve
<1> QED  BY <1>1, <1>2, <1>3

\* What governs a request is what was asked of one of the rules.
LEMMA GoverningIsCoherent ==
  ASSUME IInv, NEW path, NEW method,
         Governing(path, method) # NoRule
  PROVE  /\ Coherent(Governing(path, method))
         /\ IsBuilt => ~Misplaced(Governing(path, method).asked)
<1> DEFINE verdict == Resolve(Registrations, path, method)
<1>1. CASE verdict.kind = "default"
  <2>1. Governing(path, method) = Fallback
    BY <1>1 DEF Governing
  <2> QED  BY <2>1, FallbackIsCoherent, BuiltPolicy DEF IInv
<1>2. CASE verdict.kind = "rule"
  <2>1. Governing(path, method) = [rule |-> routes[verdict.index].rule,
                                   asked |-> routes[verdict.index].asked]
    BY <1>2 DEF Governing
  <2>2. verdict.index \in DOMAIN routes
    BY <1>2, ResolvedRule DEF AtSelected, Registrations
  <2>3. Coherent(routes[verdict.index])
    BY <2>2 DEF IInv, RoutesAreCoherent
  <2> QED  BY <2>1, <2>2, <2>3, BuiltPolicy DEF Coherent
<1>3. CASE verdict.kind \notin {"default", "rule"}
  BY <1>3 DEF Governing
<1> QED  BY <1>1, <1>2, <1>3

LEMMA EnforcedInv == IInv => AskedIsEnforced
<1> SUFFICES ASSUME IInv, IsBuilt, NEW path \in RequestPaths,
                    NEW method \in RequestMethods,
                    Governing(path, method) # NoRule
             PROVE  LET given == Governing(path, method) IN
                    /\ given.rule.level = given.asked.level
                    /\ CheckThatRuns(given.rule) = given.asked.check
  BY DEF AskedIsEnforced
<1> DEFINE given == Governing(path, method)
<1>1. Coherent(given) /\ ~Misplaced(given.asked)
  BY GoverningIsCoherent
<1> HIDE DEF given
<1> QED  BY <1>1 DEF Coherent, Holds, Misplaced, CheckThatRuns, given

LEMMA NamedInv == IInv => FirstMisplacedCheckIsNamed
<1> SUFFICES ASSUME IInv, outcome.kind = "refused"
             PROVE  LET offenders ==
                          {i \in DOMAIN routes : Misplaced(routes[i].asked)} IN
                    IF offenders # {}
                    THEN outcome = PublicRuleWithCheck(
                           routes[CHOOSE i \in offenders :
                                    \A j \in offenders : i <= j].pattern)
                    ELSE outcome.error = "PublicRuleWithCheck" <=>
                           /\ Misplaced(Fallback.asked)
                           /\ outcome.pattern = DefaultName
  BY DEF FirstMisplacedCheckIsNamed
<1> DEFINE offenders == {i \in DOMAIN routes : Misplaced(routes[i].asked)}
           first == CHOOSE i \in offenders : \A j \in offenders : i <= j
<1>1. /\ FirstOffender = {} => offenders = {}
      /\ \A i \in FirstOffender : i \in offenders /\ i = first
  BY FirstOffenderIsFirst DEF IInv
<1>2. PublicCheckRequested(Fallback.rule) <=> Misplaced(Fallback.asked)
  BY FallbackIsCoherent, MisplacedIsRemembered DEF IInv
<1>3. \/ \E i \in FirstOffender :
            outcome = PublicRuleWithCheck(routes[i].pattern)
      \/ /\ FirstOffender = {} /\ PublicCheckRequested(Fallback.rule)
         /\ outcome = PublicRuleWithCheck(DefaultName)
      \/ /\ FirstOffender = {} /\ ~PublicCheckRequested(Fallback.rule)
         /\ \E e \in RouterErrors(Registrations) :
              outcome = FromRouterError(e)
  BY DEF IInv, OutcomeIsOfBuild, Building
<1> HIDE DEF offenders, first
<1>4. CASE \E i \in FirstOffender :
              outcome = PublicRuleWithCheck(routes[i].pattern)
  <2>1. offenders # {} /\ outcome = PublicRuleWithCheck(routes[first].pattern)
    BY <1>1, <1>4
  <2> QED  BY <2>1 DEF offenders, first
<1>5. CASE /\ FirstOffender = {} /\ PublicCheckRequested(Fallback.rule)
           /\ outcome = PublicRuleWithCheck(DefaultName)
  <2>1. /\ offenders = {} /\ Misplaced(Fallback.asked)
        /\ outcome.error = "PublicRuleWithCheck"
        /\ outcome.pattern = DefaultName
    BY <1>1, <1>2, <1>5 DEF PublicRuleWithCheck
  <2> QED  BY <2>1 DEF offenders
<1>6. CASE /\ FirstOffender = {} /\ ~PublicCheckRequested(Fallback.rule)
           /\ \E e \in RouterErrors(Registrations) :
                outcome = FromRouterError(e)
  <2>1. PICK e \in RouterErrors(Registrations) : outcome = FromRouterError(e)
    BY <1>6
  <2>2. e.kind \in {"Route", "NonCanonical", "NonCanonicalCase",
                    "EmptyMethodSet"}
    <3>1. \A i \in DOMAIN routes :
            Registrations[i].pattern \in DOMAIN PatternFaults
      <4>1. \A i \in DOMAIN routes : routes[i].pattern \in Patterns
        BY RoutesAreTyped DEF IInv, Route
      <4> QED  BY <4>1 DEF Registrations, Registration, Patterns
    <3>2. DOMAIN Registrations = DOMAIN routes
      BY DEF Registrations
    <3> QED  BY <2>1, <3>1, <3>2, FaultsAssumption
               DEF RouterErrors, RouterError
  <2>3. outcome.error # "PublicRuleWithCheck"
    BY <2>1, <2>2 DEF FromRouterError
  <2>4. offenders = {} /\ ~Misplaced(Fallback.asked)
    BY <1>1, <1>2, <1>6
  <2> QED  BY <2>3, <2>4 DEF offenders
<1> QED  BY <1>3, <1>4, <1>5, <1>6

\* A check that an author attached runs for every request its rule decides, or
\* the proxy is not built and the error says where the check is.
THEOREM ChecksAreNotLost == Spec => []ChecksRunOrAreRefused
<1>1. IInv => ChecksRunOrAreRefused
  BY EnforcedInv, NamedInv DEF ChecksRunOrAreRefused
<1> QED  BY <1>1, PolicyInvariant, PTL

-----------------------------------------------------------------------------
(* Routes.                                                                  *)

LEMMA PathsAreUrlPaths ==
  /\ Patterns \subseteq UrlPath
  /\ RequestPaths \subseteq UrlPath
<1>1. Seq(STRING) \subseteq Seq(Segment)
  BY SeqMonotonic DEF Segment
<1> QED  BY <1>1, FaultsAssumption, PathsAssumption DEF Patterns, UrlPath

LEMMA RegistrationsAreOfRoutes ==
  ASSUME RoutesAreCoherent
  PROVE  /\ DOMAIN Registrations = DOMAIN routes
         /\ \A i \in DOMAIN routes :
              /\ Registrations[i] = Registration(routes[i].kind,
                                                 routes[i].pattern,
                                                 routes[i].rule.method)
              /\ Registrations[i].pattern = routes[i].pattern
              /\ routes[i].kind \in Kinds /\ routes[i].pattern \in UrlPath
<1>1. \A i \in DOMAIN routes :
        routes[i].kind \in Kinds /\ routes[i].pattern \in UrlPath
  BY RoutesAreTyped, PathsAreUrlPaths DEF Route
<1> QED  BY <1>1 DEF Registrations, Registration, MethodMatch

LEMMA LoweredPatterns ==
  ASSUME RoutesAreCoherent, NEW i \in DOMAIN routes
  PROVE  /\ \A p \in Lowered(Registrations[i]) : IsPattern(p)
         /\ routes[i].kind # "Exact" =>
              Covers(Lowered(Registrations[i]), routes[i].pattern)
<1> DEFINE r == Registrations[i]
           pattern == routes[i].pattern
<1>1. /\ r.pattern = pattern /\ pattern \in UrlPath
      /\ r.lowering = "path" <=> routes[i].kind = "Exact"
  BY RegistrationsAreOfRoutes DEF Registration, Kinds
<1>2. Slash(pattern) \in UrlPath /\ IsDirectory(Slash(pattern))
  BY <1>1, SlashIsDirectory
<1>3. IsPattern(ExactPattern(pattern))
  BY <1>1 DEF IsPattern, ExactPattern
<1>4. \A p \in SubtreePatterns(Slash(pattern)) : IsPattern(p)
  <2>1. IsPattern(ExactPattern(Slash(pattern)))
    BY <1>2 DEF IsPattern, ExactPattern
  <2>2. IsPattern([path |-> Slash(pattern), rest |-> TRUE])
    BY <1>2 DEF IsPattern
  <2> QED  BY <2>1, <2>2 DEF SubtreePatterns
<1> HIDE DEF r, pattern
<1>5. \A p \in Lowered(r) : IsPattern(p)
  BY <1>1, <1>3, <1>4 DEF Lowered
<1>6. ASSUME r.lowering # "path"
      PROVE  Covers(Lowered(r), pattern)
  <2>1. {ExactPattern(pattern)} \cup SubtreePatterns(Slash(pattern))
          \subseteq Lowered(r)
    BY <1>1, <1>6 DEF Lowered
  <2>2. /\ ExactPattern(pattern) \in Lowered(r)
        /\ ExactPattern(Slash(pattern)) \in Lowered(r)
        /\ [path |-> Slash(pattern), rest |-> TRUE] \in Lowered(r)
    BY <2>1 DEF SubtreePatterns
  <2> QED  BY <2>2 DEF Covers, ExactPattern
<1> QED  BY <1>1, <1>5, <1>6 DEF r, pattern

\* A path beneath a subtree selects a pattern beneath it, of a registration.
LEMMA SelectedInSubtree ==
  ASSUME RoutesAreCoherent, NEW i \in DOMAIN routes,
         routes[i].kind # "Exact", NEW path \in RequestPaths,
         Beneath(routes[i].pattern, path)
  PROVE  LET selected == Selected(AllPatterns(Registrations), path) IN
         /\ \A p \in selected :
              /\ PatternMatches(p, path) /\ Beneath(routes[i].pattern, p.path)
         /\ \E p \in selected, k \in DOMAIN routes :
              p \in Lowered(Registrations[k])
<1> DEFINE patterns == AllPatterns(Registrations)
<1>1. /\ DOMAIN Registrations = DOMAIN routes
      /\ routes[i].pattern \in UrlPath /\ path \in UrlPath
  BY RegistrationsAreOfRoutes, PathsAreUrlPaths
<1>2. \A p \in patterns :
        \E k \in DOMAIN routes : p \in Lowered(Registrations[k])
  BY <1>1 DEF AllPatterns
<1>3. \A p \in patterns : IsPattern(p)
  BY <1>2, LoweredPatterns
<1>4. Lowered(Registrations[i]) \subseteq patterns
  BY <1>1 DEF AllPatterns
<1>5. Covers(patterns, routes[i].pattern)
  <2>1. Covers(Lowered(Registrations[i]), routes[i].pattern)
    BY LoweredPatterns
  <2> QED  BY <1>4, <2>1 DEF Covers
<1> HIDE DEF patterns
<1>6. /\ Selected(patterns, path) # {}
      /\ \A p \in Selected(patterns, path) :
           p \in patterns /\ PatternMatches(p, path)
           /\ Beneath(routes[i].pattern, p.path)
  BY <1>1, <1>3, <1>5, SelectedBeneath
<1> QED  BY <1>2, <1>6 DEF patterns

LEMMA GapsInv == IInv => SubtreesLeaveNoGap
<1> SUFFICES ASSUME IInv, NEW i \in DOMAIN routes, NEW path \in RequestPaths,
                    NEW method \in RequestMethods, routes[i].kind # "Exact",
                    Beneath(routes[i].pattern, path)
             PROVE  LET verdict == Resolve(Registrations, path, method) IN
                    /\ verdict.kind # "default"
                    /\ verdict.kind = "rule" =>
                         \E p \in Lowered(Registrations[verdict.index]) :
                           /\ PatternMatches(p, path)
                           /\ Beneath(routes[i].pattern, p.path)
  BY DEF SubtreesLeaveNoGap
<1> DEFINE verdict == Resolve(Registrations, path, method)
           selected == Selected(AllPatterns(Registrations), path)
<1>1. /\ \A p \in selected :
           PatternMatches(p, path) /\ Beneath(routes[i].pattern, p.path)
      /\ \E p \in selected, k \in DOMAIN routes :
           p \in Lowered(Registrations[k])
  BY SelectedInSubtree DEF IInv
<1>2. AtSelected(Registrations, path) # {}
  <2>1. DOMAIN Registrations = DOMAIN routes
    BY RegistrationsAreOfRoutes DEF IInv
  <2> QED  BY <1>1, <2>1 DEF AtSelected
<1>3. verdict.kind # "default"
  BY <1>2 DEF Resolve
<1>4. ASSUME verdict.kind = "rule"
      PROVE  \E p \in Lowered(Registrations[verdict.index]) :
               PatternMatches(p, path) /\ Beneath(routes[i].pattern, p.path)
  <2>1. verdict.index \in AtSelected(Registrations, path)
    BY <1>4, ResolvedRule
  <2>2. selected \cap Lowered(Registrations[verdict.index]) # {}
    BY <2>1 DEF AtSelected
  <2> QED  BY <1>1, <2>2
<1> QED  BY <1>3, <1>4

\* The routes that share a pattern with an exclusive subtree are lowered to the
\* same patterns: the router refuses any other.
LEMMA BlobsAreExclusive ==
  ASSUME IInv, IsBuilt, NEW i \in DOMAIN routes, routes[i].kind = "Blob",
         NEW k \in DOMAIN routes, NEW p \in Lowered(Registrations[k]),
         Beneath(routes[i].pattern, p.path)
  PROVE  Lowered(Registrations[k]) = Lowered(Registrations[i])
<1>1. RouterErrors(Registrations) = {}
  BY BuiltPolicy
<1>2. /\ DOMAIN Registrations = DOMAIN routes
      /\ Registrations[i].pattern = routes[i].pattern
      /\ Registrations[i].lowering = "exclusive_subtree"
      /\ DOMAIN routes = 1 .. Len(routes) /\ Len(routes) \in Nat
  BY RegistrationsAreOfRoutes, RoutesAreTyped DEF IInv, Registration, Kinds
<1>3. \A m, n \in DOMAIN routes :
        m < n => ~Collide(Registrations[m], Registrations[n])
  <2> SUFFICES ASSUME NEW m \in DOMAIN routes, NEW n \in DOMAIN routes,
                      m < n, Collide(Registrations[m], Registrations[n])
               PROVE  FALSE
    OBVIOUS
  <2>1. m \in 1 .. n - 1
    BY <1>2
  <2>2. RouterError("Route", Registrations[n].pattern)
          \in RouterErrors(Registrations)
    BY <1>2, <2>1 DEF RouterErrors
  <2> QED  BY <1>1, <2>2
<1>4. ~Overrides(Registrations[k], Registrations[i])
  <2>1. CASE i = k
    BY <2>1 DEF Overrides
  <2>2. CASE i < k
    BY <1>3, <2>2 DEF Collide
  <2>3. CASE k < i
    BY <1>3, <2>3 DEF Collide
  <2> QED  BY <1>2, <2>1, <2>2, <2>3
<1> QED  BY <1>2, <1>4 DEF Overrides

LEMMA BlobsInv == IInv => BlobsAreUniform
<1> SUFFICES ASSUME IInv, IsBuilt, NEW i \in DOMAIN routes,
                    NEW method \in RequestMethods, routes[i].kind = "Blob",
                    NEW a \in RequestPaths, Beneath(routes[i].pattern, a),
                    NEW b \in RequestPaths, Beneath(routes[i].pattern, b)
             PROVE  Resolve(Registrations, a, method)
                      = Resolve(Registrations, b, method)
  BY DEF BlobsAreUniform
<1> DEFINE likes == {k \in DOMAIN routes :
                       Lowered(Registrations[k]) = Lowered(Registrations[i])}
<1>1. ASSUME NEW path \in RequestPaths, Beneath(routes[i].pattern, path)
      PROVE  AtSelected(Registrations, path) = likes
  <2> DEFINE selected == Selected(AllPatterns(Registrations), path)
  <2>1. /\ \A p \in selected : Beneath(routes[i].pattern, p.path)
        /\ \E p \in selected, k \in DOMAIN routes :
             p \in Lowered(Registrations[k])
    BY <1>1, SelectedInSubtree DEF IInv
  <2>2. \A k \in DOMAIN routes : \A p \in selected :
          p \in Lowered(Registrations[k]) => k \in likes
    BY <2>1, BlobsAreExclusive
  <2>3. \E p \in selected : p \in Lowered(Registrations[i])
    BY <2>1, <2>2
  <2>4. DOMAIN Registrations = DOMAIN routes
    BY RegistrationsAreOfRoutes DEF IInv
  <2> QED  BY <2>2, <2>3, <2>4 DEF AtSelected
<1>2. AtSelected(Registrations, a) = AtSelected(Registrations, b)
  BY <1>1
<1> QED  BY <1>2 DEF Resolve

LEMMA MethodsInv == IInv => RoutesKeepToTheirMethods
<1> SUFFICES ASSUME IInv, NEW path \in RequestPaths,
                    NEW method \in RequestMethods,
                    Resolve(Registrations, path, method).kind = "rule"
             PROVE  LET verdict == Resolve(Registrations, path, method) IN
                    \/ routes[verdict.index].asked.method = AnyMethod
                    \/ method \in routes[verdict.index].asked.method
  BY DEF RoutesKeepToTheirMethods
<1> DEFINE index == Resolve(Registrations, path, method).index
<1>1. /\ index \in AtSelected(Registrations, path)
      /\ \/ method \in MethodKeys(Registrations[index])
         \/ AnyMethod \in MethodKeys(Registrations[index])
  BY ResolvedRule
<1>2. index \in DOMAIN routes
  BY <1>1, RegistrationsAreOfRoutes DEF IInv, AtSelected
<1> HIDE DEF index
<1>3. /\ Registrations[index].methods = routes[index].asked.method
      /\ routes[index].asked.method \in MethodMatches
  <2>1. Registrations[index].methods = routes[index].rule.method
    BY <1>2, RegistrationsAreOfRoutes DEF IInv, Registration
  <2>2. Coherent(routes[index])
    BY <1>2 DEF IInv, RoutesAreCoherent
  <2> QED  BY <2>1, <2>2 DEF Coherent, Holds, Asks
<1>4. \/ routes[index].asked.method = AnyMethod
      \/ method \in routes[index].asked.method
  BY <1>1, <1>3, MethodAssumption DEF MethodKeys, MethodMatches
<1> QED  BY <1>4 DEF index

\* The patterns and methods that a route is lowered to decide the requests that
\* the route was written for: without gaps, without exceptions in an exclusive
\* subtree, and no others.
THEOREM RoutesDecideWhatTheyName == Spec => []RoutesDecideTheirPaths
<1>1. IInv => RoutesDecideTheirPaths
  BY GapsInv, BlobsInv, MethodsInv DEF RoutesDecideTheirPaths
<1> QED  BY <1>1, PolicyInvariant, PTL
-----------------------------------------------------------------------------
(* The example application.                                                 *)

\* The request waits for its upstream, or has been there.
Admitted ==
    /\ session = IF Sessionless THEN NoSession ELSE jar
    /\ ~Sessionless /\ Level(Path, request.method) = "required" =>
         jar # NoSession

\* Where a user is who began with a POST to the logout path: asking, refused,
\* or on the way to the signed-out page without a session.
SigningOut ==
    \/ /\ pc = "filter" /\ request.name = Logout
       /\ request.method = "POST" /\ ~request.preflight
    \/ pc = "idle" /\ ~IsRedirect /\ answer.name = Logout
    \/ /\ jar = NoSession
       /\ \/ pc = "idle" /\ answer.kind # "provider" /\ answer.name = SignedOut
          \/ pc # "idle" /\ request.name = SignedOut

AppIInv ==
    /\ mapping \in Mappings
    /\ pc \in {"idle", "filter", "upstream", "answered"}
    /\ request.name \in UrlPath /\ answer.name \in UrlPath
    /\ pc \in {"upstream", "answered"} => Admitted
    /\ pc = "answered" => upstream.subjects = {session} \cap Subjects
    /\ origin.name = Logout /\ origin.method = "POST" /\ ~origin.preflight =>
         SigningOut

-----------------------------------------------------------------------------
(* Paths.                                                                   *)

\* A prefix can be taken from, and is before, what it is put in front of.
LEMMA PrefixedName ==
  ASSUME NEW prefix \in Seq(Segment), NEW name \in UrlPath
  PROVE  /\ prefix \o name \in UrlPath
         /\ Len(prefix \o name) = Len(prefix) + Len(name)
         /\ SubSeq(prefix \o name, Len(prefix) + 1, Len(prefix \o name)) = name
<1>1. name \in Seq(Segment) /\ name # <<>>
  BY DEF UrlPath
<1> DEFINE path == prefix \o name
<1>2. /\ path \in Seq(Segment) /\ Len(path) = Len(prefix) + Len(name)
      /\ \A i \in 1 .. Len(path) :
           path[i] = IF i <= Len(prefix) THEN prefix[i]
                     ELSE name[i - Len(prefix)]
  BY <1>1, ConcatProperties
<1>3. Len(prefix) \in Nat /\ Len(name) \in Nat /\ Len(name) # 0
  BY <1>1, EmptySeq
<1> HIDE DEF path
<1>4. path # <<>>
  BY <1>2, <1>3, EmptySeq
<1>5. path \in UrlPath
  BY <1>2, <1>4 DEF UrlPath
<1>6. SubSeq(path, Len(prefix) + 1, Len(path)) = name
  <2> DEFINE rest == SubSeq(path, Len(prefix) + 1, Len(path))
  <2>1. /\ rest \in Seq(Segment) /\ Len(rest) = Len(name)
        /\ \A i \in 1 .. Len(name) : rest[i] = path[Len(prefix) + i]
    BY <1>2, <1>3
  <2> HIDE DEF rest
  <2>2. ASSUME NEW i \in 1 .. Len(name)
        PROVE  rest[i] = name[i]
    <3>1. /\ Len(prefix) + i \in 1 .. Len(path)
          /\ ~(Len(prefix) + i <= Len(prefix))
          /\ (Len(prefix) + i) - Len(prefix) = i
      BY <1>2, <1>3
    <3> QED  BY <1>2, <2>1, <3>1
  <2> QED  BY <1>1, <2>1, <2>2, SeqEqual DEF rest
<1> QED  BY <1>2, <1>5, <1>6 DEF path

\* Pages are as many as their names.
LEMMA PathsTellNames ==
  ASSUME NEW prefix \in Seq(Segment), NEW a \in UrlPath, NEW b \in UrlPath,
         prefix \o a = prefix \o b
  PROVE  a = b
BY PrefixedName

\* The names that main has fixed.
LEMMA FixedNames ==
  /\ \A name \in {Dashboard, Health, SignedOut, Home, Logout, Callback} :
       name \in UrlPath /\ Len(name) = 1
  /\ Health # SignedOut /\ Health # Home /\ SignedOut # Home
  /\ Dashboard # Health /\ Dashboard # SignedOut /\ Dashboard # Home
  /\ Logout # Callback /\ Logout # SignedOut /\ Callback # SignedOut
<1>1. \A text \in Segment : <<text>> \in UrlPath
  BY DEF UrlPath
<1>2. \A text : Len(<<text>>) = 1 /\ <<text>>[1] = text
  OBVIOUS
<1>3. \A name \in {Dashboard, Health, SignedOut, Home, Logout, Callback} :
        name \in UrlPath /\ Len(name) = 1
  BY <1>1, <1>2
    DEF Dashboard, Health, SignedOut, Home, Logout, Callback, Segment
<1>4. /\ Health # SignedOut /\ Health # Home /\ SignedOut # Home
      /\ Dashboard # Health /\ Dashboard # SignedOut /\ Dashboard # Home
  BY <1>2 DEF Dashboard, Health, SignedOut, Home
<1>5. Logout # Callback /\ Logout # SignedOut /\ Callback # SignedOut
  BY <1>2 DEF Logout, Callback, SignedOut
<1> QED  BY <1>3, <1>4, <1>5

\* The process receives every page under its prefix.
LEMMA ReceivedPath ==
  ASSUME mapping \in Mappings, NEW name \in UrlPath
  PROVE  /\ mapping.prefix \in Seq(Segment)
         /\ IncomingUri(ResourceUrl(name)) = mapping.prefix \o name
<1>1. mapping.base \in Seq(Segment) /\ mapping.prefix \in Seq(Segment)
  <2>1. Seq(STRING) \subseteq Seq(Segment)
    BY SeqMonotonic DEF Segment
  <2> QED  BY <2>1, ApplicationAssumption
<1>2. SubSeq(mapping.base \o name, Len(mapping.base) + 1,
             Len(mapping.base \o name)) = name
  BY <1>1, PrefixedName
<1> QED  BY <1>1, <1>2 DEF IncomingUri, ResourceUrl

\* A page with a name of one segment is not beneath another.
LEMMA PagesLieApart ==
  ASSUME NEW prefix \in Seq(Segment), NEW a \in UrlPath, NEW b \in UrlPath,
         Len(a) = 1, Len(b) = 1, ~IsDirectory(a),
         Beneath(prefix \o a, prefix \o b)
  PROVE  a = b
<1> DEFINE mount == prefix \o a
           path == prefix \o b
<1>1. /\ mount \in UrlPath /\ path \in UrlPath
      /\ Len(mount) = Len(prefix) + 1 /\ Len(path) = Len(prefix) + 1
      /\ Len(prefix) \in Nat
  BY PrefixedName, LenProperties
<1>2. CASE mount = path
  BY <1>2, PathsTellNames
<1>3. CASE Seqs!IsStrictPrefix(Stem(Slash(mount)), path)
  <2>1. ~IsDirectory(mount)
    <3>1. a \in Seq(Segment) /\ prefix \in Seq(Segment)
      BY DEF UrlPath
    <3>2. \A i \in 1 .. Len(mount) :
            mount[i] = IF i <= Len(prefix) THEN prefix[i]
                       ELSE a[i - Len(prefix)]
      BY <3>1, ConcatProperties
    <3> HIDE DEF mount
    <3>3. mount[Len(mount)] = a[1]
      <4>1. /\ Len(mount) \in 1 .. Len(mount) /\ ~(Len(mount) <= Len(prefix))
            /\ Len(mount) - Len(prefix) = 1
        BY <1>1
      <4> QED  BY <3>2, <4>1
    <3> QED  BY <3>3, Zenon DEF IsDirectory, Seqs!Last
  <2>2. Stem(Slash(mount)) = mount
    BY <1>1, <2>1, StemOfSlash
  <2>3. mount \in Seq(Segment) /\ path \in Seq(Segment)
    BY <1>1 DEF UrlPath
  <2>4. Len(mount) < Len(path)
    BY <1>3, <2>2, <2>3, StrictPrefix
  <2> HIDE DEF mount, path
  <2> QED  BY <1>1, <2>4
<1> QED  BY <1>2, <1>3 DEF Beneath

-----------------------------------------------------------------------------
(* Levels.                                                                  *)

\* The patterns of main's routes, and what the router makes of them: the rule
\* of a registration at the selected pattern, whatever the method.
LEMMA RegisteredPages ==
  ASSUME mapping \in Mappings
  PROVE  /\ DOMAIN AppRegistrations = 1 .. 4
         /\ Lowered(AppRegistrations[1]) =
              {ExactPattern(mapping.prefix \o Dashboard)}
              \cup SubtreePatterns(Slash(mapping.prefix \o Dashboard))
         /\ Lowered(AppRegistrations[2]) =
              {ExactPattern(mapping.prefix \o Health)}
         /\ Lowered(AppRegistrations[3]) =
              {ExactPattern(mapping.prefix \o SignedOut)}
         /\ Lowered(AppRegistrations[4]) =
              {ExactPattern(mapping.prefix \o Home)}
         /\ \A i \in 1 .. 4 : MethodKeys(AppRegistrations[i]) = {AnyMethod}
<1>1. DOMAIN AppRegistrations = 1 .. 4
  BY DEF AppRegistrations, Routes
<1>2. \A i \in 1 .. 4 :
        AppRegistrations[i] = Registration(Routes[i].kind,
                                           IncomingPath(Routes[i].name),
                                           AnyMethod)
  BY <1>1 DEF AppRegistrations
<1>3. \A name \in {Dashboard, Health, SignedOut, Home} :
        IncomingPath(name) = mapping.prefix \o name
  BY FixedNames, ReceivedPath DEF IncomingPath
<1>4. /\ AppRegistrations[1]
           = Registration("Subtree", mapping.prefix \o Dashboard, AnyMethod)
      /\ AppRegistrations[2]
           = Registration("Exact", mapping.prefix \o Health, AnyMethod)
      /\ AppRegistrations[3]
           = Registration("Exact", mapping.prefix \o SignedOut, AnyMethod)
      /\ AppRegistrations[4]
           = Registration("Exact", mapping.prefix \o Home, AnyMethod)
  <2>1. /\ Routes[1].kind = "Subtree" /\ Routes[1].name = Dashboard
        /\ Routes[2].kind = "Exact" /\ Routes[2].name = Health
        /\ Routes[3].kind = "Exact" /\ Routes[3].name = SignedOut
        /\ Routes[4].kind = "Exact" /\ Routes[4].name = Home
    BY DEF Routes
  <2>2. /\ IncomingPath(Dashboard) = mapping.prefix \o Dashboard
        /\ IncomingPath(Health) = mapping.prefix \o Health
        /\ IncomingPath(SignedOut) = mapping.prefix \o SignedOut
        /\ IncomingPath(Home) = mapping.prefix \o Home
    BY <1>3
  <2>3. 1 \in 1 .. 4 /\ 2 \in 1 .. 4 /\ 3 \in 1 .. 4 /\ 4 \in 1 .. 4
    OBVIOUS
  <2> QED  BY <1>2, <2>1, <2>2, <2>3, Zenon
<1>5. ASSUME NEW path
      PROVE  /\ Registration("Exact", path, AnyMethod)
                  = [lowering |-> "path", pattern |-> path,
                     methods |-> AnyMethod]
             /\ Registration("Subtree", path, AnyMethod)
                  = [lowering |-> "subtree", pattern |-> path,
                     methods |-> AnyMethod]
  BY DEF Registration
<1>6. ASSUME NEW path
      PROVE  /\ Lowered(Registration("Exact", path, AnyMethod))
                  = {ExactPattern(path)}
             /\ Lowered(Registration("Subtree", path, AnyMethod))
                  = {ExactPattern(path)} \cup SubtreePatterns(Slash(path))
             /\ MethodKeys(Registration("Exact", path, AnyMethod))
                  = {AnyMethod}
             /\ MethodKeys(Registration("Subtree", path, AnyMethod))
                  = {AnyMethod}
  BY <1>5 DEF Lowered, MethodKeys
<1>7. \A i \in 1 .. 4 : i \in {1, 2, 3, 4}
  OBVIOUS
<1> QED  BY <1>1, <1>4, <1>6, <1>7

LEMMA ResolvedPage ==
  ASSUME mapping \in Mappings, NEW path, NEW method
  PROVE  LET here == AtSelected(AppRegistrations, path)
             verdict == Resolve(AppRegistrations, path, method) IN
         IF here = {} THEN verdict.kind = "default"
         ELSE verdict.kind = "rule" /\ verdict.index \in here
<1> DEFINE here == AtSelected(AppRegistrations, path)
           choice(key) == {i \in here : key \in MethodKeys(AppRegistrations[i])}
<1>1. \A i \in here : MethodKeys(AppRegistrations[i]) = {AnyMethod}
  BY RegisteredPages DEF AtSelected
<1>2. choice(AnyMethod) = here /\ choice(method) \in {{}, here}
  <2>1. CASE method = AnyMethod
    BY <1>1, <2>1
  <2>2. CASE method # AnyMethod
    BY <1>1, <2>2
  <2> QED  BY <1>1, <2>1, <2>2
<1>3. CASE here = {}
  BY <1>3 DEF Resolve
<1>4. CASE here # {} /\ choice(method) = here
  <2>1. Resolve(AppRegistrations, path, method)
          = [kind |-> "rule", index |-> CHOOSE i \in choice(method) : TRUE]
    BY <1>4 DEF Resolve
  <2>2. (CHOOSE i \in choice(method) : TRUE) \in here
    BY <1>4
  <2> QED  BY <1>4, <2>1, <2>2
<1>5. CASE here # {} /\ choice(method) = {}
  <2>1. Resolve(AppRegistrations, path, method)
          = [kind |-> "rule", index |-> CHOOSE i \in choice(AnyMethod) : TRUE]
    BY <1>2, <1>5 DEF Resolve
  <2>2. (CHOOSE i \in choice(AnyMethod) : TRUE) \in here
    BY <1>2, <1>5
  <2> QED  BY <1>5, <2>1, <2>2
<1> QED  BY <1>2, <1>3, <1>4, <1>5

\* An exact route is selected by its page alone, and by nothing else's.
LEMMA ExactPages ==
  ASSUME mapping \in Mappings, NEW name \in UrlPath,
         NEW i \in {2, 3, 4}
  PROVE  LET here == AtSelected(AppRegistrations, mapping.prefix \o name) IN
         /\ here \subseteq 1 .. 4
         /\ name # Routes[i].name => i \notin here
         /\ name = Routes[i].name => here = {i}
<1> DEFINE path == mapping.prefix \o name
           patterns == AllPatterns(AppRegistrations)
           selected == Selected(patterns, path)
           here == AtSelected(AppRegistrations, path)
<1>1. /\ mapping.prefix \in Seq(Segment) /\ DOMAIN AppRegistrations = 1 .. 4
      /\ path \in UrlPath
  BY ReceivedPath, RegisteredPages, PrefixedName
<1>2. \A k \in {2, 3, 4} :
        /\ Routes[k].name \in UrlPath /\ Len(Routes[k].name) = 1
        /\ Lowered(AppRegistrations[k])
             = {ExactPattern(mapping.prefix \o Routes[k].name)}
  BY RegisteredPages, FixedNames DEF Routes
<1>3. \A p \in selected : PatternMatches(p, path)
  BY DEF Selected
<1>4. ASSUME NEW k \in {2, 3, 4}, k \in here
      PROVE  name = Routes[k].name
  <2>1. ExactPattern(mapping.prefix \o Routes[k].name) \in selected
    BY <1>2, <1>4 DEF AtSelected
  <2>2. mapping.prefix \o Routes[k].name = path
    BY <1>3, <2>1 DEF PatternMatches, ExactPattern
  <2> QED  BY <1>1, <1>2, <2>2, PathsTellNames
<1>5. ASSUME name = Routes[i].name
      PROVE  i \in here
  <2>1. ExactPattern(path) \in patterns
    BY <1>1, <1>2, <1>5 DEF AllPatterns
  <2>2. ExactPattern(path) \in selected
    BY <2>1 DEF Selected, PatternMatches, AtLeastAsSpecific, ExactPattern
  <2> QED  BY <1>1, <1>2, <1>5, <2>2 DEF AtSelected
<1>6. ASSUME 1 \in here
      PROVE  Beneath(mapping.prefix \o Dashboard, path)
  <2> DEFINE mount == mapping.prefix \o Dashboard
  <2>1. PICK p \in selected : p \in {ExactPattern(mount)}
                                    \cup SubtreePatterns(Slash(mount))
    BY <1>6, RegisteredPages DEF AtSelected
  <2>2. mount \in UrlPath
    BY <1>1, FixedNames, PrefixedName
  <2>3. p \in MountPatterns(mount, {})
    BY <2>1 DEF MountPatterns
  <2> QED  BY <1>1, <1>3, <2>1, <2>2, <2>3, MountPatternFacts
<1>7. ASSUME name = Routes[i].name, 1 \in here
      PROVE  FALSE
  <2>1. ~IsDirectory(Dashboard)
    BY DEF Dashboard, IsDirectory, Seqs!Last
  <2>2. Dashboard # Routes[i].name
    BY FixedNames DEF Routes
  <2> QED  BY <1>1, <1>2, <1>6, <1>7, <2>1, <2>2, FixedNames,
           PagesLieApart
<1>8. here \subseteq 1 .. 4
  BY <1>1 DEF AtSelected
<1>9. \A j, k \in {2, 3, 4} : Routes[j].name = Routes[k].name => j = k
  BY FixedNames DEF Routes
<1> HIDE DEF here
<1>10. ASSUME name = Routes[i].name
       PROVE  here = {i}
  <2>1. \A k \in here : k = i
    BY <1>4, <1>7, <1>8, <1>9, <1>10
  <2> QED  BY <1>5, <1>10, <2>1
<1> QED  BY <1>4, <1>8, <1>10 DEF here

\* What main's routes ask of a page, at any prefix.
LEMMA LevelOfPage ==
  ASSUME mapping \in Mappings, NEW name \in UrlPath, NEW method
  PROVE  Level(mapping.prefix \o name, method)
           = IF name \in {Health, SignedOut} THEN "public"
             ELSE IF name = Home THEN "optional" ELSE "required"
<1> DEFINE path == mapping.prefix \o name
           here == AtSelected(AppRegistrations, path)
           verdict == Resolve(AppRegistrations, path, method)
<1>1. /\ here \subseteq 1 .. 4
      /\ \A i \in {2, 3, 4} : /\ name # Routes[i].name => i \notin here
                              /\ name = Routes[i].name => here = {i}
  BY ExactPages
<1>2. IF here = {} THEN verdict.kind = "default"
      ELSE verdict.kind = "rule" /\ verdict.index \in here
  BY ResolvedPage
<1>3. Level(path, method) = IF verdict.kind = "rule"
                            THEN Routes[verdict.index].level ELSE "required"
  BY DEF Level
<1>4. /\ Routes[2].name = Health /\ Routes[3].name = SignedOut
      /\ Routes[4].name = Home
      /\ Routes[1].level = "required" /\ Routes[2].level = "public"
      /\ Routes[3].level = "public" /\ Routes[4].level = "optional"
  BY DEF Routes
<1> HIDE DEF here, verdict
<1>5. CASE name = Health
  BY <1>1, <1>2, <1>3, <1>4, <1>5
<1>6. CASE name = SignedOut
  BY <1>1, <1>2, <1>3, <1>4, <1>6
<1>7. CASE name = Home
  <2>1. verdict.kind = "rule" /\ verdict.index = 4
    BY <1>1, <1>2, <1>4, <1>7
  <2> QED  BY <1>3, <1>4, <1>7, <2>1, FixedNames
<1>8. CASE name \notin {Health, SignedOut, Home}
  <2>1. ASSUME NEW i \in here
        PROVE  i = 1
    <3>1. i # 2 /\ i # 3 /\ i # 4
      BY <1>1, <1>4, <1>8
    <3> QED  BY <1>1, <3>1
  <2> QED  BY <1>2, <1>3, <1>4, <1>8, <2>1
<1> QED  BY <1>5, <1>6, <1>7, <1>8
-----------------------------------------------------------------------------
(* Induction.                                                               *)

\* The name of a page is a path by itself.
LEMMA NamesOfPages ==
  ASSUME NEW name \in PageNames
  PROVE  name \in UrlPath
<1>1. Seq(STRING) \subseteq Seq(Segment)
  BY SeqMonotonic DEF Segment
<1> QED  BY <1>1, ApplicationAssumption DEF UrlPath

\* What the proxy makes of the request it looks at.
LEMMA RequestedPage ==
  ASSUME AppIInv
  PROVE  /\ Path = CallbackPath <=> request.name = Callback
         /\ Path = LogoutPath <=> request.name = Logout
         /\ Level(Path, request.method)
              = IF request.name \in {Health, SignedOut} THEN "public"
                ELSE IF request.name = Home THEN "optional" ELSE "required"
<1>1. mapping \in Mappings /\ request.name \in UrlPath
  BY DEF AppIInv
<1>2. Callback \in UrlPath /\ Logout \in UrlPath
  BY FixedNames
<1>3. /\ mapping.prefix \in Seq(Segment)
      /\ Path = mapping.prefix \o request.name
      /\ CallbackPath = mapping.prefix \o Callback
      /\ LogoutPath = mapping.prefix \o Logout
  BY <1>1, <1>2, ReceivedPath DEF Path, CallbackPath, LogoutPath, IncomingPath
<1>4. Path = CallbackPath => request.name = Callback
  BY <1>1, <1>2, <1>3, PathsTellNames
<1>5. Path = LogoutPath => request.name = Logout
  BY <1>1, <1>2, <1>3, PathsTellNames
<1>6. Level(Path, request.method)
        = IF request.name \in {Health, SignedOut} THEN "public"
          ELSE IF request.name = Home THEN "optional" ELSE "required"
  BY <1>1, <1>3, LevelOfPage
<1> QED  BY <1>3, <1>4, <1>5, <1>6

\* Admission is of the request and its session.
LEMMA AdmittedFrame ==
  ASSUME UNCHANGED <<mapping, jar, request, session>>
  PROVE  Admitted' <=> Admitted
BY DEF Admitted, Sessionless, Level, Path, AppRegistrations, IncomingPath,
       IncomingUri, ResourceUrl

\* A request of the browser; who begins to sign out has that request sent.
LEMMA SendStep ==
  ASSUME AppIInv, NEW name \in UrlPath, NEW method, NEW preflight, NEW forged,
         Send(Request(name, method, preflight, forged)),
         origin'.name = Logout /\ origin'.method = "POST"
           /\ ~origin'.preflight => SigningOut'
  PROVE  AppIInv'
<1>1. /\ request'.name = name /\ pc' = "filter"
      /\ UNCHANGED <<mapping, answer>>
  BY DEF Send, Request
<1> QED  BY <1>1 DEF AppIInv

LEMMA AskStep ==
  ASSUME AppIInv, NEW name \in PageNames, NEW method, NEW preflight,
         NEW forged, Ask(Request(name, method, preflight, forged))
  PROVE  AppIInv'
<1>1. name \in UrlPath
  BY NamesOfPages
<1>2. /\ Send(Request(name, method, preflight, forged))
      /\ origin'.name = name /\ origin'.method = method
      /\ origin'.preflight = preflight
      /\ request'.name = name /\ request'.method = method
      /\ request'.preflight = preflight
      /\ pc' = "filter"
  BY DEF Ask, Send, Request
<1>3. origin'.name = Logout /\ origin'.method = "POST" /\ ~origin'.preflight
        => SigningOut'
  BY <1>2 DEF SigningOut
<1> QED  BY <1>1, <1>2, <1>3, SendStep

LEMMA FollowStep ==
  ASSUME AppIInv, Follow
  PROVE  AppIInv'
<1>1. /\ Send(Request(answer.name, "GET", FALSE, {})) /\ UNCHANGED origin
      /\ pc = "idle" /\ answer.kind = "see_other" /\ answer.name \in UrlPath
  BY DEF Follow, AppIInv
<1>2. /\ request'.name = answer.name /\ pc' = "filter" /\ UNCHANGED jar
  BY <1>1 DEF Send, Request
<1>3. SigningOut => SigningOut'
  BY <1>1, <1>2 DEF SigningOut, IsRedirect
<1> QED  BY <1>1, <1>3, SendStep DEF AppIInv

LEMMA ProviderStep ==
  ASSUME AppIInv, ProviderReturns
  PROVE  AppIInv'
<1>1. /\ Send(Request(Callback, "GET", FALSE, {})) /\ UNCHANGED origin
      /\ pc = "idle" /\ answer.kind = "provider" /\ Callback \in UrlPath
  BY FixedNames DEF ProviderReturns
<1>2. ~SigningOut
  BY <1>1 DEF SigningOut, IsRedirect
<1> QED  BY <1>1, <1>2, SendStep DEF AppIInv

LEMMA ExpireStep ==
  ASSUME AppIInv, Expire
  PROVE  AppIInv'
BY DEF Expire, AppIInv, SigningOut, IsRedirect

LEMMA CallbackStep ==
  ASSUME AppIInv, CallbackRoute
  PROVE  AppIInv'
<1>1. /\ pc = "filter" /\ request.name = Callback /\ pc' = "idle"
      /\ answer'.name \in {answer.name, request.name}
      /\ UNCHANGED <<mapping, request, origin>>
  BY RequestedPage DEF CallbackRoute, Reply
<1>2. ~SigningOut
  BY <1>1, FixedNames DEF SigningOut
<1> QED  BY <1>1, <1>2 DEF AppIInv

LEMMA LogoutStep ==
  ASSUME AppIInv, LogoutRoute
  PROVE  AppIInv'
<1>1. /\ pc = "filter" /\ request.name = Logout /\ pc' = "idle"
      /\ UNCHANGED <<mapping, request, origin>>
      /\ \/ jar' = NoSession /\ answer'.kind = "see_other"
            /\ answer'.name = SignedOut
         \/ answer'.kind = "refused" /\ answer'.name = Logout
  BY RequestedPage DEF LogoutRoute, Reply
<1>2. SigningOut'
  BY <1>1 DEF SigningOut, IsRedirect
<1>3. answer'.name \in UrlPath
  BY <1>1, FixedNames
<1> QED  BY <1>1, <1>2, <1>3 DEF AppIInv

LEMMA ForwardStep ==
  ASSUME AppIInv, Forward
  PROVE  AppIInv'
<1>1. /\ pc = "filter" /\ ~IsLoginRoute /\ pc' = "upstream"
      /\ UNCHANGED <<mapping, jar, request, answer, origin>>
  BY DEF Forward
<1>2. Admitted'
  <2>1. (Sessionless <=> Sessionless')
        /\ Level(Path, request.method)' = Level(Path, request.method)
    BY <1>1 DEF Sessionless, Level, Path, AppRegistrations, IncomingPath,
                IncomingUri, ResourceUrl
  <2>2. \/ Sessionless /\ session' = NoSession
        \/ /\ ~Sessionless
           /\ Level(Path, request.method) = "required" => jar # NoSession
           /\ session' = jar
    BY DEF Forward
  <2> QED  BY <1>1, <2>1, <2>2 DEF Admitted
<1>3. SigningOut => SigningOut'
  <2>1. ~(request.name = Logout /\ ~request.preflight)
    BY <1>1, RequestedPage DEF IsLoginRoute
  <2> QED  BY <1>1, <2>1 DEF SigningOut
<1> QED  BY <1>1, <1>2, <1>3 DEF AppIInv

LEMMA UnauthenticatedStep ==
  ASSUME AppIInv, Unauthenticated
  PROVE  AppIInv'
<1>1. /\ pc = "filter" /\ ~IsLoginRoute /\ pc' = "idle" /\ ~Sessionless
      /\ UNCHANGED <<mapping, request, origin>>
      /\ answer'.name = request.name
  BY DEF Unauthenticated, Reply
<1>2. ~SigningOut
  <2>1. ~(request.name = Logout /\ ~request.preflight)
    BY <1>1, RequestedPage DEF IsLoginRoute
  <2>2. request.name # SignedOut
    BY <1>1, RequestedPage DEF Sessionless
  <2> QED  BY <1>1, <2>1, <2>2 DEF SigningOut
<1> QED  BY <1>1, <1>2 DEF AppIInv

LEMMA AttemptStep ==
  ASSUME AppIInv, Attempt
  PROVE  AppIInv'
<1>1. /\ pc = "upstream" /\ pc' = "answered"
      /\ UNCHANGED <<mapping, jar, request, session, answer, origin>>
      /\ upstream'.subjects = {session} \cap Subjects
  BY DEF Attempt, IdentityHeader
<1>2. Admitted'
  BY <1>1, AdmittedFrame DEF AppIInv
<1>3. SigningOut => SigningOut'
  BY <1>1 DEF SigningOut
<1> QED  BY <1>1, <1>2, <1>3 DEF AppIInv

LEMMA RetryStep ==
  ASSUME AppIInv, Retry
  PROVE  AppIInv'
<1>1. /\ pc = "answered" /\ pc' = "upstream"
      /\ UNCHANGED <<mapping, jar, request, session, answer, origin>>
  BY DEF Retry
<1>2. Admitted'
  BY <1>1, AdmittedFrame DEF AppIInv
<1>3. SigningOut => SigningOut'
  BY <1>1 DEF SigningOut
<1> QED  BY <1>1, <1>2, <1>3 DEF AppIInv

LEMMA RespondStep ==
  ASSUME AppIInv, Respond
  PROVE  AppIInv'
<1>1. /\ pc = "answered" /\ pc' = "idle"
      /\ UNCHANGED <<mapping, jar, request, origin>>
      /\ answer'.name = request.name /\ answer'.kind # "provider"
  BY DEF Respond, Reply
<1>2. SigningOut => SigningOut'
  BY <1>1 DEF SigningOut
<1> QED  BY <1>1, <1>2 DEF AppIInv

LEMMA AttemptRefusedStep ==
  ASSUME AppIInv, AttemptRefused
  PROVE  AppIInv'
<1>1. /\ pc = "upstream" /\ pc' = "idle"
      /\ UNCHANGED <<mapping, jar, request, origin>>
      /\ answer'.name = request.name /\ answer'.kind # "provider"
  BY DEF AttemptRefused, Reply
<1>2. SigningOut => SigningOut'
  BY <1>1 DEF SigningOut
<1> QED  BY <1>1, <1>2 DEF AppIInv

\* Whatever a browser asks and its cookie holds, at whatever prefix, a request
\* that is on its way upstream has the session that its page calls for, and
\* who signs out is without one.
THEOREM ApplicationInvariant == AppSpec => []AppIInv
<1>1. AppInit => AppIInv
  <2> SUFFICES ASSUME AppInit PROVE AppIInv
    OBVIOUS
  <2>1. /\ mapping \in Mappings /\ pc = "idle" /\ request.name = Home
        /\ answer.name = Home /\ origin.method = "GET"
    BY DEF AppInit, Request, NoAnswer
  <2> QED  BY <2>1, FixedNames DEF AppIInv
<1>2. AppIInv /\ [AppNext]_app_vars => AppIInv'
  <2> SUFFICES ASSUME AppIInv, [AppNext]_app_vars PROVE AppIInv'
    OBVIOUS
  <2>1. ASSUME NEW name \in PageNames, NEW method \in RequestMethods,
               NEW preflight \in BOOLEAN, NEW forged \in Forgeries,
               Ask(Request(name, method, preflight, forged))
        PROVE  AppIInv'
    BY <2>1, AskStep
  <2>2. CASE Follow \/ ProviderReturns \/ Expire
    BY <2>2, FollowStep, ProviderStep, ExpireStep
  <2>3. CASE CallbackRoute \/ LogoutRoute
    BY <2>3, CallbackStep, LogoutStep
  <2>4. CASE Forward \/ Unauthenticated
    BY <2>4, ForwardStep, UnauthenticatedStep
  <2>5. CASE Attempt \/ AttemptRefused \/ Retry \/ Respond
    BY <2>5, AttemptStep, AttemptRefusedStep, RetryStep, RespondStep
  <2>6. CASE UNCHANGED app_vars
    <3>1. UNCHANGED <<mapping, pc, jar, request, session, upstream, answer,
                      origin>>
      BY <2>6 DEF app_vars
    <3>2. Admitted' <=> Admitted
      BY <3>1, AdmittedFrame
    <3> QED  BY <3>1, <3>2 DEF AppIInv, SigningOut, IsRedirect
  <2> QED  BY <2>1, <2>2, <2>3, <2>4, <2>5, <2>6 DEF AppNext
<1> QED  BY <1>1, <1>2, PTL DEF AppSpec

-----------------------------------------------------------------------------
(* Promises.                                                                *)

\* SessionDecides: the upstream is told the subject of the session and nothing
\* that the client wrote, and only the open pages are served without a session
\* (upstream_request_filter and the routes of main).
THEOREM SessionsDecide == AppSpec => []SessionDecides
<1>1. ASSUME AppIInv, pc = "answered"
      PROVE  /\ upstream.subjects
                  = IF request.preflight \/ request.name \in {Health, SignedOut}
                    THEN {} ELSE {jar} \cap Subjects
             /\ jar = NoSession /\ ~request.preflight =>
                  request.name \in {Health, SignedOut, Home}
  <2>1. /\ Admitted /\ upstream.subjects = {session} \cap Subjects
    BY <1>1 DEF AppIInv
  <2>2. Sessionless
          <=> request.preflight \/ request.name \in {Health, SignedOut}
    BY <1>1, RequestedPage DEF Sessionless
  <2>3. NoSession \notin Subjects
    BY ApplicationAssumption
  <2>4. session = IF Sessionless THEN NoSession ELSE jar
    BY <2>1 DEF Admitted
  <2>5. ASSUME jar = NoSession, ~request.preflight
        PROVE  request.name \in {Health, SignedOut, Home}
    BY <1>1, <2>1, <2>2, <2>5, RequestedPage DEF Admitted
  <2>6. CASE Sessionless
    BY <2>1, <2>2, <2>3, <2>4, <2>5, <2>6
  <2>7. CASE ~Sessionless
    BY <2>1, <2>2, <2>4, <2>5, <2>7
  <2> QED  BY <2>6, <2>7
<1>2. AppIInv => SessionDecides
  BY <1>1 DEF SessionDecides, UpstreamSeesTheSession, OnlyOpenPagesAreOpen
<1> QED  BY <1>2, ApplicationInvariant, PTL

\* SignOutLeavesNoSession: a POST to the logout path ends at the signed-out
\* page without a session, unless it is refused (try_handle_login_route, and
\* the post-logout URL of main).
THEOREM SigningOutEnds == AppSpec => []SignOutLeavesNoSession
<1>1. AppIInv => SignOutLeavesNoSession
  BY DEF AppIInv, SignOutLeavesNoSession, SigningOut
<1> QED  BY <1>1, ApplicationInvariant, PTL
=============================================================================
