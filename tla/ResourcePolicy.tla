---------------------------- MODULE ResourcePolicy ----------------------------
(***************************************************************************)
(* The construction of a ResourcePolicy (src/src/resource/policy.rs): rules *)
(* are written call by call, handed to the builder as routes or as the     *)
(* default, validated by build, and summed up in the scopes that metadata  *)
(* advertises.                                                             *)
(*                                                                         *)
(* Next to each rule the model keeps what its author asked for; the code   *)
(* sees the rule alone.                                                    *)
(***************************************************************************)
EXTENDS RouteTable, AccessRule

CONSTANTS
    Audiences, Scopes, Checks,   \* what rules may ask for
    NoRule,                      \* no rule in hand, or no default set
    MaxRules                     \* bound: rules handed to the builder

ASSUME ResourcePolicyAssumption ==
    /\ NoCheck \notin Checks
    /\ \A scopes \in SUBSET Scopes : NoScope # scopes
    /\ MaxRules \in Nat

Patterns == DOMAIN PatternFaults

VARIABLES
    draft,             \* the rule in hand and what was asked of it
    routes,            \* ResourcePolicyBuilder::routes
    default,           \* ResourcePolicyBuilder::default
    outcome,           \* of build: a policy or a ConfigError
    scopes_supported   \* ResourcePolicy::scopes_supported

vars == <<draft, routes, default, outcome, scopes_supported>>

\* ConfigError, as far as the policy's builder returns it.
ConfigErrors ==
    {"PublicRuleWithConstraints", "Route", "NonCanonicalPattern",
     "NonCanonicalCasePattern"}

Building == [kind |-> "building", error |-> "none", pattern |-> <<>>]

Init ==
    /\ draft = NoRule
    /\ routes = <<>>
    /\ default = NoRule
    /\ outcome = Building
    /\ scopes_supported = {}

-----------------------------------------------------------------------------
(* Faulty variants of the definitions below: none is part of the model.     *)

-----------------------------------------------------------------------------
(* Rules.                                                                   *)

Given == Len(routes) + IF default = NoRule THEN 0 ELSE 1

Writing == outcome = Building /\ Given < MaxRules

\* What was asked of a rule that its constructor alone has made.
Asked(token) ==
    [token |-> token, audiences |-> {}, scopes |-> {}, check |-> NoCheck,
     method |-> AnyMethod]

Construct(token) ==
    /\ Writing
    /\ draft' = [rule |-> WithRequirement(token), asked |-> Asked(token)]
    /\ UNCHANGED <<routes, default, outcome, scopes_supported>>

\* One more call on the rule in hand.
Amend(rule, asked) ==
    /\ Writing
    /\ draft' = [rule |-> rule, asked |-> asked]
    /\ UNCHANGED <<routes, default, outcome, scopes_supported>>

AcceptAudiences(audiences) ==
    /\ draft # NoRule
    /\ Amend(WithAudiences(draft.rule, audiences),
             [draft.asked EXCEPT !.audiences = @ \cup audiences])

RequireScopes(scopes) ==
    /\ draft # NoRule
    /\ Amend(WithScopes(draft.rule, scopes),
             [draft.asked EXCEPT !.scopes = @ \cup scopes])

AttachCheck(f) ==
    /\ draft # NoRule
    /\ Amend(WithCheck(draft.rule, f), [draft.asked EXCEPT !.check = f])

RestrictTo(method) ==
    /\ draft # NoRule
    /\ Amend(WithMethod(draft.rule, OneOf(method)),
             [draft.asked EXCEPT !.method = {method}])

-----------------------------------------------------------------------------
(* ResourcePolicyBuilder.                                                   *)

\* The rule is moved into the builder, or a clone of it.
HandedOver == draft' \in {NoRule, draft}

\* route, subtree and blob_subtree.
AddRoute(kind, pattern) ==
    /\ Writing /\ draft # NoRule
    /\ routes' = Append(routes, [kind |-> kind, pattern |-> pattern,
                                 rule |-> draft.rule, asked |-> draft.asked])
    /\ HandedOver
    /\ UNCHANGED <<default, outcome, scopes_supported>>

SetDefault ==
    /\ Writing /\ draft # NoRule /\ default = NoRule
    /\ default' = draft
    /\ HandedOver
    /\ UNCHANGED <<routes, outcome, scopes_supported>>

Fallback ==
    IF default = NoRule
    THEN [rule |-> DefaultRule, asked |-> Asked("required")]
    ELSE default

\* "<default>" is no path.
DefaultName == <<"<default>">>

PublicRuleWithConstraints(pattern) ==
    [kind |-> "refused", error |-> "PublicRuleWithConstraints",
     pattern |-> pattern]

\* ConfigError::from(RuleRouterError).
FromRouterError(e) ==
    [kind |-> "refused", pattern |-> e.pattern,
     error |-> CASE e.kind = "Route" -> "Route"
                 [] e.kind = "NonCanonical" -> "NonCanonicalPattern"
                 [] e.kind = "NonCanonicalCase" -> "NonCanonicalCasePattern"
                 [] e.kind = "EmptyMethodSet" -> "Route"]

\* The first public rule with constraints, in the order of registration.
FirstOffender ==
    {i \in DOMAIN routes :
       /\ PublicConstraintsRequested(routes[i].rule)
       /\ \A j \in 1 .. i - 1 : ~PublicConstraintsRequested(routes[j].rule)}

AllScopes ==
    Fallback.rule.scopes
    \cup UNION {routes[i].rule.scopes : i \in DOMAIN routes}

Registrations ==
    [i \in DOMAIN routes |->
       Registration(routes[i].kind, routes[i].pattern, routes[i].rule.method)]

\* build: rules are judged before the router sees any pattern.
Build ==
    /\ outcome = Building
    /\ \/ /\ \E i \in FirstOffender :
               outcome' = PublicRuleWithConstraints(routes[i].pattern)
          /\ UNCHANGED scopes_supported
       \/ /\ FirstOffender = {} /\ PublicConstraintsRequested(Fallback.rule)
          /\ outcome' = PublicRuleWithConstraints(DefaultName)
          /\ UNCHANGED scopes_supported
       \/ /\ FirstOffender = {} /\ ~PublicConstraintsRequested(Fallback.rule)
          /\ \/ /\ RouterErrors(Registrations) = {}
                /\ outcome' = [Building EXCEPT !.kind = "built"]
                /\ scopes_supported' = AllScopes
             \/ /\ \E e \in RouterErrors(Registrations) :
                     outcome' = FromRouterError(e)
                /\ UNCHANGED scopes_supported
    /\ draft' = NoRule
    /\ UNCHANGED <<routes, default>>

Finished == outcome # Building /\ UNCHANGED vars

Next ==
    \/ \E token \in TokenRequirements : Construct(token)
    \/ \E audiences \in SUBSET Audiences : AcceptAudiences(audiences)
    \/ \E scopes \in SUBSET Scopes : RequireScopes(scopes)
    \/ \E f \in Checks : AttachCheck(f)
    \/ \E method \in RequestMethods : RestrictTo(method)
    \/ \E kind \in Kinds, pattern \in Patterns : AddRoute(kind, pattern)
    \/ SetDefault \/ Build \/ Finished

Spec == Init /\ [][Next]_vars

-----------------------------------------------------------------------------
(* The policy, as Guard resolves its routes.                                *)

IsBuilt == outcome.kind = "built"

\* The rule that decides a request and what was asked of it, or a denial.
Governing(path, method) ==
    LET verdict == Resolve(Registrations, path, method) IN
    CASE verdict.kind = "default" -> Fallback
      [] verdict.kind = "rule" ->
           [rule |-> routes[verdict.index].rule,
            asked |-> routes[verdict.index].asked]
      [] OTHER -> NoRule
=============================================================================
