----------------------------- MODULE LoginPolicy -----------------------------
(***************************************************************************)
(* The construction of a LoginProxy: rules are written call by call        *)
(* (src/src/login/rule.rs), handed to the builder as routes or as the      *)
(* default, and validated by build (src/src/login/proxy/mod.rs).           *)
(*                                                                         *)
(* Next to each rule the model keeps what its author asked for, in the     *)
(* author's terms; the code sees the rule alone.  Patterns are literal     *)
(* paths, parameters being the router's.  The other arguments of the       *)
(* builder are stored as they are and left out.                            *)
(***************************************************************************)
EXTENDS RouteTable

CONSTANTS
    Checks,     \* the check functions that an application attaches
    NoCheck,    \* the None of a rule's check
    NoRule,     \* no rule in hand, or no default set
    MaxRules    \* bound: rules handed to the builder

ASSUME LoginPolicyAssumption == NoCheck \notin Checks /\ MaxRules \in Nat

Patterns == DOMAIN PatternFaults

VARIABLES
    draft,      \* the rule in hand and what was asked of it
    routes,     \* LoginProxyBuilder::routes
    default,    \* LoginProxyBuilder::default
    outcome     \* of build: the proxy's routes or a RouteConfigError

vars == <<draft, routes, default, outcome>>

Levels == {"public", "optional", "required"}

\* RouteConfigError, an enum.
RouteConfigErrors ==
    {"PublicRuleWithCheck", "Route", "NonCanonicalPattern",
     "NonCanonicalCasePattern"}

Building == [kind |-> "building", error |-> "none", pattern |-> <<>>]

Init ==
    /\ draft = NoRule
    /\ routes = <<>>
    /\ default = NoRule
    /\ outcome = Building

-----------------------------------------------------------------------------
(* Faulty variants of the definitions below: none is part of the model. Each *)
(* is a slip an edit of the code could make; replacing the definition by it  *)
(* must break a property, which shows that the property is about the code.   *)

\* The check of a public rule is dropped without a trace.
FaultCheckIgnored(rule, f) ==
    IF rule.level = "public" THEN rule ELSE [rule EXCEPT !.check = f]

-----------------------------------------------------------------------------
(* LoginRule.                                                               *)

\* LoginRule::public, optional and required.  The check_requested of the
\* public variant stands beside the check of the other two.
Rule(level) ==
    [level |-> level, check |-> NoCheck, method |-> AnyMethod,
     check_requested |-> FALSE]

\* LoginRule::check.
WithCheck(rule, f) ==
    IF rule.level = "public" THEN [rule EXCEPT !.check_requested = TRUE]
    ELSE [rule EXCEPT !.check = f]

\* LoginRule::method, which keeps whatever check was attached.
WithMethod(rule, method) == [rule EXCEPT !.method = method]

MethodMatch(rule) == rule.method

PublicCheckRequested(rule) == rule.level = "public" /\ rule.check_requested

\* LoginRule::default.
DefaultRule == Rule("required")

Given == Len(routes) + IF default = NoRule THEN 0 ELSE 1

Writing == outcome = Building /\ Given < MaxRules

Draft(level, method) ==
    /\ Writing
    /\ draft' = [rule |-> WithMethod(Rule(level), method),
                 asked |-> [level |-> level, check |-> NoCheck,
                            method |-> method]]
    /\ UNCHANGED <<routes, default, outcome>>

Construct(level) == Draft(level, AnyMethod)

\* A variant of the public enum written out, with a MethodMatch made of any
\* list of methods.  Its check_requested is left to AttachCheck, whose record
\* it is, and a list of one method to RestrictTo, which makes the same rule.
WriteOut(level, methods) ==
    /\ \A method \in methods : methods # {method}
    /\ Draft(level, methods)

AttachCheck(f) ==
    /\ Writing /\ draft # NoRule
    /\ draft' = [rule |-> WithCheck(draft.rule, f),
                 asked |-> [draft.asked EXCEPT !.check = f]]
    /\ UNCHANGED <<routes, default, outcome>>

RestrictTo(method) ==
    /\ Writing /\ draft # NoRule
    /\ draft' = [rule |-> WithMethod(draft.rule, OneOf(method)),
                 asked |-> [draft.asked EXCEPT !.method = {method}]]
    /\ UNCHANGED <<routes, default, outcome>>

-----------------------------------------------------------------------------
(* LoginProxyBuilder.                                                       *)

\* The rule is moved into the builder, or a clone of it.
HandedOver == draft' \in {NoRule, draft}

\* route, subtree and blob_subtree.
AddRoute(kind, pattern) ==
    /\ Writing /\ draft # NoRule
    /\ routes' = Append(routes, [kind |-> kind, pattern |-> pattern,
                                 rule |-> draft.rule, asked |-> draft.asked])
    /\ HandedOver
    /\ UNCHANGED <<default, outcome>>

SetDefault ==
    /\ Writing /\ draft # NoRule /\ default = NoRule
    /\ default' = draft
    /\ HandedOver
    /\ UNCHANGED <<routes, outcome>>

Fallback ==
    IF default = NoRule
    THEN [rule |-> DefaultRule,
          asked |-> [level |-> "required", check |-> NoCheck,
                     method |-> AnyMethod]]
    ELSE default

\* Error variants and the pattern they name; "<default>" is no path.
DefaultName == <<"<default>">>

PublicRuleWithCheck(pattern) ==
    [kind |-> "refused", error |-> "PublicRuleWithCheck", pattern |-> pattern]

\* RouteConfigError::from(RuleRouterError).  A registration has one pattern:
\* the errors of an empty or too large set of patterns do not occur.
FromRouterError(e) ==
    [kind |-> "refused", pattern |-> e.pattern,
     error |-> CASE e.kind = "Route" -> "Route"
                 [] e.kind = "NonCanonical" -> "NonCanonicalPattern"
                 [] e.kind = "NonCanonicalCase" -> "NonCanonicalCasePattern"
                 [] e.kind = "EmptyMethodSet" -> "Route"]

\* The first public rule with a check, in the order of registration.
FirstOffender ==
    {i \in DOMAIN routes :
       /\ PublicCheckRequested(routes[i].rule)
       /\ \A j \in 1 .. i - 1 : ~PublicCheckRequested(routes[j].rule)}

Registrations ==
    [i \in DOMAIN routes |->
       Registration(routes[i].kind, routes[i].pattern,
                    MethodMatch(routes[i].rule))]

\* build: the rules are judged before the router sees any pattern.
Build ==
    /\ outcome = Building
    /\ \/ \E i \in FirstOffender :
            outcome' = PublicRuleWithCheck(routes[i].pattern)
       \/ /\ FirstOffender = {} /\ PublicCheckRequested(Fallback.rule)
          /\ outcome' = PublicRuleWithCheck(DefaultName)
       \/ /\ FirstOffender = {} /\ ~PublicCheckRequested(Fallback.rule)
          /\ \/ /\ RouterErrors(Registrations) = {}
                /\ outcome' = [Building EXCEPT !.kind = "built"]
             \/ \E e \in RouterErrors(Registrations) :
                  outcome' = FromRouterError(e)
    /\ draft' = NoRule
    /\ UNCHANGED <<routes, default>>

Finished == outcome # Building /\ UNCHANGED vars

Next ==
    \/ \E level \in Levels : Construct(level)
    \/ \E f \in Checks : AttachCheck(f)
    \/ \E level \in Levels, methods \in SUBSET RequestMethods :
         WriteOut(level, methods)
    \/ \E method \in RequestMethods : RestrictTo(method)
    \/ \E kind \in Kinds, pattern \in Patterns : AddRoute(kind, pattern)
    \/ SetDefault \/ Build \/ Finished

Spec == Init /\ [][Next]_vars

-----------------------------------------------------------------------------
(* The routes of the proxy, as request_filter resolves them.                *)

IsBuilt == outcome.kind = "built"

\* The rule that decides a request and what was asked of it, or a denial.
Governing(path, method) ==
    LET verdict == Resolve(Registrations, path, method) IN
    CASE verdict.kind = "default" -> Fallback
      [] verdict.kind = "rule" ->
           [rule |-> routes[verdict.index].rule,
            asked |-> routes[verdict.index].asked]
      [] OTHER -> NoRule
=============================================================================
